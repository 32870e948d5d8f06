--------------------------- MODULE DatasetProofs ---------------------------
(***************************************************************************)
(* TLAPS proofs about Dataset, for lists of any sizes and any number of    *)
(* collisions.                                                             *)
(***************************************************************************)
EXTENDS Dataset, FiniteSetTheorems, SequenceTheorems, TLAPS

\* Scripts that never give up on collisions: they have no limit, or they go through
\* domains that are all different.
Patient == script.budget = 0 \/ script.listed

\* Up to the first close, the lists have room, and the collisions are within budget.
Running ==
    ~stop => /\ counter <= Limit
             /\ script.budget > 0 => force = 0 \/ force < script.budget * counter

\* Afterwards the last list is full, or the budget is spent.
Stopped ==
    stop /\ pc # "died" =>
        \/ counter > Limit
        \/ ~Patient /\ force >= script.budget * counter

Flags == (open <=> ~stop) /\ (pc = "ended" => stop)

\* As long as no write has failed, the longest list has all it can take.
Written ==
    IF pc = "died" THEN Len(Longest) = counter - 1
    ELSE Len(Longest) = IF counter <= Limit THEN counter ELSE Limit

\* Where ccleaner is in its pass, and what it has found there.
Progress ==
    script.listed =>
        /\ pc = "row" => rows \in 0..YEARS
        /\ pc = "item" => rows \in 0..(YEARS - 1) /\ left \in 0..MONTHS
        /\ ~stop => /\ pc = "while" => data = {}
                    /\ pc = "row" => data = 1..((YEARS - rows) * MONTHS)
                    /\ pc = "item" => data = 1..((YEARS - rows) * MONTHS - left)

\* The inductive invariant.
IInv ==
    /\ ListsAgree /\ DiesUntestedOnly
    /\ Running /\ Stopped /\ Flags /\ Written /\ Progress

-----------------------------------------------------------------------------
(* The scripts.                                                            *)

\* A script that tests stop before every domain or has no limit on collisions.
Careful(s) ==
    /\ s.files \in 1..7 /\ s.budget \in {0, 2, 10, 100}
    /\ s.rows \in SUBSET Nat /\ s.items \in SUBSET Nat
    /\ s.listed = FALSE
    /\ s.tests = "item" \/ s.budget = 0

\* What holds of every script: the shape of its record; only kraken_v1, qadars and
\* suppobox give up on collisions without testing stop; ccleaner alone is listed.
Wellformed(s) ==
    /\ s.files \in 1..7 /\ s.budget \in {0, 2, 10, 100}
    /\ s.rows \in SUBSET Nat /\ s.items \in SUBSET Nat
    /\ \/ /\ s.listed = FALSE
          /\ s.tests = "item" \/ s.budget = 0 \/ s \in {kraken_v1, qadars, suppobox}
       \/ /\ s.listed = TRUE
          /\ s.files = 3 /\ s.budget = 10 /\ s.leaves = "never" /\ s.tests = "pass"
          /\ s.rows = {YEARS} /\ s.items = {MONTHS}

\* Every one of the recorded scripts is well formed.
LEMMA ScriptFacts == \A s \in Scripts : Wellformed(s)
<1>. USE ScriptsAssumption
<1>1. Careful(Single) /\ Careful(Batch) /\ Careful(Unchecked)
    BY DEF Careful, Single, Batch, Unchecked
<1>2. /\ Careful(alureon_dnschanger) /\ Careful(banjori) /\ Careful(corebot) /\ Careful(fobber_v1)
      /\ Careful(fobber_v2) /\ Careful(murofet_v1) /\ Careful(qakbot)
    BY DEF Careful, Single, alureon_dnschanger, banjori, corebot, fobber_v1, fobber_v2, murofet_v1,
           qakbot
<1>3. Careful(bedep) /\ Careful(kraken_v2) /\ Careful(tempedreve)
    BY DEF Careful, Single, Batch, bedep, kraken_v2, tempedreve
<1>4. /\ Careful(chinad) /\ Careful(dircrypt) /\ Careful(nymaim)
      /\ Careful(pykspa_noise) /\ Careful(pykspa)
    BY DEF Careful, Single, Batch, Unchecked, chinad, dircrypt, nymaim, pykspa_noise, pykspa
<1>5. /\ Careful(dyre) /\ Careful(gozi) /\ Careful(matsnu) /\ Careful(murofet_v2)
      /\ Careful(murofet_v3) /\ Careful(pizd) /\ Careful(ramdo) /\ Careful(ramnit)
      /\ Careful(rovnix) /\ Careful(shiotob) /\ Careful(simda) /\ Careful(tinba)
      /\ Careful(vawtrak_v1) /\ Careful(vawtrak_v2) /\ Careful(vawtrak_v3) /\ Careful(zeus_newgoz)
      /\ Careful(cryptolocker) /\ Careful(necurs) /\ Careful(proslikefan) /\ Careful(pushdo)
      /\ Careful(ranbyus_v2) /\ Careful(sisron) /\ Careful(symmi) /\ Careful(padcrypt)
    BY <1>1 DEF dyre, gozi, matsnu, murofet_v2, murofet_v3, pizd, ramdo, ramnit, rovnix, shiotob,
                simda, tinba, vawtrak_v1, vawtrak_v2, vawtrak_v3, zeus_newgoz, cryptolocker, necurs,
                proslikefan, pushdo, ranbyus_v2, sisron, symmi, padcrypt
<1>6. \A s \in {kraken_v1, qadars, suppobox} : Wellformed(s)
    <2>1. /\ kraken_v1.files = 7 /\ kraken_v1.budget = 2 /\ kraken_v1.rows = {1}
          /\ kraken_v1.items = 1..MaxItems /\ kraken_v1.listed = FALSE
        BY DEF Single, Batch, kraken_v1
    <2>2. /\ qadars.files = 7 /\ qadars.budget = 10 /\ qadars.rows = 1..MaxRows
          /\ qadars.items = 1..MaxItems /\ qadars.listed = FALSE
        BY DEF Single, Batch, qadars
    <2>3. /\ suppobox.files = 5 /\ suppobox.budget = 10 /\ suppobox.rows = {1}
          /\ suppobox.items = {1} /\ suppobox.listed = FALSE
        BY DEF Single, suppobox
    <2>. QED  BY <2>1, <2>2, <2>3 DEF Wellformed
<1>7. Wellformed(ccleaner)
    <2>1. /\ ccleaner.files = 3 /\ ccleaner.budget = 10 /\ ccleaner.leaves = "never"
          /\ ccleaner.rows = {YEARS} /\ ccleaner.items = {MONTHS} /\ ccleaner.tests = "pass"
          /\ ccleaner.listed = TRUE
        BY DEF Single, ccleaner
    <2>. QED  BY <2>1 DEF Wellformed
<1>8. \A s : Careful(s) => Wellformed(s)
    BY DEF Careful, Wellformed
<1>. QED
    <2>. SUFFICES ASSUME NEW s \in Scripts PROVE Careful(s) \/ s \in {ccleaner, kraken_v1, qadars, suppobox}
        BY <1>6, <1>7, <1>8
    <2>. QED  BY <1>1, <1>2, <1>3, <1>4, <1>5 DEF Scripts

-----------------------------------------------------------------------------
(* Sizes and places.                                                       *)

\* The record of the script that runs, and its longest list.
LEMMA RunFacts ==
    ASSUME TypeOK
    PROVE  /\ Wellformed(script) /\ script.files \in 1..7
           /\ script.budget \in {0, 2, 10, 100} /\ script.budget \in Nat
           /\ script.rows \in SUBSET Nat /\ script.items \in SUBSET Nat
           /\ Limit \in Nat \ {0}
           /\ \A i \in 1..script.files : Tiers[i] \in Nat \ {0} /\ Tiers[i] <= Limit
           /\ counter \in Nat
<1>1. Wellformed(script)
    BY ScriptFacts DEF TypeOK
<1>2. /\ script.files \in 1..7 /\ script.budget \in {0, 2, 10, 100}
      /\ script.rows \in SUBSET Nat /\ script.items \in SUBSET Nat
    BY <1>1 DEF Wellformed
<1>3. Tiers[1] < Tiers[2] /\ Tiers[2] < Tiers[3] /\ Tiers[3] < Tiers[4] /\ Tiers[4] < Tiers[5]
      /\ Tiers[5] < Tiers[6] /\ Tiers[6] < Tiers[7]
    <2>1. \A i \in 1..6 : Tiers[i] < Tiers[i + 1]
        BY DatasetAssumption
    <2>. QED  BY <2>1
<1>4. \A i \in 1..7 : Tiers[i] \in Nat \ {0}
    BY DatasetAssumption
<1>5. \A i, j \in 1..7 : i <= j => Tiers[i] <= Tiers[j]
    <2>1. \A i \in 1..7 : i = 1 \/ i = 2 \/ i = 3 \/ i = 4 \/ i = 5 \/ i = 6 \/ i = 7
        OBVIOUS
    <2>2. /\ Tiers[1] \in Nat /\ Tiers[2] \in Nat /\ Tiers[3] \in Nat /\ Tiers[4] \in Nat
          /\ Tiers[5] \in Nat /\ Tiers[6] \in Nat /\ Tiers[7] \in Nat
        BY <1>4
    <2>. QED  BY <1>3, <2>1, <2>2
<1>6. \A i \in 1..script.files : i \in 1..7 /\ i <= script.files
    BY <1>2
<1>7. counter \in Nat
    BY FS_CardinalityType DEF TypeOK, counter
<1>. QED  BY <1>1, <1>2, <1>4, <1>5, <1>6, <1>7 DEF Limit

\* The domains ccleaner has gone through when r years of its pass are left.
LEMMA YearFacts ==
    ASSUME NEW r \in 0..YEARS
    PROVE  /\ (YEARS - r) * MONTHS \in Nat
           /\ r = YEARS => (YEARS - r) * MONTHS = 0
           /\ r > 0 => (YEARS - (r - 1)) * MONTHS = (YEARS - r) * MONTHS + MONTHS
           /\ r < YEARS => (YEARS - r) * MONTHS >= MONTHS
<1>. USE ScriptsAssumption
<1>. DEFINE y == YEARS - r
<1>1. y \in Nat /\ YEARS - (r - 1) = y + 1
    OBVIOUS
<1>2. y * MONTHS \in Nat /\ (y + 1) * MONTHS = y * MONTHS + MONTHS
    BY <1>1
<1>3. r = YEARS => y * MONTHS = 0
    OBVIOUS
<1>4. r < YEARS => y * MONTHS >= MONTHS
    <2>. SUFFICES ASSUME r < YEARS PROVE y * MONTHS >= MONTHS
        OBVIOUS
    <2>1. y - 1 \in Nat /\ (y - 1) * MONTHS \in Nat /\ y * MONTHS = (y - 1) * MONTHS + MONTHS
        OBVIOUS
    <2>. HIDE DEF y
    <2>. QED  BY <1>2, <2>1
<1>. HIDE DEF y
<1>. QED  BY <1>1, <1>2, <1>3, <1>4 DEF y

\* One domain more.
LEMMA OneMore ==
    ASSUME TypeOK, NEW d, d \notin data
    PROVE  IsFiniteSet(data \cup {d}) /\ Cardinality(data \cup {d}) = counter + 1
BY FS_AddElement DEF TypeOK, counter

\* A collision needs a domain to collide with.
LEMMA Collided ==
    ASSUME TypeOK, NEW d \in data
    PROVE  counter > 0
BY RunFacts, FS_EmptySet DEF TypeOK, counter

-----------------------------------------------------------------------------
(* The steps.                                                              *)

\* The lists are created empty.
LEMMA InitIInv == Init => IInv
<1>. SUFFICES ASSUME Init PROVE IInv
    OBVIOUS
<1>1. script \in Scripts /\ script.files \in 1..7
    BY ScriptFacts DEF Init, Wellformed
<1>2. data = {} /\ IsFiniteSet(data) /\ counter = 0
    BY FS_EmptySet DEF Init, counter
<1>3. /\ \A i \in 1..script.files : files[i] = << >>
      /\ Longest = << >> /\ Len(Longest) = 0
    BY <1>1 DEF Init, Longest
<1>4. files \in [1..script.files -> Seq(data)]
    BY <1>1 DEF Init
<1>5. TypeOK
    BY <1>1, <1>2, <1>4 DEF Init, TypeOK
<1>6. \A i \in 1..script.files :
          files[i] = SubSeq(Longest, 1, IF Len(Longest) < Tiers[i] THEN Len(Longest) ELSE Tiers[i])
    <2>1. \A i \in 1..script.files : Tiers[i] \in Nat \ {0}
        BY <1>5, RunFacts
    <2>2. SubSeq(<< >>, 1, 0) = << >>
        BY SubSeqEmpty
    <2>3. ASSUME NEW i \in 1..script.files
          PROVE  (IF Len(Longest) < Tiers[i] THEN Len(Longest) ELSE Tiers[i]) = 0
        BY <1>3, <2>1
    <2>. QED  BY <1>3, <2>2, <2>3
<1>7. ListsAgree
    BY <1>2, <1>3, <1>5, <1>6 DEF ListsAgree
<1>8. Limit \in Nat \ {0} /\ script.budget \in Nat
    BY <1>5, RunFacts
<1>. QED  BY <1>2, <1>3, <1>7, <1>8 DEF Init, IInv, DiesUntestedOnly, Running, Stopped, Flags, Written,
             Progress

\* Between two domains nothing is written: only the place in the loops changes.
LEMMA LoopPreserves ==
    ASSUME IInv, while_pass \/ while_end \/ row_begin \/ row_end \/ pass_end
    PROVE  IInv'
<1>. USE DEF while_pass, while_end, row_begin, row_end, pass_end
<1>1. /\ script' = script /\ data' = data /\ files' = files
      /\ open' = open /\ stop' = stop /\ force' = force
      /\ pc # "died" /\ pc' # "died" /\ (pc' = "ended" => stop)
      /\ pc' \in {"while", "row", "item", "ended"}
    OBVIOUS
<1>2. TypeOK
    BY DEF IInv, ListsAgree
<1>3. rows' \in Nat /\ left' \in Nat /\ tmp' \in Nat
    BY <1>2, RunFacts DEF TypeOK
<1>4. TypeOK'
    BY <1>1, <1>2, <1>3 DEF TypeOK
<1>5. counter' = counter /\ Limit' = Limit /\ Longest' = Longest /\ (Patient' <=> Patient)
    BY <1>1 DEF counter, Limit, Longest, Patient
<1>6. ListsAgree'
    BY <1>1, <1>4, <1>5 DEF IInv, ListsAgree
<1>7. Running' /\ Stopped' /\ Flags' /\ Written' /\ DiesUntestedOnly'
    BY <1>1, <1>5 DEF IInv, Running, Stopped, Flags, Written, DiesUntestedOnly
<1>8. Progress'
    <2>. SUFFICES ASSUME script.listed PROVE Progress'
        BY <1>1 DEF Progress
    <2>1. /\ script.tests = "pass" /\ script.rows = {YEARS} /\ script.items = {MONTHS} /\ script.files = 3
        BY <1>2, RunFacts DEF Wellformed
    <2>2. YEARS \in Nat \ {0} /\ MONTHS \in Nat \ {0}
        BY ScriptsAssumption
    <2>3. CASE while_pass
        <3>1. pc' = "row" /\ rows' = YEARS /\ ~stop /\ data = {}
            BY <2>1, <2>3 DEF IInv, Progress
        <3>2. data = 1..((YEARS - YEARS) * MONTHS)
            BY <2>2, <3>1
        <3>. QED  BY <1>1, <2>2, <3>1, <3>2 DEF Progress
    <2>4. CASE while_end
        BY <1>1, <2>4 DEF Progress
    <2>5. CASE row_begin
        <3>1. pc = "row" /\ pc' = "item" /\ rows \in 1..YEARS /\ rows' = rows - 1 /\ left' = MONTHS
            BY <2>1, <2>2, <2>5 DEF IInv, Progress
        <3>2. ~stop => data = 1..((YEARS - rows) * MONTHS)
            BY <3>1 DEF IInv, Progress
        <3>3. (YEARS - rows') * MONTHS - left' = (YEARS - rows) * MONTHS
            BY <2>2, <3>1, YearFacts
        <3>4. rows' \in 0..(YEARS - 1) /\ left' \in 0..MONTHS
            BY <2>2, <3>1
        <3>. QED  BY <1>1, <3>1, <3>2, <3>3, <3>4 DEF Progress
    <2>6. CASE row_end
        <3>1. pc = "item" /\ left = 0 /\ pc' = "row" /\ rows' = rows
            BY <2>1, <2>6 DEF ItemsTest
        <3>2. rows \in 0..(YEARS - 1) /\ (~stop => data = 1..((YEARS - rows) * MONTHS - 0))
            BY <3>1 DEF IInv, Progress
        <3>3. (YEARS - rows) * MONTHS \in Nat /\ rows \in 0..YEARS
            BY <2>2, <3>2, YearFacts
        <3>4. (YEARS - rows) * MONTHS - 0 = (YEARS - rows) * MONTHS
            BY <3>3
        <3>. QED  BY <1>1, <3>1, <3>2, <3>3, <3>4 DEF Progress
    <2>7. CASE pass_end
        \* A pass holds more domains than the lists of ccleaner: it is never completed.
        <3>1. pc = "row" /\ rows = 0 /\ pc' = "while"
            BY <2>1, <2>7 DEF RowsTest
        <3>2. stop
            <4>. SUFFICES ASSUME ~stop PROVE FALSE
                OBVIOUS
            <4>1. data = 1..((YEARS - 0) * MONTHS)
                BY <3>1 DEF IInv, Progress
            <4>2. (YEARS - 0) * MONTHS = YEARS * MONTHS /\ YEARS * MONTHS \in Nat
                BY <2>2
            <4>3. counter = YEARS * MONTHS
                BY <4>1, <4>2, FS_Interval DEF counter
            <4>4. YEARS * MONTHS > Limit
                BY <2>1, DatasetAssumption DEF Limit
            <4>5. counter <= Limit
                BY DEF IInv, Running
            <4>. QED  BY <1>2, <4>2, <4>3, <4>4, <4>5, RunFacts
        <3>. QED  BY <1>1, <3>1, <3>2 DEF Progress
    <2>. QED  BY <2>3, <2>4, <2>5, <2>6, <2>7
<1>. QED  BY <1>6, <1>7, <1>8 DEF IInv

\* Where a domain is drawn: ccleaner is at a new one as long as it has not stopped.
LEMMA ItemFacts ==
    ASSUME IInv, Item
    PROVE  /\ TypeOK /\ pc = "item" /\ left \in Nat \ {0} /\ Rest \in Nat
           /\ Draws \subseteq Nat \ {0}
           /\ script.listed =>
                 /\ rows \in 0..(YEARS - 1) /\ left \in 1..MONTHS
                 /\ script.leaves = "never" /\ Rest = left - 1 /\ Draws = {Place}
                 /\ (YEARS - rows) * MONTHS - left \in Nat
                 /\ Place = (YEARS - rows) * MONTHS - left + 1
                 /\ ~stop => data = 1..((YEARS - rows) * MONTHS - left)
<1>1. TypeOK /\ pc = "item" /\ left \in Nat \ {0}
    BY DEF IInv, ListsAgree, TypeOK, Item
<1>2. Rest \in Nat /\ counter \in Nat /\ data \subseteq Nat \ {0}
    BY <1>1, RunFacts DEF Rest, TypeOK
<1>3. ~script.listed => Draws \subseteq Nat \ {0}
    BY <1>2 DEF Draws
<1>4. ASSUME script.listed
      PROVE  /\ rows \in 0..(YEARS - 1) /\ left \in 1..MONTHS
             /\ script.leaves = "never" /\ Rest = left - 1 /\ Draws = {Place}
             /\ (YEARS - rows) * MONTHS - left \in Nat
             /\ Place = (YEARS - rows) * MONTHS - left + 1
             /\ ~stop => data = 1..((YEARS - rows) * MONTHS - left)
    <2>1. script.leaves = "never"
        BY <1>1, <1>4, RunFacts DEF Wellformed
    <2>2. Rest = left - 1 /\ Draws = {Place}
        BY <1>4, <2>1 DEF Rest, Draws
    <2>3. rows \in 0..(YEARS - 1) /\ left \in 1..MONTHS
        BY <1>1, <1>4, ScriptsAssumption DEF IInv, Progress
    <2>4. (YEARS - rows) * MONTHS \in Nat /\ (YEARS - rows) * MONTHS >= MONTHS
        BY <2>3, YearFacts, ScriptsAssumption
    <2>5. ~stop => data = 1..((YEARS - rows) * MONTHS - left)
        BY <1>1, <1>4 DEF IInv, Progress
    <2>6. (YEARS - rows) * MONTHS - left \in Nat
        BY <2>3, <2>4, ScriptsAssumption
    <2>. QED  BY <2>1, <2>2, <2>3, <2>5, <2>6 DEF Place
<1>. QED  BY <1>1, <1>2, <1>3, <1>4

\* Collisions are counted against the domains found; the last one tolerated ends the run.
LEMMA CollisionPreserves ==
    ASSUME IInv, collision
    PROVE  IInv'
<1>1. /\ Item /\ script' = script /\ pc' = pc /\ data' = data /\ files' = files /\ rows' = rows
      /\ force' = IF script.budget > 0 THEN force + 1 ELSE force
      /\ tmp' = IF script.leaves = "patience" THEN tmp + 1 ELSE tmp
      /\ open' = (open /\ ~Spent) /\ stop' = (stop \/ Spent)
      /\ left' = IF Leaves THEN 0 ELSE Rest
    BY DEF collision
<1>2. PICK d \in Draws : d \in data
    BY DEF collision
<1>3. /\ TypeOK /\ pc = "item" /\ Rest \in Nat
      /\ script.listed =>
            /\ rows \in 0..(YEARS - 1) /\ left \in 1..MONTHS
            /\ script.leaves = "never" /\ Rest = left - 1 /\ Draws = {Place}
            /\ (YEARS - rows) * MONTHS - left \in Nat
            /\ Place = (YEARS - rows) * MONTHS - left + 1
            /\ ~stop => data = 1..((YEARS - rows) * MONTHS - left)
    BY <1>1, ItemFacts
<1>4. /\ counter \in Nat \ {0} /\ Limit \in Nat /\ script.budget \in {0, 2, 10, 100} /\ force \in Nat
    BY <1>2, <1>3, RunFacts, Collided DEF TypeOK
<1>5. script.listed => stop
    <2>. SUFFICES ASSUME script.listed, ~stop PROVE FALSE
        OBVIOUS
    <2>. DEFINE k == (YEARS - rows) * MONTHS - left
    <2>1. k \in Nat /\ data = 1..k /\ d = k + 1
        BY <1>2, <1>3
    <2>. HIDE DEF k
    <2>. QED  BY <1>2, <2>1
<1>6. counter' = counter /\ Limit' = Limit /\ Longest' = Longest /\ (Patient' <=> Patient)
    BY <1>1 DEF counter, Limit, Longest, Patient
<1>7. open' \in BOOLEAN /\ stop' \in BOOLEAN /\ (open' <=> ~stop')
    BY <1>1 DEF IInv, Flags, ListsAgree, TypeOK
<1>8. TypeOK'
    <2>1. force' \in Nat /\ left' \in Nat /\ tmp' \in Nat
        BY <1>1, <1>3 DEF TypeOK
    <2>. QED  BY <1>1, <1>3, <1>7, <2>1 DEF TypeOK
<1>9. ListsAgree' /\ Written' /\ DiesUntestedOnly' /\ Flags'
    BY <1>1, <1>3, <1>6, <1>7, <1>8 DEF IInv, ListsAgree, Written, DiesUntestedOnly, Flags
<1>10. Running'
    <2>. SUFFICES ASSUME ~stop'
                  PROVE  /\ counter <= Limit
                         /\ script.budget > 0 => force' = 0 \/ force' < script.budget * counter
        BY <1>1, <1>6 DEF Running
    <2>1. ~stop /\ ~Spent
        BY <1>1
    <2>2. counter <= Limit /\ (script.budget > 0 => force = 0 \/ force < script.budget * counter)
        BY <2>1 DEF IInv, Running
    <2>3. script.budget > 0 => force' = force + 1 /\ force + 1 # script.budget * counter
        BY <1>1, <2>1 DEF Spent
    <2>. QED  BY <1>4, <2>2, <2>3
<1>11. Stopped'
    <2>. SUFFICES ASSUME stop'
                  PROVE  counter > Limit \/ (~Patient /\ force' >= script.budget * counter)
        BY <1>1, <1>6 DEF Stopped
    <2>1. CASE stop
        <3>1. counter > Limit \/ (~Patient /\ force >= script.budget * counter)
            BY <1>3, <2>1 DEF IInv, Stopped
        <3>. QED  BY <1>1, <1>4, <3>1
    <2>2. CASE ~stop
        <3>1. script.budget > 0 /\ force + 1 = script.budget * counter
            BY <1>1, <2>2 DEF Spent
        <3>2. ~Patient
            BY <1>4, <1>5, <2>2, <3>1 DEF Patient
        <3>. QED  BY <1>1, <1>4, <3>1, <3>2
    <2>. QED  BY <2>1, <2>2
<1>12. Progress'
    <2>. SUFFICES ASSUME script.listed PROVE Progress'
        BY <1>1 DEF Progress
    <2>1. stop'
        BY <1>1, <1>5
    <2>2. left' \in {0, left - 1} /\ left \in 1..MONTHS
        BY <1>1, <1>3
    <2>3. left' \in 0..MONTHS
        BY <2>2, ScriptsAssumption
    <2>. QED  BY <1>1, <1>3, <2>1, <2>3 DEF Progress
<1>. QED  BY <1>9, <1>10, <1>11, <1>12 DEF IInv

\* A new domain, whatever becomes of it.
LEMMA FoundFacts ==
    ASSUME IInv, NEW d, Found(d)
    PROVE  /\ TypeOK /\ pc = "item" /\ Rest \in Nat /\ d \in Nat \ {0} /\ d \notin data
           /\ script' = script /\ data' = data \cup {d} /\ force' = force /\ tmp' = tmp /\ rows' = rows
           /\ data' \subseteq Nat \ {0} /\ IsFiniteSet(data')
           /\ counter \in Nat /\ counter' = counter + 1 /\ Limit \in Nat \ {0} /\ Limit' = Limit
           /\ (Patient' <=> Patient)
           /\ Len(Longest) = IF counter <= Limit THEN counter ELSE Limit
           /\ script.listed =>
                 /\ rows \in 0..(YEARS - 1) /\ left \in 1..MONTHS /\ Rest = left - 1
                 /\ (YEARS - rows) * MONTHS - left \in Nat
                 /\ ~stop => data' = 1..((YEARS - rows) * MONTHS - Rest)
<1>1. /\ Item /\ d \in Draws /\ d \notin data
      /\ script' = script /\ data' = data \cup {d} /\ force' = force /\ tmp' = tmp /\ rows' = rows
    BY DEF Found
<1>2. /\ TypeOK /\ pc = "item" /\ left \in Nat \ {0} /\ Rest \in Nat /\ d \in Nat \ {0}
      /\ script.listed =>
            /\ rows \in 0..(YEARS - 1) /\ left \in 1..MONTHS /\ Rest = left - 1 /\ Draws = {Place}
            /\ (YEARS - rows) * MONTHS - left \in Nat
            /\ Place = (YEARS - rows) * MONTHS - left + 1
            /\ ~stop => data = 1..((YEARS - rows) * MONTHS - left)
    BY <1>1, ItemFacts
<1>3. IsFiniteSet(data') /\ counter' = counter + 1
    BY <1>1, <1>2, OneMore DEF counter
<1>4. counter \in Nat /\ Limit \in Nat \ {0} /\ data' \subseteq Nat \ {0}
    BY <1>1, <1>2, RunFacts DEF TypeOK
<1>5. Limit' = Limit /\ (Patient' <=> Patient)
    BY <1>1 DEF Limit, Patient
<1>6. Len(Longest) = IF counter <= Limit THEN counter ELSE Limit
    BY <1>2 DEF IInv, Written
<1>7. ASSUME script.listed, ~stop PROVE data' = 1..((YEARS - rows) * MONTHS - Rest)
    <2>. DEFINE k == (YEARS - rows) * MONTHS - left
    <2>1. k \in Nat /\ data = 1..k /\ d = k + 1
        BY <1>1, <1>2, <1>7
    <2>2. data' = 1..(k + 1)
        <3>. HIDE DEF k
        <3>. QED  BY <1>1, <2>1
    <2>3. (YEARS - rows) * MONTHS \in Nat
        BY <1>2, <1>7, YearFacts, ScriptsAssumption
    <2>4. (YEARS - rows) * MONTHS - Rest = k + 1
        BY <1>2, <1>7, <2>3
    <2>. QED  BY <2>2, <2>4
<1>. QED  BY <1>1, <1>2, <1>3, <1>4, <1>5, <1>6, <1>7

\* Where ccleaner is after it: nothing but its place has changed, or it has stopped.
LEMMA FoundProgress ==
    ASSUME IInv, NEW d, Found(d), pc' \in {"item", "died"}, left' \in {0, Rest, left},
           stop' \/ (~stop /\ (pc' = "item" => left' = Rest))
    PROVE  Progress'
<1>. SUFFICES ASSUME script.listed PROVE Progress'
    BY FoundFacts DEF Progress
<1>1. /\ script' = script /\ rows' = rows /\ rows \in 0..(YEARS - 1) /\ left \in 1..MONTHS
      /\ Rest = left - 1 /\ (~stop => data' = 1..((YEARS - rows) * MONTHS - Rest))
    BY FoundFacts
<1>2. left' \in 0..MONTHS
    BY <1>1, ScriptsAssumption
<1>. QED  BY <1>1, <1>2 DEF Progress

\* A domain appended to the longest list, and to those that have room: the lists still agree.
LEMMA WritePreserves ==
    ASSUME IInv, write
    PROVE  IInv'
<1>. DEFINE n == counter
            L == Longest
<1>1. PICK d \in Draws :
        /\ Found(d)
        /\ counter + 1 <= Limit /\ open
        /\ files' = [i \in 1..script.files |->
                        IF HasRoom(i, counter + 1) THEN Append(files[i], d) ELSE files[i]]
        /\ left' = Rest /\ pc' = pc /\ open' = open /\ stop' = stop
    BY DEF write
<1>2. /\ TypeOK /\ pc = "item" /\ Rest \in Nat /\ d \in Nat \ {0} /\ d \notin data
      /\ script' = script /\ data' = data \cup {d} /\ force' = force /\ tmp' = tmp /\ rows' = rows
      /\ data' \subseteq Nat \ {0} /\ IsFiniteSet(data')
      /\ n \in Nat /\ counter' = n + 1 /\ Limit \in Nat \ {0} /\ Limit' = Limit
      /\ (Patient' <=> Patient)
      /\ Len(L) = n
    BY <1>1, FoundFacts
<1>3. /\ script.files \in 1..script.files /\ script.budget \in {0, 2, 10, 100}
      /\ \A i \in 1..script.files : Tiers[i] \in Nat \ {0}
      /\ Tiers[script.files] = Limit
    BY <1>2, RunFacts DEF Limit
<1>4. ~stop /\ ~stop'
    BY <1>1 DEF IInv, Flags
<1>5. /\ \A i \in 1..script.files : files[i] \in Seq(data) /\ files[i] \in Seq(data')
      /\ L \in Seq(data) /\ L \in Seq(data')
    <2>1. \A i \in 1..script.files : files[i] \in Seq(data)
        BY <1>2 DEF TypeOK
    <2>2. Seq(data) \subseteq Seq(data')
        BY <1>2
    <2>. QED  BY <1>3, <2>1, <2>2 DEF Longest
<1>6. Longest' = Append(L, d) /\ Longest' = L \o << d >>
    <2>1. Longest' = Append(L, d)
        BY <1>1, <1>2, <1>3 DEF Longest, HasRoom
    <2>2. Append(L, d) = L \o << d >>
        BY <1>2, <1>5, AppendIsConcat
    <2>. QED  BY <2>1, <2>2
<1>7. /\ Len(Longest') = n + 1
      /\ \A i \in 1..n : Longest'[i] = L[i]
      /\ Longest'[n + 1] = d
    BY <1>2, <1>5, <1>6, AppendProperties
<1>8. files' \in [1..script.files -> Seq(data')]
    <2>1. \A i \in 1..script.files : Append(files[i], d) \in Seq(data')
        BY <1>2, <1>5, AppendProperties
    <2>. QED  BY <1>1, <1>5, <2>1
<1>9. TypeOK'
    BY <1>1, <1>2, <1>8 DEF TypeOK
<1>10. ASSUME NEW i \in 1..script.files
       PROVE  files'[i] = SubSeq(Longest', 1, IF Len(Longest') < Tiers[i] THEN Len(Longest') ELSE Tiers[i])
    <2>0. Tiers[i] \in Nat \ {0}
        BY <1>3
    <2>1. files[i] = SubSeq(L, 1, IF n < Tiers[i] THEN n ELSE Tiers[i])
        BY <1>2 DEF IInv, ListsAgree
    <2>2. CASE n + 1 <= Tiers[i]
        <3>1. files[i] = L
            BY <1>2, <1>5, <2>0, <2>1, <2>2, SubSeqFull
        <3>2. files'[i] = Longest'
            BY <1>1, <1>6, <2>2, <3>1 DEF HasRoom
        <3>3. Longest' \in Seq(data') /\ SubSeq(Longest', 1, Len(Longest')) = Longest'
            BY <1>2, <1>5, <1>6, AppendProperties, SubSeqFull
        <3>4. (IF Len(Longest') < Tiers[i] THEN Len(Longest') ELSE Tiers[i]) = Len(Longest')
            BY <1>2, <1>7, <2>0, <2>2
        <3>. QED  BY <3>2, <3>3, <3>4
    <2>3. CASE ~(n + 1 <= Tiers[i])
        <3>1. files'[i] = SubSeq(L, 1, Tiers[i])
            BY <1>1, <1>2, <2>0, <2>1, <2>3 DEF HasRoom
        <3>2. Tiers[i] \in 1..Len(L) /\ 1 \in 1..Len(L) /\ << d >> \in Seq(data')
            BY <1>2, <2>0, <2>3
        <3>3. SubSeq(L \o << d >>, 1, Tiers[i]) = SubSeq(L, 1, Tiers[i])
            BY <1>5, <3>2, SubSeqOfConcat1
        <3>4. (IF Len(Longest') < Tiers[i] THEN Len(Longest') ELSE Tiers[i]) = Tiers[i]
            BY <1>2, <1>7, <2>0, <2>3
        <3>. QED  BY <1>6, <3>1, <3>3, <3>4
    <2>. QED  BY <2>2, <2>3
<1>11. \A i \in 1..Len(Longest') : Longest'[i] \in data'
    <2>1. \A i \in 1..n : L[i] \in data
        BY <1>2 DEF IInv, ListsAgree
    <2>. QED  BY <1>2, <1>7, <2>1
<1>12. \A i, j \in 1..Len(Longest') : Longest'[i] = Longest'[j] => i = j
    <2>1. /\ \A i \in 1..n : L[i] \in data
          /\ \A i, j \in 1..n : L[i] = L[j] => i = j
        BY <1>2 DEF IInv, ListsAgree
    <2>2. \A i \in 1..(n + 1) : i \in 1..n \/ i = n + 1
        BY <1>2
    <2>. QED  BY <1>2, <1>7, <2>1, <2>2
<1>13. ListsAgree'
    BY <1>2, <1>7, <1>9, <1>10, <1>11, <1>12 DEF ListsAgree
<1>14. Running' /\ Stopped' /\ Flags' /\ DiesUntestedOnly'
    <2>1. script.budget > 0 => force = 0 \/ force < script.budget * n
        BY <1>4 DEF IInv, Running
    <2>2. script.budget > 0 => force = 0 \/ force < script.budget * (n + 1)
        BY <1>2, <1>3, <2>1 DEF TypeOK
    <2>. QED  BY <1>1, <1>2, <1>4, <2>2 DEF IInv, Running, Stopped, Flags, DiesUntestedOnly
<1>15. Written'
    BY <1>1, <1>2, <1>7 DEF Written
<1>16. Progress'
    BY <1>1, <1>2, <1>4, FoundProgress
<1>. QED  BY <1>13, <1>14, <1>15, <1>16 DEF IInv

\* What was written stays as it is when the domain is not written.
LEMMA UnwrittenPreserves ==
    ASSUME IInv, write_closed \/ full
    PROVE  IInv'
<1>1. PICK d \in Draws :
        /\ Found(d) /\ files' = files
        /\ \/ /\ counter + 1 <= Limit /\ ~open /\ pc' = "died"
              /\ open' = open /\ stop' = stop /\ left' = left
           \/ /\ counter + 1 > Limit /\ open' = FALSE /\ stop' = TRUE /\ pc' = pc
              /\ left' \in {0, Rest}
    BY DEF write_closed, full
<1>2. /\ TypeOK /\ pc = "item" /\ Rest \in Nat /\ d \notin data
      /\ script' = script /\ data' = data \cup {d} /\ force' = force /\ tmp' = tmp /\ rows' = rows
      /\ data' \subseteq Nat \ {0} /\ IsFiniteSet(data')
      /\ counter \in Nat /\ counter' = counter + 1 /\ Limit \in Nat \ {0} /\ Limit' = Limit
      /\ (Patient' <=> Patient)
      /\ Len(Longest) = IF counter <= Limit THEN counter ELSE Limit
    BY <1>1, FoundFacts
<1>3. Longest' = Longest /\ open' \in BOOLEAN /\ stop' \in BOOLEAN /\ (open' <=> ~stop')
    <2>1. Longest' = Longest
        BY <1>1, <1>2 DEF Longest
    <2>2. open \in BOOLEAN /\ stop \in BOOLEAN /\ (open <=> ~stop)
        BY <1>2 DEF IInv, Flags, TypeOK
    <2>3. (open' = open /\ stop' = stop) \/ (open' = FALSE /\ stop' = TRUE)
        BY <1>1
    <2>4. CASE open' = open /\ stop' = stop
        BY <2>1, <2>2, <2>4
    <2>5. CASE open' = FALSE /\ stop' = TRUE
        BY <2>1, <2>5
    <2>. QED  BY <2>3, <2>4, <2>5
<1>4. stop'
    BY <1>1 DEF IInv, Flags
<1>5. TypeOK'
    <2>1. files \in [1..script.files -> Seq(data')]
        <3>1. Seq(data) \subseteq Seq(data')
            BY <1>2
        <3>2. files \in [1..script.files -> Seq(data)]
            BY <1>2 DEF TypeOK
        <3>. QED  BY <3>1, <3>2
    <2>2. left' \in Nat
        BY <1>1, <1>2 DEF TypeOK
    <2>. QED  BY <1>1, <1>2, <1>3, <2>1, <2>2 DEF TypeOK
<1>6. Written'
    BY <1>1, <1>2, <1>3 DEF Written
<1>7. ListsAgree'
    <2>1. \/ Len(Longest') = counter'
          \/ Len(Longest') = Limit'
          \/ Len(Longest') = counter' - 1 /\ pc' = "died"
        BY <1>1, <1>2, <1>3
    <2>2. /\ \A i \in 1..script.files :
                files[i] = SubSeq(Longest, 1, IF Len(Longest) < Tiers[i] THEN Len(Longest) ELSE Tiers[i])
          /\ \A i, j \in 1..Len(Longest) : Longest[i] = Longest[j] => i = j
          /\ \A i \in 1..Len(Longest) : Longest[i] \in data
        BY DEF IInv, ListsAgree
    <2>. QED  BY <1>1, <1>2, <1>3, <1>5, <2>1, <2>2 DEF ListsAgree
<1>8. Running' /\ Stopped' /\ Flags'
    BY <1>1, <1>2, <1>3, <1>4 DEF Running, Stopped, Flags
<1>9. DiesUntestedOnly'
    <2>. SUFFICES ASSUME pc' = "died" PROVE script \in {kraken_v1, qadars, suppobox}
        BY <1>2 DEF DiesUntestedOnly
    <2>1. counter + 1 <= Limit /\ stop
        BY <1>1, <1>2 DEF IInv, Flags
    <2>2. ~Patient
        BY <1>2, <2>1 DEF IInv, Stopped
    <2>3. script.tests # "item"
        BY <1>1, <2>1 DEF Found, Item, ItemsTest
    <2>. QED  BY <1>2, <2>2, <2>3, RunFacts DEF Wellformed, Patient
<1>10. Progress'
    BY <1>1, <1>2, <1>4, FoundProgress
<1>. QED  BY <1>6, <1>7, <1>8, <1>9, <1>10 DEF IInv

\* Every step preserves the invariant.
LEMMA NextIInv == IInv /\ [Next]_vars => IInv'
<1>. SUFFICES ASSUME IInv, [Next]_vars PROVE IInv'
    OBVIOUS
<1>1. CASE UNCHANGED vars
    BY <1>1 DEF vars, IInv, ListsAgree, TypeOK, DiesUntestedOnly, Running, Stopped, Flags, Written,
                Progress, counter, Limit, Longest, Patient
<1>2. CASE Next
    BY <1>2, LoopPreserves, CollisionPreserves, WritePreserves, UnwrittenPreserves DEF Next
<1>. QED  BY <1>1, <1>2

-----------------------------------------------------------------------------
(* The theorems.                                                           *)

\* The inductive invariant of the generator scripts' main loops, for every script, for lists
\* of any sizes and rows of any length.
THEOREM Invariance == Spec => []IInv
BY InitIInv, NextIInv, PTL DEF Spec

\* The lists that a generator script writes are prefixes of the longest one, without repetitions,
\* and miss nothing that was found, however the script ended.
THEOREM ListsAgreeHolds == Spec => []ListsAgree
<1>1. IInv => ListsAgree
    BY DEF IInv
<1>. QED  BY <1>1, Invariance, PTL

\* Only kraken_v1, qadars and suppobox can write to a list they have closed.
THEOREM DiesUntestedOnlyHolds == Spec => []DiesUntestedOnly
<1>1. IInv => DiesUntestedOnly
    BY DEF IInv
<1>. QED  BY <1>1, Invariance, PTL

\* A script ends with its longest list full or its budget of collisions spent, never because
\* the counter has missed the one value that is tested for.
THEOREM EndsForAReasonHolds == Spec => []EndsForAReason
<1>1. ASSUME IInv PROVE EndsForAReason
    <2>. SUFFICES ASSUME pc = "ended"
                  PROVE  Len(Longest) = Limit \/ (script.budget > 0 /\ force >= script.budget * counter)
        BY DEF EndsForAReason
    <2>1. TypeOK /\ counter \in Nat /\ Limit \in Nat /\ script.budget \in Nat
        BY <1>1, RunFacts DEF IInv, ListsAgree
    <2>2. counter > Limit \/ (~Patient /\ force >= script.budget * counter)
        BY <1>1 DEF IInv, Flags, Stopped
    <2>. QED  BY <1>1, <2>1, <2>2 DEF IInv, Written, Patient
<1>. QED  BY <1>1, Invariance, PTL
====
