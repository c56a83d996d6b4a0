----------------------------- MODULE ReadsProofs -----------------------------
(***************************************************************************)
(* Proofs about what clients read: the overviews, the load time chart and  *)
(* the paginated listings, for every finite set of rows, any number of     *)
(* changes, any readings and any page size.                                *)
(***************************************************************************)
EXTENDS Listings, Overview, Chart, FiniteSetTheorems, TLAPS

(***************************************************************************)
(* Overviews.  What an overview has said of a group of statements, and the *)
(* rows that the statements still to come would count now, add up to no    *)
(* more than the rows it found first, and the changes since; and for the   *)
(* rows by status, those of some other status included as if a statement   *)
(* that never comes counted them, to no less.                              *)
(***************************************************************************)
Belongs(e, what) == IF what = "neither" THEN Neither(e) ELSE Matches(e, what)

Left(group) ==
    {i \in Entries : \E what \in group : Counted(what) = {} /\ Belongs(entry[i], what)}

Enabling == {"enable", "disable", "neither"}

Colours == {"green", "yellow", "red"}

NothingTwice ==
    Len(answers) >= 1 =>
       /\ Said("enable") + Said("disable") + Cardinality(Left(Enabling))
             <= answers[1] + changes
       /\ Said("green") + Said("yellow") + Said("red") + Cardinality(Left(Colours))
             <= answers[1] + changes

NothingMissed ==
    (Len(answers) >= 1 /\ registry # "ssl") =>
       answers[1] <= Said("enable") + Said("disable") + Cardinality(Left(Enabling)) + changes

OverviewInv == OverviewTypeOK /\ NothingTwice /\ NothingMissed

\* An overview asks no statement twice, and counts the rows first.
LEMMA StatementsApart ==
    ASSUME NEW r \in DOMAIN Statements
    PROVE  /\ Statements[r][1] = "count" /\ Len(Statements[r]) \in {4, 6}
           /\ \A k \in 1 .. Len(Statements[r]) : Statements[r][k] # "neither"
           /\ \A k, l \in 1 .. Len(Statements[r]) :
                 Statements[r][k] = Statements[r][l] => k = l
  <1>1. r \in {"website", "domain", "blacklist", "ssl"}
    BY DEF Statements
  <1>2. CASE r # "ssl"
    <2>1. Statements[r] = <<"count", "enable", "disable", "green", "yellow", "red">>
      BY <1>1, <1>2 DEF Statements, websiteOverview, domainOverview, blacklistOverview
    <2>2. Len(Statements[r]) = 6
      BY <2>1
    <2>3. \A k, l \in 1 .. 6 : Statements[r][k] = Statements[r][l] => k = l
      BY <2>1
    <2>4. \A k \in 1 .. 6 : Statements[r][k] # "neither"
      BY <2>1
    <2> QED
      BY <2>1, <2>2, <2>3, <2>4
  <1>3. CASE r = "ssl"
    <2>1. Statements[r] = <<"count", "green", "disable", "red">>
      BY <1>3 DEF Statements, sslOverview
    <2>2. Len(Statements[r]) = 4
      BY <2>1
    <2>3. \A k, l \in 1 .. 4 : Statements[r][k] = Statements[r][l] => k = l
      BY <2>1
    <2>4. \A k \in 1 .. 4 : Statements[r][k] # "neither"
      BY <2>1
    <2> QED
      BY <2>1, <2>2, <2>3, <2>4
  <1> QED
    BY <1>2, <1>3

\* No row is counted by two statements of a group, or by one and left out.
LEMMA GroupsApart ==
    ASSUME NEW e \in Entry, NEW v, NEW w, Belongs(e, v), Belongs(e, w),
           \/ v \in Enabling /\ w \in Enabling
           \/ v \in Colours /\ w \in Colours
    PROVE  v = w
  <1>1. CASE v \in Enabling /\ w \in Enabling
    <2>1. Belongs(e, "enable") => e.status = "Active"
      BY DEF Belongs, Matches
    <2>2. Belongs(e, "disable") => e.status = "Inactive"
      BY DEF Belongs, Matches
    <2>3. Belongs(e, "neither") => e.status # "Active" /\ e.status # "Inactive"
      BY DEF Belongs, Neither
    <2> QED
      BY <1>1, <2>1, <2>2, <2>3 DEF Enabling
  <1>2. CASE v \in Colours /\ w \in Colours
    <2>1. \A what \in Colours : Belongs(e, what) => e.light = what
      BY DEF Belongs, Matches, Colours
    <2> QED
      BY <1>2, <2>1
  <1> QED
    BY <1>1, <1>2

Matching(what) == {i \in Entries : Matches(entry[i], what)}

LEMMA Chosen == ASSUME NEW S, S # {} PROVE (CHOOSE k \in S : TRUE) \in S
  OBVIOUS

LEMMA FoundFinite ==
    ASSUME NEW S \in SUBSET Entries
    PROVE  IsFiniteSet(S) /\ Cardinality(S) \in Nat /\ Cardinality(S) <= Cardinality(Entries)
  BY OverviewAssumption, FS_Subset, FS_CardinalityType DEF OverviewAssumption

LEMMA OneEntryMore ==
    ASSUME NEW S \in SUBSET Entries, NEW T \in SUBSET Entries,
           NEW x, T \subseteq S \cup {x}
    PROVE  Cardinality(S) \in Nat /\ Cardinality(T) \in Nat
           /\ Cardinality(T) <= Cardinality(S) + 1
  <1>1. IsFiniteSet(S) /\ Cardinality(S) \in Nat /\ Cardinality(T) \in Nat
    BY FoundFinite
  <1>2. /\ IsFiniteSet(S \cup {x})
        /\ Cardinality(S \cup {x}) \in {Cardinality(S), Cardinality(S) + 1}
    BY <1>1, FS_AddElement
  <1>3. Cardinality(T) <= Cardinality(S \cup {x})
    BY <1>2, FS_Subset
  <1> QED
    BY <1>1, <1>2, <1>3

LEMMA AnswersNumbers ==
    ASSUME answers \in Seq(0 .. Cardinality(Entries))
    PROVE  /\ Len(answers) \in Nat /\ DOMAIN answers = 1 .. Len(answers)
           /\ \A k \in 1 .. Len(answers) : answers[k] \in Nat
  <1>1. Cardinality(Entries) \in Nat
    BY OverviewAssumption, FS_CardinalityType DEF OverviewAssumption
  <1> QED
    BY <1>1

LEMMA SaidNumber ==
    ASSUME answers \in Seq(0 .. Cardinality(Entries)), NEW what
    PROVE  Said(what) \in Nat
  <1>1. CASE Counted(what) = {}
    BY <1>1 DEF Said
  <1>2. CASE Counted(what) # {}
    <2>1. (CHOOSE k \in Counted(what) : TRUE) \in Counted(what)
      BY <1>2, Chosen
    <2>2. (CHOOSE k \in Counted(what) : TRUE) \in DOMAIN answers
      BY <2>1 DEF Counted
    <2>3. \A k \in DOMAIN answers : answers[k] \in Nat
      BY AnswersNumbers
    <2> QED
      BY <1>2, <2>2, <2>3 DEF Said
  <1> QED
    BY <1>1, <1>2

\* One more answer: the statement had none, and the others keep theirs.
LEMMA OneMoreAnswer ==
    ASSUME OverviewTypeOK, getStatusCount, NEW what
    PROVE  IF what = Statements[registry][Len(answers) + 1]
           THEN /\ Counted(what) = {} /\ Counted(what)' # {}
                /\ Said(what) = 0 /\ Said(what)' = Cardinality(Matching(what))
           ELSE Counted(what)' = Counted(what) /\ Said(what)' = Said(what)
  <1> DEFINE n == Len(answers)
             w == Statements[registry][n + 1]
  <1>1. /\ registry \in DOMAIN Statements /\ registry' = registry
        /\ n \in Nat /\ n <= Len(Statements[registry]) /\ n # Len(Statements[registry])
        /\ answers \in Seq(0 .. Cardinality(Entries))
        /\ answers' = Append(answers, Cardinality(Matching(w)))
    BY DEF getStatusCount, Over, OverviewTypeOK, Matching
  <1>2. Len(Statements[registry]) \in Nat /\ n + 1 \in 1 .. Len(Statements[registry])
    BY <1>1, StatementsApart
  <1>3. /\ DOMAIN answers = 1 .. n /\ DOMAIN answers' = 1 .. n + 1
        /\ \A k \in 1 .. n : answers'[k] = answers[k]
        /\ answers'[n + 1] = Cardinality(Matching(w))
    BY <1>1
  <1>4. \A k \in 1 .. n : Statements[registry][k] # w
    BY <1>1, <1>2, StatementsApart
  <1>5. w = Statements[registry][n + 1]
    OBVIOUS
  <1> HIDE DEF n, w
  <1>6. CASE what = w
    <2>1. Counted(what) = {}
      BY <1>3, <1>4, <1>6 DEF Counted
    <2>2. Counted(what)' = {n + 1}
      BY <1>1, <1>3, <1>4, <1>5, <1>6 DEF Counted
    <2>3. Said(what) = 0
      BY <2>1 DEF Said
    <2>4. Said(what)' = answers'[CHOOSE k \in Counted(what)' : TRUE]
      BY <2>2 DEF Said
    <2>5. (CHOOSE k \in Counted(what)' : TRUE) \in Counted(what)'
      BY <2>2, Chosen
    <2>6. (CHOOSE k \in Counted(what)' : TRUE) = n + 1
      BY <2>2, <2>5
    <2> QED
      BY <2>1, <2>2, <2>3, <2>4, <2>6, <1>3, <1>6 DEF w, n
  <1>7. CASE what # w
    <2>1. Counted(what)' = Counted(what)
      BY <1>1, <1>3, <1>5, <1>7 DEF Counted
    <2>2. Counted(what) = {} => Said(what)' = Said(what)
      BY <2>1 DEF Said
    <2>3. ASSUME Counted(what) # {} PROVE Said(what)' = Said(what)
      <3>1. (CHOOSE k \in Counted(what) : TRUE) \in Counted(what)
        BY <2>3, Chosen
      <3>2. (CHOOSE k \in Counted(what)' : TRUE) \in Counted(what)'
        BY <2>1, <2>3, Chosen
      <3>3. \A k, l \in Counted(what) : k = l /\ k \in 1 .. n
        BY <1>1, <1>2, <1>3, StatementsApart DEF Counted
      <3>4. /\ Said(what) = answers[CHOOSE k \in Counted(what) : TRUE]
            /\ Said(what)' = answers'[CHOOSE k \in Counted(what)' : TRUE]
        BY <2>1, <2>3 DEF Said
      <3> QED
        BY <2>1, <3>1, <3>2, <3>3, <3>4, <1>3
    <2>4. Said(what)' = Said(what)
      BY <2>2, <2>3
    <2> QED
      BY <2>1, <2>4, <1>7 DEF w, n
  <1> QED
    BY <1>6, <1>7

\* Adding an answer: what the statement counts leaves the rows still to come.
LEMMA CountedLeave ==
    ASSUME OverviewTypeOK, getStatusCount, NEW group,
           group = Enabling \/ group = Colours
    PROVE  LET w == Statements[registry][Len(answers) + 1] IN
           /\ w \in group =>
                 Cardinality(Left(group)') + Cardinality(Matching(w)) = Cardinality(Left(group))
           /\ w \notin group => Left(group)' = Left(group)
  <1> DEFINE w == Statements[registry][Len(answers) + 1]
  <1>1. entry' = entry /\ entry \in [Entries -> Entry]
    BY DEF getStatusCount, OverviewTypeOK
  <1>2. \A what : IF what = w THEN Counted(what) = {} /\ Counted(what)' # {}
                 ELSE Counted(what)' = Counted(what)
    BY OneMoreAnswer
  <1>3. w # "neither"
    <2>1. /\ registry \in DOMAIN Statements /\ Len(answers) \in Nat
          /\ Len(answers) <= Len(Statements[registry])
          /\ Len(answers) # Len(Statements[registry])
      BY DEF getStatusCount, Over, OverviewTypeOK
    <2> QED
      BY <2>1, StatementsApart
  <1> HIDE DEF w
  <1>4. \A e : Belongs(e, w) <=> Matches(e, w)
    BY <1>3 DEF Belongs
  <1>5. w \notin group => Left(group)' = Left(group)
    BY <1>1, <1>2 DEF Left
  <1>6. ASSUME w \in group
        PROVE  Cardinality(Left(group)') + Cardinality(Matching(w)) = Cardinality(Left(group))
    <2>1. Matching(w) \subseteq Left(group)
      BY <1>2, <1>6, <1>4 DEF Matching, Left
    <2>2. Left(group) \ Matching(w) \subseteq Left(group)'
      BY <1>1, <1>2, <1>4 DEF Matching, Left
    <2>3. ASSUME NEW i \in Left(group)' PROVE i \in Left(group) \ Matching(w)
      <3>1. PICK what \in group : Counted(what)' = {} /\ Belongs(entry[i], what)
        BY <1>1 DEF Left
      <3>2. i \in Entries /\ what # w /\ Counted(what) = {}
        BY <1>2, <3>1 DEF Left
      <3>3. ~Matches(entry[i], w)
        BY <1>1, <1>6, <1>4, <3>1, <3>2, GroupsApart
      <3> QED
        BY <3>1, <3>2, <3>3 DEF Left, Matching
    <2>4. Left(group) \in SUBSET Entries /\ Left(group)' \in SUBSET Entries
      BY DEF Left
    <2>5. /\ Left(group) \cap Matching(w) = Matching(w)
          /\ IsFiniteSet(Left(group)) /\ Matching(w) \in SUBSET Entries
      BY <2>1, <2>4, FoundFinite DEF Matching
    <2>6. Cardinality(Left(group) \ Matching(w)) = Cardinality(Left(group)) - Cardinality(Matching(w))
      BY <2>5, FS_Difference
    <2>7. Left(group)' = Left(group) \ Matching(w)
      BY <2>2, <2>3
    <2> QED
      BY <2>4, <2>5, <2>6, <2>7, FoundFinite
  <1> QED
    BY <1>5, <1>6 DEF w

LEMMA CountKeeps ==
    ASSUME OverviewInv, getStatusCount
    PROVE  OverviewInv'
  <1> DEFINE w == Statements[registry][Len(answers) + 1]
             c == Cardinality(Matching(w))
  <1>1. /\ OverviewTypeOK /\ NothingTwice /\ NothingMissed
        /\ registry \in DOMAIN Statements /\ registry' = registry
        /\ entry' = entry /\ changes' = changes /\ changes \in Nat
        /\ answers \in Seq(0 .. Cardinality(Entries)) /\ answers' = Append(answers, c)
        /\ Len(answers) <= Len(Statements[registry]) /\ Len(answers) # Len(Statements[registry])
    BY OverviewAssumption
       DEF getStatusCount, Over, OverviewInv, OverviewTypeOK, Matching, OverviewAssumption
  <1>2. Matching(w) \in SUBSET Entries /\ c \in 0 .. Cardinality(Entries) /\ c \in Nat
    BY FoundFinite DEF Matching
  <1>3. \A what : IF what = w THEN Said(what) = 0 /\ Said(what)' = c
                 ELSE Said(what)' = Said(what)
    BY <1>1, OneMoreAnswer
  <1>4. \A group : (group = Enabling \/ group = Colours) =>
           /\ w \in group => Cardinality(Left(group)') + c = Cardinality(Left(group))
           /\ w \notin group => Left(group)' = Left(group)
    BY <1>1, CountedLeave
  <1>5. w # "neither" /\ (Len(answers) = 0 => w = "count")
    BY <1>1, StatementsApart
  <1> HIDE DEF w, c
  <1>6. OverviewTypeOK'
    <2>1. answers' \in Seq(0 .. Cardinality(Entries)) /\ Len(answers') = Len(answers) + 1
      BY <1>1, <1>2
    <2>2. Len(answers') <= Len(Statements[registry])
      BY <1>1, <2>1, StatementsApart
    <2> QED
      BY <1>1, <2>1, <2>2 DEF OverviewTypeOK
  <1>7. NothingTwice'
    <2>1. CASE Len(answers) = 0
      <3>1. answers'[1] = Cardinality(Matching("count"))
        BY <1>1, <1>5, <2>1 DEF c
      <3>2. Matching("count") \in SUBSET Entries
        BY DEF Matching
      <3>3. \A group : (group = Enabling \/ group = Colours) =>
               /\ Left(group)' = Left(group) /\ Left(group) \subseteq Matching("count")
               /\ Cardinality(Left(group)) <= Cardinality(Matching("count"))
        <4> SUFFICES ASSUME NEW group, group = Enabling \/ group = Colours
                     PROVE  /\ Left(group)' = Left(group)
                            /\ Left(group) \subseteq Matching("count")
                            /\ Cardinality(Left(group)) <= Cardinality(Matching("count"))
          OBVIOUS
        <4>1. "count" \notin group
          BY DEF Enabling, Colours
        <4>2. \A e, what : Belongs(e, what) => Matches(e, "count")
          BY DEF Belongs, Neither, Matches
        <4>3. Left(group) \subseteq Matching("count")
          BY <4>2 DEF Left, Matching
        <4> QED
          BY <1>4, <1>5, <2>1, <3>2, <4>1, <4>3, FoundFinite, FS_Subset
      <3>4. \A what : what # "count" => Said(what)' = 0
        <4>1. \A what : Said(what) = 0
          BY <1>1, <2>1 DEF Said, Counted
        <4> QED
          BY <1>3, <1>5, <2>1, <4>1
      <3>5. \A group : (group = Enabling \/ group = Colours) =>
               /\ Cardinality(Left(group)') \in Nat
               /\ Cardinality(Left(group)') <= answers'[1] + changes'
        <4>1. Cardinality(Matching("count")) \in Nat
          BY <3>2, FoundFinite
        <4>2. \A group : Left(group) \in SUBSET Entries
          BY DEF Left
        <4> QED
          BY <1>1, <3>1, <3>3, <4>1, <4>2, FoundFinite
      <3> QED
        BY <3>4, <3>5 DEF NothingTwice
    <2>2. CASE Len(answers) >= 1
      <3>1. answers'[1] = answers[1] /\ answers[1] \in Nat
        BY <1>1, <1>2, <2>2, AnswersNumbers
      <3>2. \A group : /\ Left(group) \in SUBSET Entries /\ Left(group)' \in SUBSET Entries
                       /\ Cardinality(Left(group)) \in Nat /\ Cardinality(Left(group)') \in Nat
        BY FoundFinite DEF Left
      <3>3. \A what : Said(what) \in Nat
        BY <1>1, SaidNumber
      <3>4. /\ Said("enable") + Said("disable") + Cardinality(Left(Enabling))
                  <= answers[1] + changes
            /\ Said("green") + Said("yellow") + Said("red") + Cardinality(Left(Colours))
                  <= answers[1] + changes
        BY <1>1, <2>2 DEF NothingTwice
      <3>5. Said("enable")' + Said("disable")' + Cardinality(Left(Enabling)')
               <= answers'[1] + changes'
        <4>1. IF w \in Enabling
              THEN Cardinality(Left(Enabling)') + c = Cardinality(Left(Enabling))
              ELSE Cardinality(Left(Enabling)') = Cardinality(Left(Enabling))
          BY <1>4
        <4>2. w \in Enabling <=> w = "enable" \/ w = "disable"
          BY <1>5 DEF Enabling
        <4>3. /\ Said("enable")' = IF w = "enable" THEN c ELSE Said("enable")
              /\ Said("disable")' = IF w = "disable" THEN c ELSE Said("disable")
              /\ w = "enable" => Said("enable") = 0
              /\ w = "disable" => Said("disable") = 0
              /\ Said("enable") \in Nat /\ Said("disable") \in Nat
          BY <1>3, <3>3
        <4>4. Cardinality(Left(Enabling)) \in Nat /\ Cardinality(Left(Enabling)') \in Nat
          BY <3>2
        <4>5. changes' = changes /\ changes \in Nat /\ c \in Nat
          BY <1>1, <1>2
        <4> QED
          BY <3>1, <3>4, <4>1, <4>2, <4>3, <4>4, <4>5
      <3>6. Said("green")' + Said("yellow")' + Said("red")' + Cardinality(Left(Colours)')
               <= answers'[1] + changes'
        <4>1. IF w \in Colours
              THEN Cardinality(Left(Colours)') + c = Cardinality(Left(Colours))
              ELSE Cardinality(Left(Colours)') = Cardinality(Left(Colours))
          BY <1>4
        <4>2. w \in Colours <=> w = "green" \/ w = "yellow" \/ w = "red"
          BY DEF Colours
        <4>3. /\ Said("green")' = IF w = "green" THEN c ELSE Said("green")
              /\ Said("yellow")' = IF w = "yellow" THEN c ELSE Said("yellow")
              /\ Said("red")' = IF w = "red" THEN c ELSE Said("red")
              /\ w = "green" => Said("green") = 0
              /\ w = "yellow" => Said("yellow") = 0
              /\ w = "red" => Said("red") = 0
              /\ Said("green") \in Nat /\ Said("yellow") \in Nat /\ Said("red") \in Nat
          BY <1>3, <3>3
        <4>4. Cardinality(Left(Colours)) \in Nat /\ Cardinality(Left(Colours)') \in Nat
          BY <3>2
        <4>5. changes' = changes /\ changes \in Nat /\ c \in Nat
          BY <1>1, <1>2
        <4> QED
          BY <3>1, <3>4, <4>1, <4>2, <4>3, <4>4, <4>5
      <3> QED
        BY <3>5, <3>6 DEF NothingTwice
    <2>3. Len(answers) \in Nat
      BY <1>1
    <2> QED
      BY <2>1, <2>2, <2>3
  <1>8. NothingMissed'
    <2> SUFFICES ASSUME registry # "ssl"
                 PROVE  answers'[1] <= Said("enable")' + Said("disable")'
                                       + Cardinality(Left(Enabling)') + changes
      BY <1>1 DEF NothingMissed
    <2>1. /\ Left(Enabling) \in SUBSET Entries /\ Left(Enabling)' \in SUBSET Entries
          /\ Cardinality(Left(Enabling)) \in Nat /\ Cardinality(Left(Enabling)') \in Nat
      BY FoundFinite DEF Left
    <2>2. /\ w \in Enabling => Cardinality(Left(Enabling)') + c = Cardinality(Left(Enabling))
          /\ w \notin Enabling => Left(Enabling)' = Left(Enabling)
          /\ w \in Enabling <=> w = "enable" \/ w = "disable"
      BY <1>4, <1>5 DEF Enabling
    <2>3. /\ Said("enable")' = IF w = "enable" THEN c ELSE Said("enable")
          /\ Said("disable")' = IF w = "disable" THEN c ELSE Said("disable")
          /\ w = "enable" => Said("enable") = 0
          /\ w = "disable" => Said("disable") = 0
          /\ Said("enable") \in Nat /\ Said("disable") \in Nat
      BY <1>1, <1>3, SaidNumber
    <2>4. CASE Len(answers) = 0
      <3>1. answers'[1] = Cardinality(Matching("count"))
        BY <1>1, <1>5, <2>4 DEF c
      <3>2. \A what : Counted(what) = {}
        BY <1>1, <2>4 DEF Counted
      <3>3. Matching("count") = Left(Enabling)
        <4>1. \A e \in Entry : Matches(e, "count") <=>
                 (Belongs(e, "enable") \/ Belongs(e, "disable") \/ Belongs(e, "neither"))
          BY DEF Entry, Belongs, Neither, Matches, InSelect
        <4>2. \A i \in Entries : entry[i] \in Entry
          BY <1>1 DEF OverviewTypeOK
        <4> QED
          BY <3>2, <4>1, <4>2 DEF Matching, Left, Enabling
      <3>4. Left(Enabling)' = Left(Enabling)
        BY <1>5, <2>2, <2>4
      <3>5. Said("enable")' \in Nat /\ Said("disable")' \in Nat
        BY <1>2, <2>3
      <3> QED
        BY <1>1, <2>1, <3>1, <3>3, <3>4, <3>5
    <2>5. CASE Len(answers) >= 1
      <3>1. answers'[1] = answers[1] /\ answers[1] \in Nat
        BY <1>1, <1>2, <2>5, AnswersNumbers
      <3>2. answers[1] <= Said("enable") + Said("disable") + Cardinality(Left(Enabling)) + changes
        BY <1>1, <2>5 DEF NothingMissed
      <3>3. changes \in Nat /\ c \in Nat
        BY <1>1, <1>2
      <3>4. w \notin Enabling => Cardinality(Left(Enabling)') = Cardinality(Left(Enabling))
        BY <2>2
      <3> QED
        BY <2>1, <2>2, <2>3, <3>1, <3>2, <3>3, <3>4
    <2>6. Len(answers) \in Nat
      BY <1>1
    <2> QED
      BY <2>4, <2>5, <2>6
  <1> QED
    BY <1>6, <1>7, <1>8 DEF OverviewInv

LEMMA EntryKeeps ==
    ASSUME OverviewInv, NEW i \in Entries, EntryChanges(i)
    PROVE  OverviewInv'
  <1>1. /\ OverviewTypeOK /\ NothingTwice /\ NothingMissed
        /\ registry' = registry /\ answers' = answers
        /\ changes' = changes + 1 /\ changes \in 0 .. MaxChanges /\ changes < MaxChanges
        /\ entry \in [Entries -> Entry]
        /\ answers \in Seq(0 .. Cardinality(Entries))
    BY DEF EntryChanges, OverviewInv, OverviewTypeOK
  <1>2. PICK e \in Entry : entry' = [entry EXCEPT ![i] = e]
    BY DEF EntryChanges
  <1>3. entry' \in [Entries -> Entry] /\ \A j \in Entries \ {i} : entry'[j] = entry[j]
    BY <1>1, <1>2
  <1>4. OverviewTypeOK'
    BY <1>1, <1>3, OverviewAssumption DEF OverviewTypeOK, OverviewAssumption
  <1>5. \A what : Counted(what)' = Counted(what) /\ Said(what)' = Said(what)
    BY <1>1 DEF Counted, Said
  <1>6. \A group : /\ Cardinality(Left(group)) \in Nat /\ Cardinality(Left(group)') \in Nat
                   /\ Cardinality(Left(group)') <= Cardinality(Left(group)) + 1
                   /\ Cardinality(Left(group)) <= Cardinality(Left(group)') + 1
    <2> SUFFICES ASSUME NEW group
                 PROVE  /\ Cardinality(Left(group)) \in Nat /\ Cardinality(Left(group)') \in Nat
                        /\ Cardinality(Left(group)') <= Cardinality(Left(group)) + 1
                        /\ Cardinality(Left(group)) <= Cardinality(Left(group)') + 1
      OBVIOUS
    <2>1. /\ Left(group)' \subseteq Left(group) \cup {i}
          /\ Left(group) \subseteq Left(group)' \cup {i}
      BY <1>3, <1>5 DEF Left
    <2>2. Left(group) \in SUBSET Entries /\ Left(group)' \in SUBSET Entries
      BY DEF Left
    <2> QED
      BY <2>1, <2>2, OneEntryMore
  <1>7. NothingTwice'
    <2> SUFFICES ASSUME Len(answers) >= 1
                 PROVE  /\ Said("enable") + Said("disable") + Cardinality(Left(Enabling)')
                              <= answers[1] + (changes + 1)
                        /\ Said("green") + Said("yellow") + Said("red") + Cardinality(Left(Colours)')
                              <= answers[1] + (changes + 1)
      BY <1>1, <1>5 DEF NothingTwice
    <2>1. /\ Said("enable") + Said("disable") + Cardinality(Left(Enabling))
                <= answers[1] + changes
          /\ Said("green") + Said("yellow") + Said("red") + Cardinality(Left(Colours))
                <= answers[1] + changes
      BY <1>1 DEF NothingTwice
    <2>2. \A what : Said(what) \in Nat
      BY <1>1, SaidNumber
    <2>3. /\ Said("enable") \in Nat /\ Said("disable") \in Nat
          /\ Said("green") \in Nat /\ Said("yellow") \in Nat /\ Said("red") \in Nat
          /\ answers[1] \in Nat /\ changes \in Nat
      BY <1>1, <2>2, AnswersNumbers, OverviewAssumption DEF OverviewAssumption
    <2>4. /\ Cardinality(Left(Enabling)) \in Nat /\ Cardinality(Left(Enabling)') \in Nat
          /\ Cardinality(Left(Enabling)') <= Cardinality(Left(Enabling)) + 1
          /\ Cardinality(Left(Colours)) \in Nat /\ Cardinality(Left(Colours)') \in Nat
          /\ Cardinality(Left(Colours)') <= Cardinality(Left(Colours)) + 1
      BY <1>6
    <2>5. \A a, b, c, d, m, n \in Nat :
             (a + b + c <= m + n /\ d <= c + 1) => a + b + d <= m + (n + 1)
      OBVIOUS
    <2>6. \A a, b, x, c, d, m, n \in Nat :
             (a + b + x + c <= m + n /\ d <= c + 1) => a + b + x + d <= m + (n + 1)
      OBVIOUS
    <2>7. Said("enable") + Said("disable") + Cardinality(Left(Enabling)')
             <= answers[1] + (changes + 1)
      BY <2>1, <2>3, <2>4, <2>5
    <2>8. Said("green") + Said("yellow") + Said("red") + Cardinality(Left(Colours)')
             <= answers[1] + (changes + 1)
      BY <2>1, <2>3, <2>4, <2>6
    <2> QED
      BY <2>7, <2>8
  <1>8. NothingMissed'
    <2> SUFFICES ASSUME Len(answers) >= 1, registry # "ssl"
                 PROVE  answers[1] <= Said("enable") + Said("disable")
                                      + Cardinality(Left(Enabling)') + (changes + 1)
      BY <1>1, <1>5 DEF NothingMissed
    <2>1. answers[1] <= Said("enable") + Said("disable") + Cardinality(Left(Enabling)) + changes
      BY <1>1 DEF NothingMissed
    <2>2. /\ Said("enable") \in Nat /\ Said("disable") \in Nat
          /\ answers[1] \in Nat /\ changes \in Nat
      BY <1>1, SaidNumber, AnswersNumbers, OverviewAssumption DEF OverviewAssumption
    <2>3. /\ Cardinality(Left(Enabling)) \in Nat /\ Cardinality(Left(Enabling)') \in Nat
          /\ Cardinality(Left(Enabling)) <= Cardinality(Left(Enabling)') + 1
      BY <1>6
    <2>4. \A a, b, c, d, m, n \in Nat :
             (m <= a + b + c + n /\ c <= d + 1) => m <= a + b + d + (n + 1)
      OBVIOUS
    <2> QED
      BY <2>1, <2>2, <2>3, <2>4
  <1> QED
    BY <1>4, <1>7, <1>8 DEF OverviewInv

LEMMA OverviewInitInv == OverviewInit => OverviewInv
  <1> SUFFICES ASSUME OverviewInit PROVE OverviewInv
    OBVIOUS
  <1>1. Len(answers) = 0 /\ answers \in Seq(0 .. Cardinality(Entries))
    BY DEF OverviewInit
  <1>2. registry \in DOMAIN Statements /\ Len(Statements[registry]) \in {4, 6}
    BY StatementsApart DEF OverviewInit
  <1>3. OverviewTypeOK
    BY <1>1, <1>2, OverviewAssumption DEF OverviewInit, OverviewTypeOK, OverviewAssumption
  <1> QED
    BY <1>1, <1>3 DEF OverviewInv, NothingTwice, NothingMissed

LEMMA OverviewNextInv == OverviewInv /\ [OverviewNext]_overviewVars => OverviewInv'
  <1> SUFFICES ASSUME OverviewInv, [OverviewNext]_overviewVars PROVE OverviewInv'
    OBVIOUS
  <1>1. CASE getStatusCount
    BY <1>1, CountKeeps
  <1>2. CASE \E i \in Entries : EntryChanges(i)
    BY <1>2, EntryKeeps
  <1>3. CASE UNCHANGED overviewVars
    <2>1. /\ registry' = registry /\ entry' = entry /\ answers' = answers
          /\ changes' = changes
      BY <1>3 DEF overviewVars
    <2>2. OverviewTypeOK'
      BY <2>1 DEF OverviewInv, OverviewTypeOK
    <2>3. \A x : Said(x)' = Said(x) /\ Left(x)' = Left(x)
      BY <2>1 DEF Said, Counted, Left
    <2>4. NothingTwice' /\ NothingMissed'
      BY <2>1, <2>3 DEF OverviewInv, NothingTwice, NothingMissed
    <2> QED
      BY <2>2, <2>4 DEF OverviewInv
  <1> QED
    BY <1>1, <1>2, <1>3 DEF OverviewNext

LEMMA OverviewInductive == OverviewSpec => []OverviewInv
  BY OverviewInitInv, OverviewNextInv, PTL DEF OverviewSpec

\* The answers of an overview, its statements and the rows keep their types.
THEOREM OverviewTypeCorrect == OverviewSpec => []OverviewTypeOK
  <1>1. OverviewInv => OverviewTypeOK
    BY DEF OverviewInv
  <1> QED
    BY <1>1, OverviewInductive, PTL

Others == {i \in Entries : Neither(entry[i])}

\* The rows of other statuses are never counted away; and except for
\* certificates an overview counts enabled and disabled rows.
LEMMA OthersLeft ==
    ASSUME OverviewTypeOK
    PROVE  Others \subseteq Left(Enabling)
  <1>1. Counted("neither") = {}
    <2>1. /\ registry \in DOMAIN Statements
          /\ DOMAIN answers \subseteq 1 .. Len(Statements[registry])
      BY AnswersNumbers, StatementsApart DEF OverviewTypeOK
    <2> QED
      BY <2>1, StatementsApart DEF Counted
  <1> QED
    BY <1>1 DEF Others, Left, Belongs, Enabling

LEMMA BothCounted ==
    ASSUME OverviewTypeOK, Over, registry # "ssl"
    PROVE  Left(Enabling) = Others
  <1>1. registry \in {"website", "domain", "blacklist"}
    BY DEF OverviewTypeOK, Statements
  <1>2. Statements[registry] = <<"count", "enable", "disable", "green", "yellow", "red">>
    BY <1>1 DEF Statements, websiteOverview, domainOverview, blacklistOverview
  <1>3. DOMAIN answers = 1 .. 6
    <2>1. Len(answers) = 6
      BY <1>2 DEF Over
    <2> QED
      BY <2>1, AnswersNumbers DEF OverviewTypeOK
  <1>4. 2 \in Counted("enable") /\ 3 \in Counted("disable")
    BY <1>2, <1>3 DEF Counted
  <1>5. Left(Enabling) \subseteq Others
    BY <1>4 DEF Left, Belongs, Enabling, Others
  <1> QED
    BY <1>5, OthersLeft

LEMMA SumsHold == OverviewInv => OverviewAddsUp
  <1> SUFFICES ASSUME OverviewInv, Over PROVE
         /\ Said("enable") + Said("disable") + Cardinality(Others) <= answers[1] + changes
         /\ registry # "ssl" =>
               answers[1] <= Said("enable") + Said("disable") + Cardinality(Others) + changes
         /\ Said("green") + Said("yellow") + Said("red") <= answers[1] + changes
    BY DEF OverviewAddsUp, Others
  <1>1. OverviewTypeOK /\ NothingTwice /\ NothingMissed
    BY DEF OverviewInv
  <1>2. Len(answers) >= 1
    BY <1>1, StatementsApart DEF Over, OverviewTypeOK
  <1>3. \A what : Said(what) \in Nat
    BY <1>1, SaidNumber DEF OverviewTypeOK
  <1>4. \A group : Cardinality(Left(group)) \in Nat
    BY FoundFinite DEF Left
  <1>5. answers[1] \in Nat /\ changes \in Nat
    BY <1>1, <1>2, AnswersNumbers DEF OverviewTypeOK
  <1>6. /\ Said("enable") \in Nat /\ Said("disable") \in Nat
        /\ Said("green") \in Nat /\ Said("yellow") \in Nat /\ Said("red") \in Nat
        /\ Cardinality(Left(Enabling)) \in Nat /\ Cardinality(Left(Colours)) \in Nat
    BY <1>3, <1>4
  <1>7. /\ Said("enable") + Said("disable") + Cardinality(Left(Enabling))
              <= answers[1] + changes
        /\ Said("green") + Said("yellow") + Said("red") + Cardinality(Left(Colours))
              <= answers[1] + changes
    BY <1>1, <1>2 DEF NothingTwice
  <1>8. registry # "ssl" =>
           /\ answers[1] <= Said("enable") + Said("disable") + Cardinality(Left(Enabling)) + changes
           /\ Cardinality(Left(Enabling)) = Cardinality(Others)
    <2>1. registry # "ssl" => Left(Enabling) = Others
      BY <1>1, BothCounted
    <2> QED
      BY <1>1, <1>2, <2>1 DEF NothingMissed
  <1>9. Cardinality(Others) \in Nat /\ Cardinality(Others) <= Cardinality(Left(Enabling))
    <2>1. Others \subseteq Left(Enabling) /\ Left(Enabling) \in SUBSET Entries
      BY <1>1, OthersLeft DEF Left
    <2>2. Others \in SUBSET Entries
      BY DEF Others
    <2> QED
      BY <2>1, <2>2, FoundFinite, FS_Subset
  <1> QED
    BY <1>5, <1>6, <1>7, <1>8, <1>9

\* getStatusCount: once the rows of some other status are added, the enabled and
\* the disabled rows of an overview add up to no more than its count and the
\* changes that came between its statements, whatever changes, and to no less
\* where both are counted; and the lights show no more rows than that either.
THEOREM OverviewsAddUp == OverviewSpec => []OverviewAddsUp
  BY SumsHold, OverviewInductive, PTL

(***************************************************************************)
(* The chart.                                                              *)
(***************************************************************************)
ChartInv ==
    /\ chart \in [filter : Filter, now : Nat, readings : SUBSET DOMAIN Instants]
    /\ \A i \in chart.readings : Instants[i] <= chart.now

LEMMA ChartInductive == ChartSpec => []ChartInv
  <1>1. ChartInit => ChartInv
    BY ChartAssumption DEF ChartInit, ChartInv, ChartAssumption
  <1>2. ChartInv /\ [FALSE]_chart => ChartInv'
    BY DEF ChartInv
  <1> QED
    BY <1>1, <1>2, PTL DEF ChartSpec

\* Instants are numbers, and later ones have a greater place.
LEMMA InstantsGrow ==
    /\ DOMAIN Instants \subseteq Nat
    /\ \A i \in DOMAIN Instants : Instants[i] \in Nat
    /\ \A i, j \in DOMAIN Instants : i <= j => Instants[i] <= Instants[j]
  BY ChartAssumption DEF ChartAssumption

LEMMA Earliest ==
    ASSUME NEW T, T \subseteq Nat, T # {}
    PROVE  \E x \in T : \A y \in T : x <= y
  <1> DEFINE R == {ss \in Nat \X Nat : ss[1] < ss[2]}
  <1>1. IsWellFoundedOn(R, Nat)
    BY NatLessThanWellFounded DEF OpToRel
  <1> HIDE DEF R
  <1>2. \E x \in T : \A y \in T : ~ (<<y, x>> \in R)
    BY <1>1, WFMin
  <1>3. \A x, y \in Nat : ~(<<y, x>> \in R) => x <= y
    BY DEF R
  <1> QED
    BY <1>2, <1>3

\* i is the first reading with its label in a chart.
Leads(c, i) ==
    /\ i \in c.readings /\ InPeriod(c, Instants[i])
    /\ \A j \in c.readings :
          InPeriod(c, Instants[j]) /\ Label(c, Instants[j]) = Label(c, Instants[i]) => i <= j

Bar(c, i) == [label |-> Label(c, Instants[i]), load |-> Instants[i]]

LEMMA BarsLead ==
    ASSUME NEW c
    PROVE  getSingleChartData(c) = {Bar(c, i) : i \in {j \in c.readings : Leads(c, j)}}
  <1> DEFINE loadData == {i \in c.readings : InPeriod(c, Instants[i])}
             label == [i \in loadData |-> Label(c, Instants[i])]
             kept == {i \in loadData : FirstOf(label, i)}
  <1>1. \A i \in loadData : label[i] = Label(c, Instants[i])
    OBVIOUS
  <1>2. DOMAIN label = loadData
    OBVIOUS
  <1>3. getSingleChartData(c) = {[label |-> label[i], load |-> Instants[i]] : i \in kept}
    BY DEF getSingleChartData
  <1> HIDE DEF label
  <1>4. \A i \in loadData : FirstOf(label, i) <=> Leads(c, i)
    BY <1>1, <1>2 DEF FirstOf, Leads
  <1>5. kept = {j \in c.readings : Leads(c, j)}
    BY <1>4 DEF Leads
  <1>6. \A i \in kept : [label |-> label[i], load |-> Instants[i]] = Bar(c, i)
    BY <1>1 DEF Bar
  <1> HIDE DEF kept
  <1>7. {[label |-> label[i], load |-> Instants[i]] : i \in kept} = {Bar(c, i) : i \in kept}
    BY <1>6
  <1> QED
    BY <1>3, <1>5, <1>7

\* Every reading of the period has a first one with its label.
LEMMA Led ==
    ASSUME NEW c, c.readings \subseteq DOMAIN Instants,
           NEW i \in c.readings, InPeriod(c, Instants[i])
    PROVE  \E k \in c.readings :
              Leads(c, k) /\ Label(c, Instants[k]) = Label(c, Instants[i])
  <1> DEFINE same == {j \in c.readings : /\ InPeriod(c, Instants[j])
                                         /\ Label(c, Instants[j]) = Label(c, Instants[i])}
  <1>1. same \subseteq Nat /\ i \in same
    BY InstantsGrow
  <1>2. PICK k \in same : \A y \in same : k <= y
    BY <1>1, Earliest
  <1> QED
    BY <1>2 DEF Leads

LEMMA OneBar ==
    ASSUME ChartInv, NEW t \in Read(chart), InPeriod(chart, t)
    PROVE  \E bar \in getSingleChartData(chart) :
              {b \in getSingleChartData(chart) : b.label = Label(chart, t)} = {bar}
  <1>1. chart.readings \subseteq DOMAIN Instants
    BY DEF ChartInv
  <1>2. PICK i \in chart.readings : t = Instants[i]
    BY DEF Read
  <1>3. PICK k \in chart.readings : Leads(chart, k) /\ Label(chart, Instants[k]) = Label(chart, t)
    BY <1>1, <1>2, Led
  <1>4. Bar(chart, k) \in getSingleChartData(chart) /\ Bar(chart, k).label = Label(chart, t)
    BY <1>3, BarsLead DEF Bar
  <1>5. ASSUME NEW b \in getSingleChartData(chart), b.label = Label(chart, t)
        PROVE  b = Bar(chart, k)
    <2>1. PICK j \in chart.readings : Leads(chart, j) /\ b = Bar(chart, j)
      BY BarsLead
    <2>2. Label(chart, Instants[j]) = Label(chart, Instants[k])
      BY <1>3, <1>5, <2>1 DEF Bar
    <2>3. j <= k /\ k <= j
      BY <1>3, <2>1, <2>2 DEF Leads
    <2> QED
      BY <1>1, <2>1, <2>3, InstantsGrow
  <1> QED
    BY <1>4, <1>5

LEMMA BarsHold == ChartInv => BarsShowFirstReadings
  <1> SUFFICES ASSUME ChartInv PROVE BarsShowFirstReadings
    OBVIOUS
  <1> DEFINE bars == getSingleChartData(chart)
             charted == {t \in Read(chart) : InPeriod(chart, t)}
  <1>1. \A t \in charted : Cardinality({bar \in bars : bar.label = Label(chart, t)}) = 1
    BY OneBar, FS_Singleton
  <1>2. ASSUME NEW bar \in bars
        PROVE  /\ bar.load \in charted /\ bar.label = Label(chart, bar.load)
               /\ \A t \in charted : Label(chart, t) = bar.label => bar.load <= t
    <2>1. PICK i \in chart.readings : Leads(chart, i) /\ bar = Bar(chart, i)
      BY <1>2, BarsLead
    <2>2. bar.load = Instants[i] /\ bar.label = Label(chart, Instants[i])
      BY <2>1 DEF Bar
    <2>3. bar.load \in charted
      BY <2>1, <2>2 DEF Leads, Read
    <2>4. ASSUME NEW t \in charted, Label(chart, t) = bar.label
          PROVE  bar.load <= t
      <3>1. PICK j \in chart.readings : t = Instants[j]
        BY DEF Read
      <3>2. i <= j
        BY <2>1, <2>2, <2>4, <3>1 DEF Leads
      <3> QED
        BY <2>2, <3>1, <3>2, InstantsGrow DEF ChartInv
    <2> QED
      BY <2>2, <2>3, <2>4
  <1> QED
    BY <1>1, <1>2 DEF BarsShowFirstReadings

\* getSingleChartData, label.indexOf(e) == i: one bar for every label of the
\* period, with the earliest of its readings.
THEOREM BarsAreFirst == ChartSpec => []BarsShowFirstReadings
  BY BarsHold, ChartInductive, PTL

\* The twelve hour label of an hour tells it.
LEMMA HoursTold ==
    ASSUME NEW h \in 0 .. 23
    PROVE  /\ h \in 1 .. 11 => HourLabel(h) = <<h, "AM">>
           /\ h \in 13 .. 23 => HourLabel(h) = <<h - 12, "PM">>
           /\ \A g \in 0 .. 23 : HourLabel(g) = HourLabel(h) => g = h
  BY DEF HourLabel

LEMMA HoursAreHours == ASSUME NEW t \in Nat PROVE HourOf(t) \in 0 .. 23
  BY DEF HourOf

LEMMA HoursHold == ChartInv => HourLabelsTell
  <1> SUFFICES ASSUME ChartInv, chart.filter \in {"1", "other"},
                      NEW bar \in getSingleChartData(chart)
               PROVE  LET h == HourOf(bar.load) IN
                      /\ \A t \in Read(chart) :
                            InPeriod(chart, t) /\ Label(chart, t) = bar.label => HourOf(t) = h
                      /\ h \in 1 .. 11 => bar.label = <<h, "AM">>
                      /\ h \in 13 .. 23 => bar.label = <<h - 12, "PM">>
    BY DEF HourLabelsTell
  <1>1. PICK i \in chart.readings : bar = Bar(chart, i)
    BY BarsLead
  <1>2. \A t : Label(chart, t) = HourLabel(HourOf(t))
    BY DEF Label
  <1>3. bar.load = Instants[i] /\ bar.label = HourLabel(HourOf(bar.load))
    BY <1>1, <1>2 DEF Bar
  <1>4. \A t \in Read(chart) : t \in Nat
    BY InstantsGrow DEF Read, ChartInv
  <1>5. HourOf(bar.load) \in 0 .. 23
    BY <1>3, InstantsGrow, HoursAreHours DEF ChartInv
  <1>6. \A t \in Read(chart) : HourOf(t) \in 0 .. 23
    BY <1>4, HoursAreHours
  <1> QED
    BY <1>2, <1>3, <1>5, <1>6, HoursTold

\* The labels of a chart of hours: each tells its hour.
THEOREM HoursAreTold == ChartSpec => []HourLabelsTell
  BY HoursHold, ChartInductive, PTL

\* Months of twelve: what comparing their numbers says of the months.
LEMMA MonthsApart ==
    ASSUME NEW m \in Nat, NEW n \in Nat, m <= n
    PROVE  /\ m % 12 \in 0 .. 11
           /\ (n % 12 # 0 /\ m = n - 1) => m % 12 = (n % 12) - 1
           /\ (m > n - 12 /\ m % 12 = (n % 12) - 1) => m = n - 1
  OBVIOUS

LEMMA MonthsGrow ==
    ASSUME NEW t \in Nat, NEW u \in Nat, t <= u
    PROVE  MonthAge(t) \in Nat /\ MonthAge(t) <= MonthAge(u)
  BY DEF MonthAge, DayOf

LEMMA MonthHolds == ChartInv => LastMonthCharted
  <1> SUFFICES ASSUME ChartInv, chart.filter = "1m", MonthOf(chart.now) # 0
               PROVE  LastMonthCharted
    BY DEF LastMonthCharted
  <1> DEFINE bars == getSingleChartData(chart)
             now == MonthAge(chart.now)
  <1>1. chart.now \in Nat /\ \A t \in Read(chart) : t \in Nat /\ t <= chart.now
    BY InstantsGrow DEF Read, ChartInv
  <1>2. \A t : /\ InPeriod(chart, t) <=> MonthOf(t) = MonthOf(chart.now) - 1
               /\ Label(chart, t) = DateLabel(t)
    BY DEF InPeriod, InMonthBefore, Label
  <1>3. now \in Nat /\ \A t \in Read(chart) : MonthAge(t) \in Nat /\ MonthAge(t) <= now
    BY <1>1, MonthsGrow
  <1>4. \A t \in Read(chart) :
           /\ MonthAge(t) = now - 1 => InPeriod(chart, t)
           /\ (MonthAge(t) > now - 12 /\ InPeriod(chart, t)) => MonthAge(t) = now - 1
    BY <1>2, <1>3, MonthsApart DEF MonthOf
  <1>5. \A bar \in bars : bar.load \in Read(chart) /\ InPeriod(chart, bar.load)
    <2> SUFFICES ASSUME NEW bar \in bars
                 PROVE  bar.load \in Read(chart) /\ InPeriod(chart, bar.load)
      OBVIOUS
    <2>1. PICK i \in chart.readings : Leads(chart, i) /\ bar = Bar(chart, i)
      BY BarsLead
    <2> QED
      BY <2>1 DEF Leads, Bar, Read
  <1>6. \A t \in Read(chart) : InPeriod(chart, t) => \E bar \in bars : bar.label = DateLabel(t)
    BY <1>2, OneBar
  <1> QED
    BY <1>4, <1>5, <1>6 DEF LastMonthCharted

\* The filter "1m", getMonth() == getMonth() - 1: from February on every day of
\* the month before with a reading has a bar, and of the last twelve months no
\* other month has one.
THEOREM LastMonthIsCharted == ChartSpec => []LastMonthCharted
  BY MonthHolds, ChartInductive, PTL

(***************************************************************************)
(* Listings.                                                               *)
(***************************************************************************)
\* A page starts where the one before it ends.
LEMMA SkipGrows ==
    ASSUME NEW n \in Nat \ {0}, NEW limit \in Nat
    PROVE  /\ Skip(n, limit) \in Nat /\ Skip(1, limit) = 0
           /\ Skip(n + 1, limit) = Skip(n, limit) + limit
  BY DEF Skip, Page

LEMMA RowsFinite ==
    ASSUME NEW S \in SUBSET Items
    PROVE  IsFiniteSet(S) /\ Cardinality(S) \in Nat
  BY ListingsAssumption, FS_Subset, FS_CardinalityType DEF ListingsAssumption

\* The position of i in any set of rows.
Before(T, i) == {j \in T : Precedes(j, i)}

Place(T, i) == Cardinality(Before(T, i))

LEMMA PlacesNumber ==
    ASSUME NEW T \in SUBSET Items, NEW j
    PROVE  IsFiniteSet(Before(T, j)) /\ Place(T, j) \in Nat
  BY RowsFinite DEF Before, Place

\* Rows are in one order.
LEMMA RowsOrdered ==
    ASSUME NEW T \in SUBSET Items
    PROVE  /\ \A i \in T : ~Precedes(i, i)
           /\ \A i, j \in T : i # j => Precedes(i, j) \/ Precedes(j, i)
           /\ \A i, j, k \in T : Precedes(i, j) /\ Precedes(j, k) => Precedes(i, k)
  BY ListingsAssumption DEF ListingsAssumption, Precedes

\* A row has fewer rows before it than there are, and a later one has more.
LEMMA PlacesApart ==
    ASSUME NEW T \in SUBSET Items, NEW i \in T
    PROVE  /\ Place(T, i) \in Nat /\ Place(T, i) < Cardinality(T)
           /\ \A j \in T : Precedes(j, i) => Place(T, j) < Place(T, i)
           /\ \A j \in T : j # i => Place(T, j) # Place(T, i)
  <1>1. \A j : IsFiniteSet(Before(T, j)) /\ Place(T, j) \in Nat
    BY PlacesNumber
  <1>2. IsFiniteSet(T) /\ Cardinality(T) \in Nat
    BY RowsFinite
  <1>3. Place(T, i) < Cardinality(T)
    <2>1. Before(T, i) \in SUBSET T /\ Before(T, i) # T
      BY RowsOrdered DEF Before
    <2> QED
      BY <1>1, <1>2, <2>1, FS_Subset DEF Place
  <1>4. ASSUME NEW j \in T, NEW k \in T, Precedes(j, k)
        PROVE  Place(T, j) < Place(T, k)
    <2>1. Before(T, j) \in SUBSET Before(T, k) /\ Before(T, j) # Before(T, k)
      BY <1>4, RowsOrdered DEF Before
    <2> QED
      BY <1>1, <2>1, FS_Subset DEF Place
  <1>5. \A j \in T : j # i => Place(T, j) # Place(T, i)
    BY <1>1, <1>4, RowsOrdered
  <1> QED
    BY <1>1, <1>3, <1>4, <1>5

LEMMA PositionsApart ==
    ASSUME table \subseteq Items, NEW i \in table
    PROVE  /\ Position(i) \in Nat /\ Position(i) < Cardinality(table)
           /\ \A j \in table : j # i => Position(j) # Position(i)
  <1>1. \A j : Position(j) = Place(table, j)
    BY DEF Position, Place, Before
  <1> QED
    BY <1>1, PlacesApart

\* One more row moves a row one place on, if it comes before it.
LEMMA PlaceWith ==
    ASSUME NEW T \in SUBSET Items, NEW i \in Items \ T, NEW j
    PROVE  Place(T \cup {i}, j) = IF Precedes(i, j) THEN Place(T, j) + 1 ELSE Place(T, j)
  <1>1. IsFiniteSet(Before(T, j)) /\ i \notin Before(T, j)
    BY PlacesNumber DEF Before
  <1>2. CASE Precedes(i, j)
    <2>1. Before(T \cup {i}, j) = Before(T, j) \cup {i}
      BY <1>2 DEF Before
    <2> QED
      BY <1>1, <1>2, <2>1, FS_AddElement DEF Place
  <1>3. CASE ~Precedes(i, j)
    <2>1. Before(T \cup {i}, j) = Before(T, j)
      BY <1>3 DEF Before
    <2> QED
      BY <1>3, <2>1 DEF Place
  <1> QED
    BY <1>2, <1>3

\* Rows of a set that lie before a place, or not.
Fore(T, C, M, p) == {j \in C : j \notin M /\ Place(T, j) < p}

Aft(T, M, p) == {j \in T : j \in M /\ ~(Place(T, j) < p)}

LEMMA GrownByOne ==
    ASSUME NEW S \in SUBSET Items, NEW T \in SUBSET Items,
           NEW x, T \subseteq S \cup {x}
    PROVE  Cardinality(S) \in Nat /\ Cardinality(T) \in Nat
           /\ Cardinality(T) <= Cardinality(S) + 1
  <1>1. IsFiniteSet(S) /\ Cardinality(S) \in Nat /\ Cardinality(T) \in Nat
    BY RowsFinite
  <1>2. /\ IsFiniteSet(S \cup {x})
        /\ Cardinality(S \cup {x}) \in {Cardinality(S), Cardinality(S) + 1}
    BY <1>1, FS_AddElement
  <1>3. Cardinality(T) <= Cardinality(S \cup {x})
    BY <1>2, FS_Subset
  <1> QED
    BY <1>1, <1>2, <1>3

\* A row that comes moves at most one row to place p or further: the row that
\* was just before, or itself.
LEMMA OneMovesOn ==
    ASSUME NEW T \in SUBSET Items, NEW i \in Items \ T, NEW p \in Nat, NEW M
    PROVE  /\ Cardinality(Aft(T, M, p)) \in Nat
           /\ Cardinality(Aft(T \cup {i}, M, p)) \in Nat
           /\ Cardinality(Aft(T \cup {i}, M, p)) <= Cardinality(Aft(T, M, p)) + 1
  <1> DEFINE U == T \cup {i}
             A == Aft(T, M, p)
             B == Aft(U, M, p)
  <1>1. U \in SUBSET Items /\ A \in SUBSET Items /\ B \in SUBSET Items
    BY DEF Aft
  <1>2. \A j : /\ Place(T, j) \in Nat /\ Place(U, j) \in Nat
               /\ Place(U, j) = IF Precedes(i, j) THEN Place(T, j) + 1 ELSE Place(T, j)
    BY <1>1, PlacesNumber, PlaceWith
  <1>3. /\ \A j \in U : Precedes(i, j) => Place(U, i) < Place(U, j)
        /\ \A j, k \in U : Place(U, j) = Place(U, k) => j = k
    BY <1>1, PlacesApart
  <1>4. \A j \in B : j \in A \/ j = i \/ (Place(U, j) = p /\ Place(U, i) < p)
    <2> SUFFICES ASSUME NEW j \in B, j \notin A, j # i
                 PROVE  Place(U, j) = p /\ Place(U, i) < p
      OBVIOUS
    <2>1. j \in T /\ Place(T, j) < p /\ ~(Place(U, j) < p)
      BY DEF Aft
    <2>2. Precedes(i, j) /\ Place(U, j) = Place(T, j) + 1
      BY <1>2, <2>1
    <2>3. Place(U, i) < Place(U, j)
      BY <1>3, <2>1, <2>2
    <2> QED
      BY <1>2, <2>1, <2>2, <2>3
  <1>5. \A j \in B : j \in U /\ (j = i => ~(Place(U, i) < p))
    BY DEF Aft
  <1>6. B \subseteq Items /\ A \subseteq Items
    BY <1>1
  <1> HIDE DEF A, B, U
  <1>7. \E x : B \subseteq A \cup {x}
    <2>1. CASE Place(U, i) < p
      <3>1. \A j, k \in B : j \in A \/ k \in A \/ j = k
        BY <1>3, <1>4, <1>5, <2>1
      <3> QED
        BY <3>1
    <2>2. CASE ~(Place(U, i) < p)
      <3>1. B \subseteq A \cup {i}
        BY <1>4, <2>2
      <3> QED
        BY <3>1
    <2> QED
      BY <2>1, <2>2
  <1>8. PICK x : B \subseteq A \cup {x}
    BY <1>7
  <1>9. Cardinality(A) \in Nat /\ Cardinality(B) \in Nat /\ Cardinality(B) <= Cardinality(A) + 1
    BY <1>6, <1>8, GrownByOne
  <1> QED
    BY <1>9 DEF A, B, U

\* A row that goes moves at most one row to a place before p: the row at p.
LEMMA OneMovesUp ==
    ASSUME NEW T \in SUBSET Items, NEW i \in T, NEW p \in Nat, NEW M,
           NEW C \in SUBSET T
    PROVE  /\ Cardinality(Fore(T, C, M, p)) \in Nat
           /\ Cardinality(Fore(T \ {i}, C \ {i}, M, p)) \in Nat
           /\ Cardinality(Fore(T \ {i}, C \ {i}, M, p)) <= Cardinality(Fore(T, C, M, p)) + 1
  <1> DEFINE U == T \ {i}
             A == Fore(T, C, M, p)
             B == Fore(U, C \ {i}, M, p)
  <1>1. U \in SUBSET Items /\ A \in SUBSET Items /\ B \in SUBSET Items
        /\ T = U \cup {i} /\ i \in Items \ U
    BY DEF Fore
  <1>2. \A j : /\ Place(T, j) \in Nat /\ Place(U, j) \in Nat
               /\ Place(T, j) = IF Precedes(i, j) THEN Place(U, j) + 1 ELSE Place(U, j)
    BY <1>1, PlacesNumber, PlaceWith
  <1>3. \A j, k \in T : Place(T, j) = Place(T, k) => j = k
    BY PlacesApart
  <1>4. \A j \in B : j \in T /\ (j \in A \/ Place(T, j) = p)
    BY <1>2 DEF Fore
  <1> HIDE DEF A, B, U
  <1>5. \A j, k \in B : j \in A \/ k \in A \/ j = k
    BY <1>3, <1>4
  <1>6. \E x : B \subseteq A \cup {x}
    BY <1>5
  <1>7. PICK x : B \subseteq A \cup {x}
    BY <1>6
  <1>8. Cardinality(A) \in Nat /\ Cardinality(B) \in Nat /\ Cardinality(B) <= Cardinality(A) + 1
    BY <1>1, <1>7, GrownByOne
  <1> QED
    BY <1>8 DEF A, B, U

\* The positions of the rows are the numbers from 0 on.
LEMMA PositionsTaken ==
    ASSUME table \subseteq Items, NEW p \in 0 .. Cardinality(table) - 1
    PROVE  \E i \in table : Position(i) = p
  <1> DEFINE places == 0 .. Cardinality(table) - 1
             f == [i \in table |-> Position(i)]
  <1>1. IsFiniteSet(table) /\ Cardinality(table) \in Nat
    BY RowsFinite
  <1>2. IsFiniteSet(places) /\ Cardinality(places) = Cardinality(table)
    BY <1>1, FS_Interval
  <1>3. f \in [table -> places]
    BY <1>1, PositionsApart
  <1>4. \A i, j \in table : f[i] = f[j] => i = j
    BY PositionsApart
  <1> HIDE DEF f, places
  <1>5. f \in Injection(table, places)
    BY <1>3, <1>4 DEF Injection, IsInjective
  <1>6. f \in Surjection(table, places)
    BY <1>1, <1>2, <1>5, FS_Injection
  <1>7. \A q \in places : \E i \in table : f[i] = q
    BY <1>6 DEF Surjection
  <1> QED
    BY <1>7 DEF f, places

\* A page holds as many rows as are due.
LEMMA WindowsFull ==
    ASSUME table \subseteq Items, NEW skip \in Nat, NEW limit \in Nat \ {0},
           NEW rows \in Windows(skip, limit)
    PROVE  /\ rows \in SUBSET table
           /\ Cardinality(rows) = Due(skip, limit)
           /\ Cardinality(rows) \in Nat
  <1>1. IsFiniteSet(table) /\ Cardinality(table) \in Nat
    BY RowsFinite
  <1>2. CASE listing.order = "tied"
    BY <1>2, RowsFinite DEF Windows
  <1>3. CASE listing.order # "tied"
    <2> DEFINE top == IF Cardinality(table) <= skip + limit THEN Cardinality(table) ELSE skip + limit
               places == skip .. top - 1
               f == [i \in rows |-> Position(i)]
    <2>1. rows = {i \in table : skip <= Position(i) /\ Position(i) < skip + limit}
      BY <1>3 DEF Windows
    <2>2. rows \in SUBSET table /\ IsFiniteSet(rows) /\ Cardinality(rows) \in Nat
      BY <2>1, RowsFinite
    <2>3. IsFiniteSet(places) /\ Cardinality(places) = Due(skip, limit)
      <3>1. skip \in Int /\ top - 1 \in Int
        BY <1>1
      <3>2. /\ IsFiniteSet(places)
            /\ Cardinality(places) = IF skip > top - 1 THEN 0 ELSE (top - 1) - skip + 1
        BY <3>1, FS_Interval
      <3>3. Due(skip, limit) = IF skip > top - 1 THEN 0 ELSE (top - 1) - skip + 1
        BY <1>1 DEF Due
      <3> QED
        BY <3>2, <3>3
    <2>4. \A i \in rows : Position(i) \in places
      BY <1>1, <2>1, PositionsApart
    <2>5. f \in [rows -> places]
      BY <2>4
    <2>6. \A i, j \in rows : f[i] = f[j] => i = j
      BY <2>1, PositionsApart
    <2>7. \A p \in places : \E i \in rows : f[i] = p
      <3> SUFFICES ASSUME NEW p \in places PROVE \E i \in rows : f[i] = p
        OBVIOUS
      <3>1. /\ p \in 0 .. Cardinality(table) - 1
            /\ skip <= p /\ p < skip + limit
        BY <1>1
      <3>2. PICK i \in table : Position(i) = p
        BY <3>1, PositionsTaken
      <3>3. i \in rows
        BY <2>1, <3>1, <3>2
      <3> QED
        BY <3>2, <3>3
    <2> HIDE DEF f, places
    <2>8. f \in Bijection(rows, places)
      BY <2>5, <2>6, <2>7 DEF Bijection, Injection, IsInjective, Surjection
    <2>9. ExistsBijection(rows, places)
      BY <2>8 DEF ExistsBijection
    <2>10. Cardinality(places) = Cardinality(rows)
      BY <2>2, <2>9, FS_Bijection
    <2> QED
      BY <2>2, <2>3, <2>10
  <1> QED
    BY <1>2, <1>3

(***************************************************************************)
(* A walk.  The rows there from the start that lie before the page and     *)
(* were not shown are no more than the rows removed; the rows shown twice, *)
(* and the rows shown that lie beyond the page, to be shown once more, are *)
(* no more than the rows added; while none was either, the pages held the  *)
(* rows before the page.                                                   *)
(***************************************************************************)
Start == Skip(walk.page, listing.limit)

Apart == listing.order # "tied"

\* The rows shown, and those of a page found.
Met(rows) == {i \in Items : seen[i] >= 1 \/ i \in rows}

Missed(p, rows) == Fore(table, steady, Met(rows), p)

Unmet(rows) == {i \in steady : i \notin Met(rows)}

Twice(rows) == {i \in Items : seen[i] > 1 \/ (seen[i] >= 1 /\ i \in rows)}

Beyond(p, rows) == Aft(table, Met(rows), p)

FewMissed ==
    Apart =>
       /\ walk.pc = "page" => Cardinality(Missed(Start, {})) <= events.removed
       /\ walk.pc = "done" => Cardinality(Unmet({})) <= events.removed

FewTwice ==
    Apart =>
       /\ walk.pc = "page" =>
             Cardinality(Twice({})) + Cardinality(Beyond(Start, {})) <= events.added
       /\ walk.pc = "done" => Cardinality(Twice({})) <= events.added

AsManyShown ==
    (events.added = 0 /\ events.removed = 0) =>
       /\ walk.pc \in {"page", "look"} => shown = Start /\ Start <= Cardinality(table)
       /\ walk.pc = "done" => shown = Cardinality(table)

\* What holds of a page that may be shown.
PageHolds(rows) ==
    /\ rows \in SUBSET Items
    /\ Apart =>
          /\ Cardinality(Missed(Start + listing.limit, rows)) <= events.removed
          /\ Cardinality(rows) < listing.limit => Cardinality(Unmet(rows)) <= events.removed
          /\ Cardinality(Twice(rows)) + Cardinality(Beyond(Start + listing.limit, rows))
                <= events.added
    /\ (events.added = 0 /\ events.removed = 0) =>
          Cardinality(rows) = Due(Start, listing.limit)

PageFits == walk.pc = "look" => PageHolds(walk.rows)

\* No page shows a row twice, and no page beyond the last is asked for.
PagesCounted ==
    /\ \A i \in Items : seen[i] < walk.page
    /\ walk.pc = "look" => walk.page <= MaxPages

ListingsInv ==
    ListingsTypeOK /\ PagesCounted /\ FewMissed /\ FewTwice /\ AsManyShown /\ PageFits

LEMMA ListingsTypes ==
    ASSUME ListingsTypeOK
    PROVE  /\ listing.limit \in Nat \ {0} /\ walk.page \in Nat \ {0}
           /\ Start \in Nat /\ Skip(walk.page + 1, listing.limit) = Start + listing.limit
           /\ table \subseteq Items /\ steady \subseteq table
           /\ \A i \in Items : seen[i] \in Nat
           /\ events.added \in Nat /\ events.removed \in Nat
           /\ walk.pc \in {"page", "look", "done", "refused"}
           /\ Cardinality(table) \in Nat /\ IsFiniteSet(table)
  <1>1. listing.limit \in Nat \ {0} /\ table \subseteq Items /\ steady \subseteq table
    BY ListingsAssumption DEF ListingsTypeOK, Setting, ListingsAssumption
  <1>2. walk.page \in Nat \ {0} /\ walk.pc \in {"page", "look", "done", "refused"}
    BY ListingsAssumption DEF ListingsTypeOK, Walk, ListingsAssumption
  <1>3. \A i \in Items : seen[i] \in Nat
    BY ListingsAssumption DEF ListingsTypeOK, ListingsAssumption
  <1>4. events.added \in Nat /\ events.removed \in Nat
    BY ListingsAssumption DEF ListingsTypeOK, Event, ListingsAssumption
  <1> QED
    BY <1>1, <1>2, <1>3, <1>4, SkipGrows, RowsFinite DEF Start

\* How many rows each of these are is a number.
LEMMA FewNumbers ==
    ASSUME ListingsTypeOK, NEW p, NEW rows
    PROVE  /\ Missed(p, rows) \in SUBSET Items /\ Cardinality(Missed(p, rows)) \in Nat
           /\ Unmet(rows) \in SUBSET Items /\ Cardinality(Unmet(rows)) \in Nat
           /\ Twice(rows) \in SUBSET Items /\ Cardinality(Twice(rows)) \in Nat
           /\ Beyond(p, rows) \in SUBSET Items /\ Cardinality(Beyond(p, rows)) \in Nat
  <1>1. table \subseteq Items /\ steady \subseteq Items
    BY ListingsTypes
  <1> QED
    BY <1>1, RowsFinite DEF Missed, Fore, Unmet, Twice, Beyond, Aft

LEMMA FewerRows ==
    ASSUME NEW S \in SUBSET Items, NEW T \in SUBSET S
    PROVE  Cardinality(T) <= Cardinality(S)
  BY RowsFinite, FS_Subset

LEMMA PlacedAt ==
    ASSUME table \subseteq Items, NEW i \in table
    PROVE  Place(table, i) = Position(i) /\ Place(table, i) \in Nat
           /\ Place(table, i) < Cardinality(table)
  <1>1. Place(table, i) = Position(i)
    BY DEF Position, Place, Before
  <1> QED
    BY <1>1, PlacesApart

\* The page a query finds is one that may be shown.
LEMMA WindowHolds ==
    ASSUME ListingsInv, walk.pc = "page",
           NEW rows \in Windows(Start, listing.limit)
    PROVE  PageHolds(rows)
  <1> DEFINE end == Start + listing.limit
  <1>1. /\ ListingsTypeOK /\ FewMissed /\ FewTwice
        /\ listing.limit \in Nat \ {0} /\ Start \in Nat /\ end \in Nat
        /\ table \subseteq Items /\ steady \subseteq table
        /\ Cardinality(table) \in Nat
        /\ events.added \in Nat /\ events.removed \in Nat
    BY ListingsTypes DEF ListingsInv
  <1>2. /\ rows \in SUBSET table /\ Cardinality(rows) \in Nat
        /\ Cardinality(rows) = Due(Start, listing.limit)
    BY <1>1, WindowsFull
  <1>3. Cardinality(rows) < listing.limit => Cardinality(table) < end
    BY <1>1, <1>2 DEF Due
  <1>4. \A i \in table : Place(table, i) = Position(i) /\ Place(table, i) \in Nat
                         /\ Place(table, i) < Cardinality(table)
    BY <1>1, PlacedAt
  <1>5. ASSUME Apart
        PROVE  \A i \in table : i \in rows <=> ~(Place(table, i) < Start) /\ Place(table, i) < end
    <2>1. rows = {i \in table : Start <= Position(i) /\ Position(i) < end}
      BY <1>5 DEF Apart, Windows
    <2> QED
      BY <1>1, <1>4, <2>1
  <1> HIDE DEF end
  <1>6. ASSUME Apart
        PROVE  Cardinality(Missed(end, rows)) <= events.removed
    <2>1. Missed(end, rows) \in SUBSET Missed(Start, {})
      BY <1>1, <1>5, <1>6 DEF Missed, Fore, Met
    <2>2. Cardinality(Missed(end, rows)) <= Cardinality(Missed(Start, {}))
      BY <1>1, <2>1, FewNumbers, FewerRows
    <2>3. Cardinality(Missed(Start, {})) <= events.removed
      BY <1>1, <1>6 DEF FewMissed
    <2>4. Cardinality(Missed(end, rows)) \in Nat /\ Cardinality(Missed(Start, {})) \in Nat
      BY <1>1, FewNumbers
    <2> QED
      BY <1>1, <2>2, <2>3, <2>4
  <1>7. ASSUME Apart, Cardinality(rows) < listing.limit
        PROVE  Cardinality(Unmet(rows)) <= events.removed
    <2>1. \A i \in steady : Place(table, i) < end
      BY <1>1, <1>3, <1>4, <1>7
    <2>2. Unmet(rows) = Missed(end, rows)
      BY <2>1 DEF Missed, Fore, Unmet
    <2> QED
      BY <1>6, <1>7, <2>2
  <1>8. ASSUME Apart
        PROVE  Cardinality(Twice(rows)) + Cardinality(Beyond(end, rows)) <= events.added
    <2> DEFINE T == Twice({})
               B == Beyond(Start, {})
               both == B \cap rows
               rest == B \ rows
    <2>1. /\ T \in SUBSET Items /\ B \in SUBSET Items
          /\ Cardinality(T) \in Nat /\ Cardinality(B) \in Nat
          /\ Cardinality(Twice(rows)) \in Nat /\ Cardinality(Beyond(end, rows)) \in Nat
      BY <1>1, FewNumbers
    <2>2. Cardinality(T) + Cardinality(B) <= events.added
      BY <1>1, <1>8 DEF FewTwice
    <2>3. Twice(rows) \subseteq T \cup both
      BY <1>1, <1>2, <1>5, <1>8 DEF Twice, Beyond, Aft, Met
    <2>4. Beyond(end, rows) \subseteq rest
      <3> SUFFICES ASSUME NEW i \in Beyond(end, rows) PROVE i \in rest
        OBVIOUS
      <3>1. i \in table /\ i \in Met(rows) /\ ~(Place(table, i) < end)
        BY DEF Beyond, Aft
      <3>2. ~(Place(table, i) < Start) /\ i \notin rows
        BY <1>1, <1>4, <1>5, <1>8, <3>1 DEF end
      <3>3. i \in Met({})
        BY <3>1, <3>2 DEF Met
      <3> QED
        BY <3>1, <3>2, <3>3 DEF Beyond, Aft
    <2> HIDE DEF T, B
    <2>5. /\ IsFiniteSet(T) /\ IsFiniteSet(B) /\ IsFiniteSet(both)
          /\ Cardinality(both) \in Nat /\ Cardinality(rest) \in Nat
      BY <2>1, RowsFinite
    <2>6. Cardinality(rest) = Cardinality(B) - Cardinality(both)
      BY <2>5, FS_Difference
    <2>7. Cardinality(T \cup both) <= Cardinality(T) + Cardinality(both)
      <3>1. /\ Cardinality(T \cup both)
                  = Cardinality(T) + Cardinality(both) - Cardinality(T \cap both)
        BY <2>5, FS_Union
      <3>2. Cardinality(T \cap both) \in Nat
        BY <2>1, RowsFinite
      <3> QED
        BY <2>1, <2>5, <3>1, <3>2
    <2>8. Cardinality(Twice(rows)) <= Cardinality(T \cup both)
      BY <2>1, <2>3, FewerRows
    <2>9. Cardinality(Beyond(end, rows)) <= Cardinality(rest)
      BY <2>1, <2>4, FewerRows
    <2>10. T \cup both \in SUBSET Items
      BY <2>1
    <2>11. Cardinality(T \cup both) \in Nat
      BY <2>10, RowsFinite
    <2> HIDE DEF both, rest
    <2> QED
      BY <1>1, <2>1, <2>2, <2>5, <2>6, <2>7, <2>8, <2>9, <2>11
  <1> QED
    BY <1>1, <1>2, <1>6, <1>7, <1>8 DEF PageHolds, end

\* Showing a page: what was shown is what was met.
LEMMA ShownAreMet ==
    ASSUME ListingsTypeOK, NEW rows \in SUBSET Items, Show(rows), NEW p
    PROVE  /\ Missed(p, {})' = Missed(p, rows) /\ Unmet({})' = Unmet(rows)
           /\ Twice({})' = Twice(rows) /\ Beyond(p, {})' = Beyond(p, rows)
  <1>1. /\ listing' = listing /\ table' = table /\ steady' = steady
        /\ \A i \in Items : /\ seen[i] \in Nat
                            /\ seen'[i] = IF i \in rows THEN seen[i] + 1 ELSE seen[i]
    BY ListingsTypes DEF Show
  <1>2. /\ \A i \in Items : seen'[i] >= 1 <=> (seen[i] >= 1 \/ i \in rows)
        /\ \A i \in Items : seen'[i] > 1 <=> (seen[i] > 1 \/ (seen[i] >= 1 /\ i \in rows))
    BY <1>1
  <1>3. Met({})' = Met(rows)
    BY <1>2 DEF Met
  <1>4. \A j : Place(table, j)' = Place(table, j)
    BY <1>1 DEF Place, Before, Precedes
  <1> QED
    BY <1>1, <1>2, <1>3, <1>4 DEF Missed, Fore, Unmet, Twice, Beyond, Aft

\* A page is shown.
LEMMA ShowKeeps ==
    ASSUME ListingsInv, walk.pc \in {"page", "look"}, walk.page <= MaxPages,
           NEW rows, PageHolds(rows), Show(rows)
    PROVE  ListingsInv'
  <1> DEFINE over == Cardinality(rows) < listing.limit
             end == Start + listing.limit
  <1>1. /\ ListingsTypeOK /\ PagesCounted /\ AsManyShown
        /\ listing.limit \in Nat \ {0} /\ walk.page \in Nat \ {0} /\ Start \in Nat
        /\ table \subseteq Items /\ Cardinality(table) \in Nat
        /\ \A i \in Items : seen[i] \in Nat
        /\ events.added \in Nat /\ events.removed \in Nat
    BY ListingsTypes DEF ListingsInv
  <1>2. /\ seen' = [i \in Items |-> IF i \in rows THEN seen[i] + 1 ELSE seen[i]]
        /\ shown' = shown + Cardinality(rows)
        /\ walk' = [pc |-> IF over THEN "done" ELSE "page",
                    page |-> walk.page + 1, rows |-> {}, renamed |-> {}]
        /\ listing' = listing /\ table' = table /\ steady' = steady /\ events' = events
    BY DEF Show
  <1>3. /\ walk'.pc = (IF over THEN "done" ELSE "page") /\ walk'.pc \in {"page", "done"}
        /\ walk'.page = walk.page + 1 /\ walk'.rows = {} /\ walk'.renamed = {}
    BY <1>2
  <1>4. \A i \in Items : seen'[i] = IF i \in rows THEN seen[i] + 1 ELSE seen[i]
    BY <1>2
  <1>5. rows \in SUBSET Items /\ Cardinality(rows) \in Nat
    BY RowsFinite DEF PageHolds
  <1>6. \A p : /\ Missed(p, {})' = Missed(p, rows) /\ Unmet({})' = Unmet(rows)
               /\ Twice({})' = Twice(rows) /\ Beyond(p, {})' = Beyond(p, rows)
    BY <1>1, <1>5, ShownAreMet
  <1>7. Start' = end /\ (Apart' <=> Apart)
    BY <1>1, <1>2, <1>3, ListingsTypes DEF Start, Apart
  <1>8. MaxPages \in Nat
    BY ListingsAssumption DEF ListingsAssumption
  <1>9. Apart =>
          /\ Cardinality(Missed(end, rows)) <= events.removed
          /\ over => Cardinality(Unmet(rows)) <= events.removed
          /\ Cardinality(Twice(rows)) + Cardinality(Beyond(end, rows)) <= events.added
    BY DEF PageHolds
  <1>10. (events.added = 0 /\ events.removed = 0) =>
            Cardinality(rows) = Due(Start, listing.limit)
    BY DEF PageHolds
  <1> HIDE DEF over
  <1>11. PagesCounted'
    BY <1>1, <1>3, <1>4 DEF PagesCounted
  <1>12. ListingsTypeOK'
    <2>1. walk' \in Walk
      <3>1. walk.page + 1 \in 1 .. MaxPages + 1
        BY <1>1, <1>8
      <3>2. (IF over THEN "done" ELSE "page") \in {"page", "look", "done", "refused"}
        OBVIOUS
      <3> QED
        BY <1>2, <3>1, <3>2 DEF Walk
    <2>2. seen' \in [Items -> 0 .. MaxPages]
      <3>1. \A i \in Items : seen'[i] \in 0 .. MaxPages
        <4> SUFFICES ASSUME NEW i \in Items PROVE seen'[i] \in 0 .. MaxPages
          OBVIOUS
        <4>1. seen[i] \in Nat /\ seen[i] < walk.page
          BY <1>1 DEF PagesCounted
        <4> QED
          BY <1>1, <1>4, <1>8, <4>1
      <3> QED
        BY <1>2, <3>1
    <2> QED
      BY <1>1, <1>2, <1>5, <2>1, <2>2 DEF ListingsTypeOK
  <1>13. AsManyShown'
    <2> SUFFICES ASSUME events.added = 0, events.removed = 0
                 PROVE  /\ walk'.pc = "page" =>
                              /\ shown' = end
                              /\ end <= Cardinality(table)
                        /\ walk'.pc = "done" => shown' = Cardinality(table)
      BY <1>2, <1>3, <1>7 DEF AsManyShown
    <2>1. shown = Start /\ Start <= Cardinality(table)
      BY <1>1 DEF AsManyShown
    <2>2. over <=> Due(Start, listing.limit) < listing.limit
      BY <1>10 DEF over
    <2> QED
      BY <1>1, <1>2, <1>3, <1>10, <2>1, <2>2 DEF Due
  <1>14. PageFits'
    BY <1>3 DEF PageFits
  <1> HIDE DEF end
  <1>15. FewMissed'
    BY <1>2, <1>3, <1>6, <1>7, <1>9 DEF FewMissed
  <1>16. FewTwice'
    <2>1. /\ Cardinality(Twice(rows)) \in Nat /\ Cardinality(Beyond(end, rows)) \in Nat
      BY <1>1, FewNumbers
    <2>2. Apart => Cardinality(Twice(rows)) <= events.added
      BY <1>1, <1>9, <2>1
    <2>3. /\ Twice({})' = Twice(rows) /\ Beyond(Start, {})' = Beyond(end, rows)
      BY <1>6, <1>7
    <2> QED
      BY <1>2, <1>7, <1>9, <2>2, <2>3 DEF FewTwice
  <1> QED
    BY <1>11, <1>12, <1>13, <1>14, <1>15, <1>16 DEF ListingsInv

LEMMA ShowPageKeeps ==
    ASSUME ListingsInv, NEW name, ShowPage(name)
    PROVE  ListingsInv'
  <1>1. /\ walk.pc = "page" /\ walk.page <= MaxPages
        /\ \E rows \in Windows(Start, listing.limit) : Show(rows)
    BY DEF ShowPage, Ask, Start
  <1>2. PICK rows \in Windows(Start, listing.limit) : Show(rows)
    BY <1>1
  <1> QED
    BY <1>1, <1>2, WindowHolds, ShowKeeps

\* Where rows, listing and history stay, so do these.
LEMMA RowsStay ==
    ASSUME listing' = listing, table' = table, seen' = seen, steady' = steady
    PROVE  \A p, rows :
              /\ Missed(p, rows)' = Missed(p, rows) /\ Unmet(rows)' = Unmet(rows)
              /\ Twice(rows)' = Twice(rows) /\ Beyond(p, rows)' = Beyond(p, rows)
  <1>1. \A rows : Met(rows)' = Met(rows) /\ Twice(rows)' = Twice(rows)
    BY DEF Met, Twice
  <1>2. \A j : Place(table, j)' = Place(table, j)
    BY DEF Place, Before, Precedes
  <1> QED
    BY <1>1, <1>2 DEF Missed, Fore, Unmet, Beyond, Aft

LEMMA PageStays ==
    ASSUME listing' = listing, table' = table, seen' = seen, steady' = steady,
           events' = events, walk'.page = walk.page
    PROVE  /\ Start' = Start /\ (Apart' <=> Apart)
           /\ \A rows : PageHolds(rows)' <=> PageHolds(rows)
  <1>1. Start' = Start /\ (Apart' <=> Apart)
    BY DEF Start, Apart
  <1>2. Due(Start, listing.limit)' = Due(Start, listing.limit)
    BY <1>1 DEF Due
  <1>3. \A rows : /\ Missed(Start + listing.limit, rows)' = Missed(Start + listing.limit, rows)
                  /\ Unmet(rows)' = Unmet(rows) /\ Twice(rows)' = Twice(rows)
                  /\ Beyond(Start + listing.limit, rows)' = Beyond(Start + listing.limit, rows)
    BY <1>1, RowsStay
  <1> QED
    BY <1>1, <1>2, <1>3 DEF PageHolds

LEMMA FindKeeps ==
    ASSUME ListingsInv, NEW name, Find(name)
    PROVE  ListingsInv'
  <1>1. /\ walk.pc = "page" /\ walk.page <= MaxPages
        /\ \E rows \in Windows(Start, listing.limit) :
              walk' = [walk EXCEPT !.pc = "look", !.rows = rows]
        /\ listing' = listing /\ table' = table /\ seen' = seen /\ shown' = shown
        /\ steady' = steady /\ events' = events
    BY DEF Find, Ask, Start
  <1>2. PICK rows \in Windows(Start, listing.limit) :
           walk' = [walk EXCEPT !.pc = "look", !.rows = rows]
    BY <1>1
  <1>3. PageHolds(rows)
    BY <1>1, WindowHolds
  <1>4. /\ ListingsTypeOK /\ PagesCounted /\ AsManyShown
    BY DEF ListingsInv
  <1>5. walk \in Walk /\ rows \in SUBSET Items
    BY <1>3, <1>4 DEF ListingsTypeOK, PageHolds
  <1>6. /\ walk' \in Walk /\ walk'.pc = "look" /\ walk'.rows = rows /\ walk'.page = walk.page
    BY <1>2, <1>5 DEF Walk
  <1>7. Start' = Start /\ (Apart' <=> Apart) /\ PageHolds(rows)'
    BY <1>1, <1>3, <1>6, PageStays
  <1>8. ListingsTypeOK' /\ PagesCounted'
    BY <1>1, <1>4, <1>6 DEF ListingsTypeOK, PagesCounted
  <1>9. FewMissed' /\ FewTwice'
    BY <1>6 DEF FewMissed, FewTwice
  <1>10. AsManyShown'
    BY <1>1, <1>4, <1>6, <1>7 DEF AsManyShown
  <1>11. PageFits'
    BY <1>6, <1>7 DEF PageFits
  <1> QED
    BY <1>8, <1>9, <1>10, <1>11 DEF ListingsInv

LEMMA LookAgainKeeps ==
    ASSUME ListingsInv, NEW name, NEW lost, LookAgain(name, lost)
    PROVE  ListingsInv'
  <1>1. walk.pc = "look" /\ PageHolds(walk.rows)
    BY DEF LookAgain, ListingsInv, PageFits
  <1>2. CASE lost = {}
    <2>1. Show(walk.rows) /\ walk.page <= MaxPages
      BY <1>1, <1>2 DEF LookAgain, ListingsInv, PagesCounted
    <2> QED
      BY <1>1, <2>1, ShowKeeps
  <1>3. CASE lost # {}
    <2>1. /\ walk' = [walk EXCEPT !.pc = "refused"]
          /\ listing' = listing /\ table' = table /\ seen' = seen /\ shown' = shown
          /\ steady' = steady /\ events' = events
      BY <1>3 DEF LookAgain
    <2>2. /\ ListingsTypeOK /\ PagesCounted /\ walk \in Walk
      BY DEF ListingsInv, ListingsTypeOK
    <2>3. walk' \in Walk /\ walk'.pc = "refused" /\ walk'.page = walk.page
      BY <2>1, <2>2 DEF Walk
    <2>4. ListingsTypeOK' /\ PagesCounted'
      BY <2>1, <2>2, <2>3 DEF ListingsTypeOK, PagesCounted
    <2>5. FewMissed' /\ FewTwice' /\ AsManyShown' /\ PageFits'
      BY <2>3 DEF FewMissed, FewTwice, AsManyShown, PageFits
    <2> QED
      BY <2>4, <2>5 DEF ListingsInv
  <1> QED
    BY <1>2, <1>3

\* A step that leaves all but the renamed rows alone.
LEMMA RenamedKeeps ==
    ASSUME ListingsInv, walk' \in Walk,
           walk'.pc = walk.pc, walk'.page = walk.page, walk'.rows = walk.rows,
           listing' = listing, table' = table, seen' = seen, shown' = shown,
           steady' = steady, events' = events
    PROVE  ListingsInv'
  <1>1. /\ ListingsTypeOK /\ PagesCounted /\ FewMissed /\ FewTwice /\ AsManyShown /\ PageFits
    BY DEF ListingsInv
  <1>2. /\ Start' = Start /\ (Apart' <=> Apart)
        /\ \A rows : PageHolds(rows)' <=> PageHolds(rows)
    BY PageStays
  <1>3. \A p, rows :
              /\ Missed(p, rows)' = Missed(p, rows) /\ Unmet(rows)' = Unmet(rows)
              /\ Twice(rows)' = Twice(rows) /\ Beyond(p, rows)' = Beyond(p, rows)
    BY RowsStay
  <1>4. ListingsTypeOK' /\ PagesCounted'
    BY <1>1 DEF ListingsTypeOK, PagesCounted
  <1>5. FewMissed' /\ FewTwice'
    BY <1>1, <1>2, <1>3 DEF FewMissed, FewTwice
  <1>6. AsManyShown'
    BY <1>1, <1>2 DEF AsManyShown
  <1>7. PageFits'
    BY <1>1, <1>2 DEF PageFits
  <1> QED
    BY <1>4, <1>5, <1>6, <1>7 DEF ListingsInv

LEMMA RenameRowKeeps ==
    ASSUME ListingsInv, NEW i \in Items, RenameRow(i)
    PROVE  ListingsInv'
  <1>1. /\ walk' = [walk EXCEPT !.renamed = walk.renamed \cup {i}]
        /\ listing' = listing /\ table' = table /\ seen' = seen /\ shown' = shown
        /\ steady' = steady /\ events' = events
    BY DEF RenameRow
  <1>2. walk \in Walk
    BY DEF ListingsInv, ListingsTypeOK
  <1>3. /\ walk' \in Walk /\ walk'.pc = walk.pc /\ walk'.page = walk.page
        /\ walk'.rows = walk.rows
    BY <1>1, <1>2 DEF Walk
  <1> QED
    BY <1>1, <1>3, RenamedKeeps

\* A row comes: no row that stays gets nearer, and at most one that was shown
\* moves beyond the page.
LEMMA AddedMoves ==
    ASSUME ListingsTypeOK, NEW i \in Items, AddRow(i), NEW p \in Nat, NEW rows
    PROVE  /\ Cardinality(Missed(p, rows)') \in Nat
           /\ Cardinality(Missed(p, rows)') <= Cardinality(Missed(p, rows))
           /\ Unmet(rows)' = Unmet(rows) /\ Twice(rows)' = Twice(rows)
           /\ Cardinality(Beyond(p, rows)') \in Nat
           /\ Cardinality(Beyond(p, rows)') <= Cardinality(Beyond(p, rows)) + 1
  <1>1. /\ i \notin table /\ table' = table \cup {i} /\ listing' = listing
        /\ seen' = seen /\ steady' = steady
        /\ table \in SUBSET Items /\ steady \subseteq table
    BY ListingsTypes DEF AddRow
  <1>2. Met(rows)' = Met(rows) /\ Twice(rows)' = Twice(rows)
    BY <1>1 DEF Met, Twice
  <1>3. \A j : Place(table, j)' = Place(table \cup {i}, j)
    BY <1>1 DEF Place, Before, Precedes
  <1>4. \A j : /\ Place(table, j) \in Nat
               /\ \/ Place(table \cup {i}, j) = Place(table, j)
                  \/ Place(table \cup {i}, j) = Place(table, j) + 1
    BY <1>1, PlacesNumber, PlaceWith
  <1>5. Missed(p, rows)' \in SUBSET Missed(p, rows)
    BY <1>1, <1>2, <1>3, <1>4 DEF Missed, Fore
  <1>6. Missed(p, rows) \in SUBSET Items /\ Cardinality(Missed(p, rows)) \in Nat
    BY FewNumbers
  <1>7. Unmet(rows)' = Unmet(rows)
    BY <1>1, <1>2 DEF Unmet
  <1>8. Beyond(p, rows)' = Aft(table \cup {i}, Met(rows), p)
    BY <1>1, <1>2, <1>3 DEF Beyond, Aft
  <1>9. Beyond(p, rows) = Aft(table, Met(rows), p)
    BY DEF Beyond
  <1>10. /\ Cardinality(Beyond(p, rows)') \in Nat
         /\ Cardinality(Beyond(p, rows)') <= Cardinality(Beyond(p, rows)) + 1
    BY <1>1, <1>8, <1>9, OneMovesOn
  <1> QED
    BY <1>2, <1>5, <1>6, <1>7, <1>10, FewerRows, RowsFinite

LEMMA AddRowKeeps ==
    ASSUME ListingsInv, NEW i \in Items, AddRow(i)
    PROVE  ListingsInv'
  <1> DEFINE end == Start + listing.limit
  <1>1. /\ table' = table \cup {i}
        /\ events' = [events EXCEPT !.added = events.added + 1]
        /\ listing' = listing /\ walk' = walk /\ seen' = seen /\ shown' = shown
        /\ steady' = steady /\ walk.pc \in {"page", "look"}
        /\ events.added + events.removed < MaxEvents
    BY DEF AddRow, Walking
  <1>2. /\ ListingsTypeOK /\ PagesCounted /\ FewMissed /\ FewTwice /\ PageFits
        /\ events \in Event /\ table \in SUBSET Items
        /\ Start \in Nat /\ end \in Nat
        /\ events.added \in Nat /\ events.removed \in Nat
    BY ListingsTypes DEF ListingsInv, ListingsTypeOK
  <1>3. MaxEvents \in Nat
    BY ListingsAssumption DEF ListingsAssumption
  <1>4. /\ events' \in Event /\ events'.removed = events.removed
        /\ events'.added = events.added + 1 /\ events'.added # 0
    <2>1. events.added + 1 \in 0 .. MaxEvents
      BY <1>1, <1>2, <1>3
    <2> QED
      BY <1>1, <1>2, <2>1 DEF Event
  <1>5. ListingsTypeOK' /\ PagesCounted'
    BY <1>1, <1>2, <1>4 DEF ListingsTypeOK, PagesCounted
  <1>6. AsManyShown'
    BY <1>4 DEF AsManyShown
  <1>7. Start' = Start /\ end' = end /\ (Apart' <=> Apart)
    BY <1>1 DEF Start, Apart
  <1>8. \A p \in Nat : \A rows :
           /\ Cardinality(Missed(p, rows)) \in Nat /\ Cardinality(Missed(p, rows)') \in Nat
           /\ Cardinality(Missed(p, rows)') <= Cardinality(Missed(p, rows))
           /\ Unmet(rows)' = Unmet(rows) /\ Twice(rows)' = Twice(rows)
           /\ Cardinality(Twice(rows)) \in Nat
           /\ Cardinality(Beyond(p, rows)) \in Nat /\ Cardinality(Beyond(p, rows)') \in Nat
           /\ Cardinality(Beyond(p, rows)') <= Cardinality(Beyond(p, rows)) + 1
    BY <1>2, AddedMoves, FewNumbers
  <1> HIDE DEF end
  <1>9. \A t, b, c, a \in Nat : (t + b <= a /\ c <= b + 1) => t + c <= a + 1
    OBVIOUS
  <1>10. FewMissed' /\ FewTwice'
    <2> SUFFICES ASSUME Apart, walk.pc = "page"
                 PROVE  /\ Cardinality(Missed(Start, {})') <= events.removed
                        /\ Cardinality(Twice({})') + Cardinality(Beyond(Start, {})') <= events.added + 1
      BY <1>1, <1>4, <1>7 DEF FewMissed, FewTwice
    <2>1. /\ Cardinality(Missed(Start, {})) <= events.removed
          /\ Cardinality(Twice({})) + Cardinality(Beyond(Start, {})) <= events.added
      BY <1>2 DEF FewMissed, FewTwice
    <2>2. /\ Cardinality(Missed(Start, {})) \in Nat /\ Cardinality(Missed(Start, {})') \in Nat
          /\ Cardinality(Missed(Start, {})') <= Cardinality(Missed(Start, {}))
          /\ Twice({})' = Twice({}) /\ Cardinality(Twice({})) \in Nat
          /\ Cardinality(Beyond(Start, {})) \in Nat /\ Cardinality(Beyond(Start, {})') \in Nat
          /\ Cardinality(Beyond(Start, {})') <= Cardinality(Beyond(Start, {})) + 1
      BY <1>2, <1>7, <1>8
    <2> QED
      BY <1>2, <1>9, <2>1, <2>2
  <1>11. PageFits'
    <2> DEFINE rows == walk.rows
    <2> SUFFICES ASSUME walk.pc = "look"
                 PROVE  /\ rows \in SUBSET Items
                        /\ Apart =>
                             /\ Cardinality(Missed(end, rows)') <= events.removed
                             /\ Cardinality(rows) < listing.limit =>
                                   Cardinality(Unmet(rows)') <= events.removed
                             /\ Cardinality(Twice(rows)') + Cardinality(Beyond(end, rows)')
                                   <= events.added + 1
      BY <1>1, <1>4, <1>7 DEF PageFits, PageHolds, end
    <2>1. PageHolds(rows)
      BY <1>2 DEF PageFits
    <2>2. /\ Cardinality(Missed(end, rows)) \in Nat /\ Cardinality(Missed(end, rows)') \in Nat
          /\ Cardinality(Missed(end, rows)') <= Cardinality(Missed(end, rows))
          /\ Unmet(rows)' = Unmet(rows)
          /\ Twice(rows)' = Twice(rows) /\ Cardinality(Twice(rows)) \in Nat
          /\ Cardinality(Beyond(end, rows)) \in Nat /\ Cardinality(Beyond(end, rows)') \in Nat
          /\ Cardinality(Beyond(end, rows)') <= Cardinality(Beyond(end, rows)) + 1
      BY <1>1, <1>2, <1>7, <1>8
    <2>3. /\ rows \in SUBSET Items
          /\ Apart =>
               /\ Cardinality(Missed(end, rows)) <= events.removed
               /\ Cardinality(rows) < listing.limit => Cardinality(Unmet(rows)) <= events.removed
               /\ Cardinality(Twice(rows)) + Cardinality(Beyond(end, rows)) <= events.added
      BY <2>1 DEF PageHolds, end
    <2> QED
      BY <1>2, <1>9, <2>2, <2>3
  <1> QED
    BY <1>5, <1>6, <1>10, <1>11 DEF ListingsInv

\* A row goes: at most one row not shown moves before the page, and none that
\* was shown moves beyond it.
LEMMA RemovedMoves ==
    ASSUME ListingsTypeOK, NEW i \in Items, RemoveRow(i), NEW p \in Nat, NEW rows
    PROVE  /\ Cardinality(Missed(p, rows)') \in Nat
           /\ Cardinality(Missed(p, rows)') <= Cardinality(Missed(p, rows)) + 1
           /\ Cardinality(Unmet(rows)') \in Nat
           /\ Cardinality(Unmet(rows)') <= Cardinality(Unmet(rows))
           /\ Twice(rows)' = Twice(rows)
           /\ Cardinality(Beyond(p, rows)') \in Nat
           /\ Cardinality(Beyond(p, rows)') <= Cardinality(Beyond(p, rows))
  <1>1. /\ i \in table /\ table' = table \ {i} /\ listing' = listing
        /\ seen' = seen /\ steady' = steady \ {i}
        /\ table \in SUBSET Items /\ steady \in SUBSET table
    BY ListingsTypes DEF RemoveRow
  <1>2. Met(rows)' = Met(rows) /\ Twice(rows)' = Twice(rows)
    BY <1>1 DEF Met, Twice
  <1>3. \A j : Place(table, j)' = Place(table \ {i}, j)
    BY <1>1 DEF Place, Before, Precedes
  <1>4. \A j : /\ Place(table \ {i}, j) \in Nat
               /\ \/ Place(table, j) = Place(table \ {i}, j)
                  \/ Place(table, j) = Place(table \ {i}, j) + 1
    <2>1. table \ {i} \in SUBSET Items /\ i \in Items \ (table \ {i})
          /\ table = (table \ {i}) \cup {i}
      BY <1>1
    <2> QED
      BY <2>1, PlacesNumber, PlaceWith
  <1>5. Beyond(p, rows)' \in SUBSET Beyond(p, rows)
    <2>1. Beyond(p, rows)' = Aft(table \ {i}, Met(rows), p)
      BY <1>1, <1>2, <1>3 DEF Beyond, Aft
    <2>2. \A j : Place(table \ {i}, j) <= Place(table, j)
      <3>1. \A m, n : (m \in Nat /\ (n = m \/ n = m + 1)) => m <= n
        OBVIOUS
      <3> QED
        BY <1>4, <3>1
    <2>3. \A j \in Aft(table \ {i}, Met(rows), p) : j \in Aft(table, Met(rows), p)
      BY <1>4, <2>2 DEF Aft
    <2> QED
      BY <2>1, <2>3 DEF Beyond
  <1>6. Unmet(rows)' \in SUBSET Unmet(rows)
    BY <1>1, <1>2 DEF Unmet
  <1>7. Beyond(p, rows) \in SUBSET Items /\ Unmet(rows) \in SUBSET Items
    BY FewNumbers
  <1>8. Missed(p, rows)' = Fore(table \ {i}, steady \ {i}, Met(rows), p)
    BY <1>1, <1>2, <1>3 DEF Missed, Fore
  <1>9. Missed(p, rows) = Fore(table, steady, Met(rows), p)
    BY DEF Missed
  <1>10. /\ Cardinality(Missed(p, rows)') \in Nat
         /\ Cardinality(Missed(p, rows)') <= Cardinality(Missed(p, rows)) + 1
    BY <1>1, <1>8, <1>9, OneMovesUp
  <1> QED
    BY <1>2, <1>5, <1>6, <1>7, <1>10, FewerRows, RowsFinite

LEMMA RemoveRowKeeps ==
    ASSUME ListingsInv, NEW i \in Items, RemoveRow(i)
    PROVE  ListingsInv'
  <1> DEFINE end == Start + listing.limit
  <1>1. /\ table' = table \ {i} /\ steady' = steady \ {i}
        /\ events' = [events EXCEPT !.removed = events.removed + 1]
        /\ listing' = listing /\ walk' = walk /\ seen' = seen /\ shown' = shown
        /\ walk.pc \in {"page", "look"}
        /\ events.added + events.removed < MaxEvents
    BY DEF RemoveRow, Walking
  <1>2. /\ ListingsTypeOK /\ PagesCounted /\ FewMissed /\ FewTwice /\ PageFits
        /\ events \in Event /\ table \in SUBSET Items /\ steady \subseteq table
        /\ Start \in Nat /\ end \in Nat
        /\ events.added \in Nat /\ events.removed \in Nat
    BY ListingsTypes DEF ListingsInv, ListingsTypeOK
  <1>3. MaxEvents \in Nat
    BY ListingsAssumption DEF ListingsAssumption
  <1>4. /\ events' \in Event /\ events'.added = events.added
        /\ events'.removed = events.removed + 1 /\ events'.removed # 0
    <2>1. events.removed + 1 \in 0 .. MaxEvents
      BY <1>1, <1>2, <1>3
    <2> QED
      BY <1>1, <1>2, <2>1 DEF Event
  <1>5. ListingsTypeOK' /\ PagesCounted'
    BY <1>1, <1>2, <1>4 DEF ListingsTypeOK, PagesCounted
  <1>6. AsManyShown'
    BY <1>4 DEF AsManyShown
  <1>7. Start' = Start /\ end' = end /\ (Apart' <=> Apart)
    BY <1>1 DEF Start, Apart
  <1>8. \A p \in Nat : \A rows :
           /\ Cardinality(Missed(p, rows)) \in Nat /\ Cardinality(Missed(p, rows)') \in Nat
           /\ Cardinality(Missed(p, rows)') <= Cardinality(Missed(p, rows)) + 1
           /\ Cardinality(Unmet(rows)) \in Nat /\ Cardinality(Unmet(rows)') \in Nat
           /\ Cardinality(Unmet(rows)') <= Cardinality(Unmet(rows))
           /\ Twice(rows)' = Twice(rows) /\ Cardinality(Twice(rows)) \in Nat
           /\ Cardinality(Beyond(p, rows)) \in Nat /\ Cardinality(Beyond(p, rows)') \in Nat
           /\ Cardinality(Beyond(p, rows)') <= Cardinality(Beyond(p, rows))
    BY <1>2, RemovedMoves, FewNumbers
  <1> HIDE DEF end
  <1>9. FewMissed' /\ FewTwice'
    <2> SUFFICES ASSUME Apart, walk.pc = "page"
                 PROVE  /\ Cardinality(Missed(Start, {})') <= events.removed + 1
                        /\ Cardinality(Twice({})') + Cardinality(Beyond(Start, {})') <= events.added
      BY <1>1, <1>4, <1>7 DEF FewMissed, FewTwice
    <2>1. /\ Cardinality(Missed(Start, {})) <= events.removed
          /\ Cardinality(Twice({})) + Cardinality(Beyond(Start, {})) <= events.added
      BY <1>2 DEF FewMissed, FewTwice
    <2>2. /\ Cardinality(Missed(Start, {})) \in Nat /\ Cardinality(Missed(Start, {})') \in Nat
          /\ Cardinality(Missed(Start, {})') <= Cardinality(Missed(Start, {})) + 1
          /\ Twice({})' = Twice({}) /\ Cardinality(Twice({})) \in Nat
          /\ Cardinality(Beyond(Start, {})) \in Nat /\ Cardinality(Beyond(Start, {})') \in Nat
          /\ Cardinality(Beyond(Start, {})') <= Cardinality(Beyond(Start, {}))
      BY <1>2, <1>7, <1>8
    <2> QED
      BY <1>2, <2>1, <2>2
  <1>10. PageFits'
    <2> DEFINE rows == walk.rows
    <2> SUFFICES ASSUME walk.pc = "look"
                 PROVE  /\ rows \in SUBSET Items
                        /\ Apart =>
                             /\ Cardinality(Missed(end, rows)') <= events.removed + 1
                             /\ Cardinality(rows) < listing.limit =>
                                   Cardinality(Unmet(rows)') <= events.removed + 1
                             /\ Cardinality(Twice(rows)') + Cardinality(Beyond(end, rows)')
                                   <= events.added
      BY <1>1, <1>4, <1>7 DEF PageFits, PageHolds, end
    <2>1. PageHolds(rows)
      BY <1>2 DEF PageFits
    <2>2. /\ Cardinality(Missed(end, rows)) \in Nat /\ Cardinality(Missed(end, rows)') \in Nat
          /\ Cardinality(Missed(end, rows)') <= Cardinality(Missed(end, rows)) + 1
          /\ Cardinality(Unmet(rows)) \in Nat /\ Cardinality(Unmet(rows)') \in Nat
          /\ Cardinality(Unmet(rows)') <= Cardinality(Unmet(rows))
          /\ Twice(rows)' = Twice(rows) /\ Cardinality(Twice(rows)) \in Nat
          /\ Cardinality(Beyond(end, rows)) \in Nat /\ Cardinality(Beyond(end, rows)') \in Nat
          /\ Cardinality(Beyond(end, rows)') <= Cardinality(Beyond(end, rows))
      BY <1>1, <1>2, <1>7, <1>8
    <2>3. /\ rows \in SUBSET Items
          /\ Apart =>
               /\ Cardinality(Missed(end, rows)) <= events.removed
               /\ Cardinality(rows) < listing.limit => Cardinality(Unmet(rows)) <= events.removed
               /\ Cardinality(Twice(rows)) + Cardinality(Beyond(end, rows)) <= events.added
      BY <2>1 DEF PageHolds, end
    <2> QED
      BY <1>2, <2>2, <2>3
  <1> QED
    BY <1>5, <1>6, <1>9, <1>10 DEF ListingsInv

LEMMA ListingsInitInv == ListingsInit => ListingsInv
  <1> SUFFICES ASSUME ListingsInit PROVE ListingsInv
    OBVIOUS
  <1>1. /\ listing \in Setting /\ table \in SUBSET Items /\ steady = table
        /\ walk = [pc |-> "page", page |-> 1, rows |-> {}, renamed |-> {}]
        /\ seen = [i \in Items |-> 0] /\ shown = 0
        /\ events = [added |-> 0, removed |-> 0]
    BY DEF ListingsInit
  <1>2. MaxPages \in Nat /\ MaxEvents \in Nat
    BY ListingsAssumption DEF ListingsAssumption
  <1>3. walk.pc = "page" /\ walk.page = 1 /\ walk \in Walk /\ events \in Event
    BY <1>1, <1>2 DEF Walk, Event
  <1>4. ListingsTypeOK
    BY <1>1, <1>2, <1>3 DEF ListingsTypeOK
  <1>5. Start = 0
    BY <1>3 DEF Start, Skip, Page
  <1>6. \A i \in Items : seen[i] = 0
    BY <1>1
  <1>7. \A i \in table : ~(Place(table, i) < 0)
    BY <1>4, ListingsTypes, PlacedAt
  <1>8. PagesCounted
    BY <1>3, <1>6 DEF PagesCounted
  <1>9. Missed(Start, {}) = {} /\ Twice({}) = {} /\ Beyond(Start, {}) = {}
    <2>1. Met({}) = {}
      BY <1>6 DEF Met
    <2> QED
      BY <1>1, <1>5, <1>6, <1>7, <2>1 DEF Missed, Fore, Twice, Beyond, Aft
  <1>10. Cardinality({}) = 0
    BY FS_EmptySet
  <1>11. FewMissed /\ FewTwice
    BY <1>1, <1>3, <1>9, <1>10 DEF FewMissed, FewTwice
  <1>12. AsManyShown
    BY <1>1, <1>3, <1>5, RowsFinite DEF AsManyShown
  <1>13. PageFits
    BY <1>3 DEF PageFits
  <1> QED
    BY <1>4, <1>8, <1>11, <1>12, <1>13 DEF ListingsInv

LEMMA ListingsNextInv == ListingsInv /\ [ListingsNext]_listingVars => ListingsInv'
  <1> SUFFICES ASSUME ListingsInv, [ListingsNext]_listingVars PROVE ListingsInv'
    OBVIOUS
  <1>1. CASE \E name : ShowPage(name)
    BY <1>1, ShowPageKeeps
  <1>2. CASE paginateWebsite
    BY <1>2, FindKeeps, LookAgainKeeps DEF paginateWebsite
  <1>3. CASE getAllSSL
    BY <1>3, FindKeeps, LookAgainKeeps DEF getAllSSL
  <1>4. CASE \E i \in Items : AddRow(i) \/ RemoveRow(i) \/ RenameRow(i)
    BY <1>4, AddRowKeeps, RemoveRowKeeps, RenameRowKeeps
  <1>5. CASE UNCHANGED listingVars
    <2>1. /\ listing' = listing /\ table' = table /\ walk' = walk /\ seen' = seen
          /\ shown' = shown /\ steady' = steady /\ events' = events
      BY <1>5 DEF listingVars
    <2>2. walk' \in Walk
      BY <2>1 DEF ListingsInv, ListingsTypeOK
    <2> QED
      BY <2>1, <2>2, RenamedKeeps
  <1> QED
    BY <1>1, <1>2, <1>3, <1>4, <1>5
       DEF ListingsNext, paginateDomain, paginateBlacklist, paginateWorkspace, paginatedPlan,
           getActivityLog, findAllSubscriberTeam, findAllSubscriberUser, getAllWebsiteAlert,
           getIncidentData, getResolveData, websiteMeasurements, sslMeasurements

LEMMA ListingsInductive == ListingsSpec => []ListingsInv
  BY ListingsInitInv, ListingsNextInv, PTL DEF ListingsSpec

\* The walk, its pages and its history keep their types.
THEOREM ListingsTypeCorrect == ListingsSpec => []ListingsTypeOK
  <1>1. ListingsInv => ListingsTypeOK
    BY DEF ListingsInv
  <1> QED
    BY <1>1, ListingsInductive, PTL

LEMMA WalksHold == ListingsInv => WalkShowsAll /\ TiedWalkShowsAsMany
  <1> SUFFICES ASSUME ListingsInv, walk.pc = "done" PROVE WalkShowsAll /\ TiedWalkShowsAsMany
    BY DEF WalkShowsAll, TiedWalkShowsAsMany
  <1>1. /\ FewMissed /\ FewTwice /\ AsManyShown
        /\ events.added \in Nat /\ events.removed \in Nat
        /\ steady \subseteq Items /\ \A i \in Items : seen[i] \in Nat
    BY ListingsTypes DEF ListingsInv
  <1>2. WalkShowsAll
    <2>1. {i \in steady : seen[i] = 0} = Unmet({})
      <3>1. \A i \in steady : i \in Met({}) <=> seen[i] # 0
        BY <1>1 DEF Met
      <3> QED
        BY <3>1 DEF Unmet
    <2>2. {i \in Items : seen[i] > 1} = Twice({})
      BY DEF Twice
    <2> QED
      BY <1>1, <2>1, <2>2 DEF FewMissed, FewTwice, WalkShowsAll, Apart
  <1>3. TiedWalkShowsAsMany
    <2>1. events.added + events.removed = 0 => events.added = 0 /\ events.removed = 0
      BY <1>1
    <2> QED
      BY <1>1, <2>1 DEF AsManyShown, TiedWalkShowsAsMany
  <1> QED
    BY <1>2, <1>3

\* All paginated listings, page by page: no more of the rows that stay are
\* missed than rows were removed, no more shown twice than rows were added.
THEOREM WalksShowAll == ListingsSpec => []WalkShowsAll
  BY WalksHold, ListingsInductive, PTL

\* All paginated listings, in any order: an undisturbed walk is shown as many
\* rows as there are.
THEOREM TiedWalksShowAsMany == ListingsSpec => []TiedWalkShowsAsMany
  BY WalksHold, ListingsInductive, PTL
=============================================================================
