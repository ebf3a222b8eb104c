----------------------- MODULE DocumentNumberingProofs -----------------------
(***************************************************************************)
(* Proofs about DocumentNumbering, for any callers, types of documents,    *)
(* calls, connections and changes of rules by hand.                        *)
(***************************************************************************)
EXTENDS DocumentNumbering, SumTheorems

-----------------------------------------------------------------------------
\* A caller that has its rule.
Numbering == {"number", "insert", "inner", "check", "save", "saved"}

\* A number that goes back with the transaction it was taken in.
Pending(c) == Mode(c) = "lent" /\ pc[c] # "saved"

(* A rule is used once it is made, or by the transaction that makes it.    *)
RulesMade ==
    /\ \A t \in Types : creating[t] # None =>
          /\ TypeOf(creating[t]) = t /\ Mode(creating[t]) = "lent"
          /\ pc[creating[t]] \in {"number", "insert", "check", "save"}
          /\ rule[creating[t]] = NewRule(t, "org") /\ made[<<t, "org">>] < MaxGen
          /\ t \notin Branched
    /\ \A c \in Callers : pc[c] \in Numbering =>
          /\ rule[c] \in Rules /\ rule[c][1] = TypeOf(c)
          /\ rule[c][3] <= made[<<TypeOf(c), rule[c][2]>>] \/ creating[TypeOf(c)] = c
    /\ \A c \in Callers : pc[c] = "ensure" => TypeOf(c) \in Branched

(* A number taken in a lent transaction is beyond the committed counter     *)
(* and the counter's row is locked; any other is within it.                *)
Locks ==
    \A r \in Rules : lock[r] # None =>
        /\ Mode(lock[r]) = "lent" /\ rule[lock[r]] = r
        /\ pc[lock[r]] \in {"number", "check", "save"}
        /\ got[lock[r]] > Value(counter[r])
        /\ \A n \in Nat : n > Value(counter[r]) /\ n <= got[lock[r]]
               => n \in jumped[lock[r]] \/ (n = got[lock[r]] /\ pc[lock[r]] # "number")

LentHolders ==
    \A c \in Callers : pc[c] \in {"check", "save"} /\ Mode(c) = "lent" => lock[rule[c]] = c

Committed ==
    \A c \in Callers : Holds(c) /\ ~Pending(c) => got[c] > 0 /\ got[c] <= counter[rule[c]]

\* A caller that goes on has tries left, a lent transaction needs no other, and
\* only so many codes were imported.
Limits ==
    /\ \A c \in Callers : pc[c] # "failed" => tries[c] < MaxAttempts
    /\ \A c \in Callers : pc[c] = "inner" => Mode(c) # "lent"
    /\ \A c \in Callers : pc[c] = "insert" => Mode(c) = "lent"
    /\ \A t \in Types : IsFiniteSet(imported[t])

(* While nobody changes a rule by hand a type has one rule, its branch's or *)
(* the organisation's, and a branch's counter begins where the shared one   *)
(* stands.                                                                 *)
FirstRule(t) == <<t, IF t \in Branched THEN "branch" ELSE "org", 1>>

FirstRules ==
    /\ \A t \in Types, s \in Scopes : active[<<t, s>>] = made[<<t, s>>] /\ made[<<t, s>>] <= 1
    /\ \A t \in Types : creating[t] # None => made[<<t, "org">>] = 0
    /\ \A t \in Types \ Branched : made[<<t, "branch">>] = 0
    /\ \A t \in Branched : /\ Value(counter[<<t, "org", 1>>]) = Shared[t]
                           /\ made[<<t, "branch">>] = 1 => counter[<<t, "branch", 1>>] >= Shared[t]
    /\ \A c \in Callers :
          /\ pc[c] \notin {"idle", "ensure", "failed"} /\ TypeOf(c) \in Branched
                 => made[<<TypeOf(c), "branch">>] = 1
          /\ pc[c] \in Numbering => rule[c] = FirstRule(TypeOf(c))
          /\ Holds(c) /\ TypeOf(c) \in Branched => got[c] > Shared[TypeOf(c)]

NestedIn == {d \in InTransaction : Mode(d) = "nested"}

NumberingInv ==
    /\ NumberingTypeOK
    /\ Limits
    /\ RulesMade
    /\ Locks
    /\ LentHolders
    /\ Committed
    /\ NumbersUnique
    /\ GapsAreBurned
    /\ ruleChanges = 0 => FirstRules
    /\ Cardinality(NestedIn) <= MaxNested

-----------------------------------------------------------------------------
(* The constants, and the rules as triples. *)
LEMMA Parameters ==
    /\ None \notin Callers /\ IsFiniteSet(Callers)
    /\ MaxGen \in Nat /\ MaxGen > 0 /\ MaxAttempts \in Nat /\ MaxAttempts > 0 /\ MaxNested \in Nat
    /\ \A t \in Types : Shared[t] \in Nat
    /\ Branched \subseteq Types /\ Coded \subseteq Types
    /\ \A t \in Coded : t \notin Branched
    /\ \A k \in Kinds : k.type \in Types /\ k.mode \in {"lent", "plain", "nested"}
    /\ NoKind \notin Kinds
    /\ \A t \in Types, s \in Scopes : <<t, s>> \in Types \X Scopes
    /\ "org" \in Scopes /\ "branch" \in Scopes /\ "org" # "branch"
  BY NumberingAssumption DEF NoKind, Scopes

(* A rule is a type, a scope and a generation, and NoRule is none.         *)
LEMMA RuleIs ==
    /\ \A t \in Types, s \in Scopes : \A k \in 1 .. MaxGen :
          /\ <<t, s, k>> \in Rules
          /\ <<t, s, k>>[1] = t /\ <<t, s, k>>[2] = s /\ <<t, s, k>>[3] = k
    /\ \A r \in Rules : /\ r[1] \in Types /\ r[2] \in Scopes /\ r[3] \in 1 .. MaxGen
                        /\ r = <<r[1], r[2], r[3]>>
    /\ NoRule \notin Rules
<1>1. NoRule \notin Rules
  <2>1. NoRule[3] = 0
    BY DEF NoRule
  <2>2. \A r \in Rules : r[3] \in 1 .. MaxGen
    BY DEF Rules
  <2> QED
    BY <2>1, <2>2, Parameters
<1> QED
  BY <1>1 DEF Rules

(* Two rules are the same when their parts are. *)
LEMMA SameRule ==
    ASSUME NEW r \in Rules, NEW t, NEW s, NEW k
    PROVE  r = <<t, s, k>> <=> r[1] = t /\ r[2] = s /\ r[3] = k
  BY RuleIs

(* A finite set of numbers has a highest one. *)
LEMMA HighestIs ==
    ASSUME NEW S, IsFiniteSet(S), S \subseteq Nat, S # {}
    PROVE  Highest(S) \in S /\ \A m \in S : m <= Highest(S)
<1>1. \E n \in S : \A m \in S : m <= n
  BY HasHighest
<1> QED
  BY <1>1 DEF Highest

(* The codes there are, finitely many. *)
LEMMA TakenIs ==
    ASSUME NumberingTypeOK, Limits, NEW t \in Types
    PROVE  IsFiniteSet(Taken(t)) /\ Taken(t) \subseteq Nat
<1> DEFINE D == {e \in Callers : TypeOf(e) = t /\ pc[e] = "saved"}
           f == [d \in D |-> got[d]]
           I == {got[d] : d \in D}
<1>1. IsFiniteSet(D)
  BY Parameters, FS_Subset
<1>2. f \in Surjection(D, I)
  BY DEF Surjection
<1>3. IsFiniteSet(I)
  <2> HIDE DEF D, f, I
  <2> QED
    BY <1>1, <1>2, FS_Surjection
<1>4. I \subseteq Nat /\ imported[t] \subseteq Nat /\ IsFiniteSet(imported[t])
  BY DEF NumberingTypeOK, Limits
<1>5. Taken(t) = imported[t] \cup I
  BY DEF Taken
<1> HIDE DEF I
<1> QED
  BY <1>3, <1>4, <1>5, FS_Union

-----------------------------------------------------------------------------
(* What the type invariant says of one caller and of one rule. *)
LEMMA CallerType ==
    ASSUME NumberingTypeOK, NEW c \in Callers
    PROVE  /\ pc[c] \in {"idle", "ensure", "begin", "resolve", "number", "insert",
                         "inner", "check", "save", "saved", "failed"}
           /\ pc[c] # "idle" => TypeOf(c) \in Types /\ Mode(c) \in {"lent", "plain", "nested"}
           /\ pc[c] = "idle" => Mode(c) = "none"
           /\ got[c] \in Nat /\ tries[c] \in 0 .. MaxAttempts /\ jumped[c] \subseteq Nat
           /\ snap[c] \in Nat \cup {NoRow}
<1>1. pc[c] = "idle" <=> kind[c] = NoKind
  BY DEF NumberingTypeOK
<1>2. kind[c] \in Kinds \cup {NoKind}
  BY DEF NumberingTypeOK
<1>3. pc[c] # "idle" => TypeOf(c) \in Types /\ Mode(c) \in {"lent", "plain", "nested"}
  BY <1>1, <1>2, Parameters DEF TypeOf, Mode
<1>4. pc[c] = "idle" => Mode(c) = "none"
  BY <1>1 DEF Mode, NoKind
<1> QED
  BY <1>3, <1>4 DEF NumberingTypeOK

(* A counter, its row being there or not, has a value.                     *)
LEMMA CounterType ==
    ASSUME NumberingTypeOK, NEW r \in Rules
    PROVE  /\ counter[r] \in Nat \cup {NoRow} /\ Value(counter[r]) \in Nat /\ counter[r] \in Int
           /\ counter[r] <= Value(counter[r])
           /\ counter[r] > 0 => counter[r] = Value(counter[r])
  BY DEF NumberingTypeOK, Value, NoRow

\* A step leaves a caller alone.
Same(d) ==
    /\ pc'[d] = pc[d] /\ kind'[d] = kind[d] /\ rule'[d] = rule[d] /\ got'[d] = got[d]
    /\ tries'[d] = tries[d] /\ jumped'[d] = jumped[d]

(* A step of a caller that neither holds a number nor comes to hold one, and *)
(* of no counter, leaves all numbers where they are.                       *)
LEMMA NumbersKept ==
    ASSUME NumberingInv, NEW c \in Callers, \A d \in Callers \ {c} : Same(d),
           UNCHANGED <<counter, lock, skipped>>,
           pc[c] \notin {"check", "save", "saved", "failed"},
           pc'[c] \notin {"check", "save", "saved"},
           \A r \in Rules : lock[r] # c
    PROVE  Locks' /\ LentHolders' /\ Committed' /\ NumbersUnique' /\ GapsAreBurned'
<1>1. \A r \in Rules : lock[r] \in Callers \cup {None}
  BY DEF NumberingInv, NumberingTypeOK
<1>2. Locks'
  <2> SUFFICES ASSUME NEW r \in Rules, lock[r] # None
               PROVE  (/\ Mode(lock[r]) = "lent" /\ rule[lock[r]] = r
                       /\ pc[lock[r]] \in {"number", "check", "save"}
                       /\ got[lock[r]] > Value(counter[r])
                       /\ \A n \in Nat : n > Value(counter[r]) /\ n <= got[lock[r]]
                             => n \in jumped[lock[r]] \/ (n = got[lock[r]] /\ pc[lock[r]] # "number"))'
    BY DEF Locks
  <2>1. lock[r] \in Callers \ {c} /\ lock'[r] = lock[r] /\ Value(counter[r])' = Value(counter[r])
    BY <1>1 DEF Value
  <2>2. Same(lock[r])
    BY <2>1
  <2> QED
    BY <2>1, <2>2 DEF NumberingInv, Locks, Same, Mode
<1>3. LentHolders'
  BY DEF NumberingInv, LentHolders, Same, Mode
<1>4. Committed'
  BY DEF NumberingInv, Committed, Same, Mode, Holds, Pending
<1>5. NumbersUnique'
  BY DEF NumberingInv, NumbersUnique, Same, Holds
<1>6. GapsAreBurned'
  <2> SUFFICES ASSUME NEW r \in Rules, NEW n \in 1 .. counter[r], n \notin skipped[r]
               PROVE  \E d \in Callers :
                         /\ rule'[d] = r /\ got'[d] = n
                         /\ pc'[d] \in (IF Mode(d)' = "lent" THEN {"saved"} ELSE {"check", "save"} \cup Ended)
    BY DEF GapsAreBurned
  <2>1. PICK d \in Callers :
            /\ rule[d] = r /\ got[d] = n
            /\ pc[d] \in (IF Mode(d) = "lent" THEN {"saved"} ELSE {"check", "save"} \cup Ended)
    BY DEF NumberingInv, GapsAreBurned
  <2>2. d # c
    BY <2>1 DEF Ended
  <2> QED
    BY <2>1, <2>2 DEF Same, Mode
<1> QED
  BY <1>2, <1>3, <1>4, <1>5, <1>6

(* A step that makes no rule and gives no caller another keeps to the rules *)
(* there are.                                                              *)
LEMMA RulesKept ==
    ASSUME NumberingInv, NEW c \in Callers, \A d \in Callers \ {c} : Same(d), made' = made,
           pc'[c] \in Numbering => pc[c] \in Numbering,
           pc[c] \in Numbering => kind'[c] = kind[c] /\ rule'[c] = rule[c],
           pc'[c] = "ensure" => TypeOf(c)' \in Branched,
           \A t \in Types : \/ creating'[t] = creating[t]
                            \/ creating[t] = c /\ creating'[t] = None /\ pc'[c] \notin Numbering,
           \/ pc'[c] \in {"number", "insert", "check", "save"}
           \/ \A t \in Types : creating'[t] # c
    PROVE  RulesMade'
<1>1. \A t \in Types : creating[t] \in Callers \cup {None}
  BY DEF NumberingInv, NumberingTypeOK
<1>2. ASSUME NEW t \in Types, creating'[t] # None
      PROVE  /\ TypeOf(creating[t])' = t /\ Mode(creating[t])' = "lent"
             /\ pc'[creating'[t]] \in {"number", "insert", "check", "save"}
             /\ rule'[creating'[t]] = NewRule(t, "org")' /\ made'[<<t, "org">>] < MaxGen
             /\ t \notin Branched
  <2>0. creating'[t] = creating[t] /\ creating[t] # None /\ creating[t] \in Callers
    BY <1>1, <1>2
  <2>1. /\ TypeOf(creating[t]) = t /\ Mode(creating[t]) = "lent"
        /\ pc[creating[t]] \in {"number", "insert", "check", "save"}
        /\ rule[creating[t]] = NewRule(t, "org") /\ made[<<t, "org">>] < MaxGen
        /\ t \notin Branched
    BY <2>0 DEF NumberingInv, RulesMade
  <2>2. NewRule(t, "org")' = NewRule(t, "org")
    BY DEF NewRule
  <2>3. CASE creating[t] = c
    <3>1. pc[c] \in Numbering
      BY <2>1, <2>3 DEF Numbering
    <3>2. kind'[c] = kind[c] /\ rule'[c] = rule[c] /\ pc'[c] \in {"number", "insert", "check", "save"}
      BY <2>0, <2>3, <3>1
    <3> QED
      BY <2>0, <2>1, <2>2, <2>3, <3>2 DEF TypeOf, Mode
  <2>4. CASE creating[t] # c
    <3>1. Same(creating[t])
      BY <2>0, <2>4
    <3> QED
      BY <2>0, <2>1, <2>2, <3>1 DEF TypeOf, Mode, Same
  <2> QED
    BY <2>3, <2>4
<1>3. ASSUME NEW d \in Callers
      PROVE  /\ pc'[d] \in Numbering =>
                    /\ rule'[d] \in Rules /\ rule'[d][1] = TypeOf(d)'
                    /\ rule'[d][3] <= made'[<<TypeOf(d)', rule'[d][2]>>] \/ creating'[TypeOf(d)'] = d
             /\ pc'[d] = "ensure" => TypeOf(d)' \in Branched
  <2>1. pc'[d] \in Numbering => pc[d] \in Numbering /\ kind'[d] = kind[d] /\ rule'[d] = rule[d]
    BY DEF Same
  <2>2. pc'[d] = "ensure" => TypeOf(d)' \in Branched
    BY DEF Same, NumberingInv, RulesMade, TypeOf
  <2>3. ASSUME pc'[d] \in Numbering
        PROVE  /\ rule[d] \in Rules /\ rule[d][1] = TypeOf(d) /\ TypeOf(d)' = TypeOf(d)
               /\ rule[d][3] <= made[<<TypeOf(d), rule[d][2]>>] \/ creating[TypeOf(d)] = d
               /\ TypeOf(d) \in Types
    <3>1. pc[d] \in Numbering /\ kind'[d] = kind[d]
      BY <2>1, <2>3
    <3>2. rule[d] \in Rules /\ rule[d][1] = TypeOf(d)
      BY <3>1 DEF NumberingInv, RulesMade
    <3> QED
      BY <3>1, <3>2, RuleIs DEF NumberingInv, RulesMade, TypeOf
  <2>4. ASSUME pc'[d] \in Numbering PROVE creating[TypeOf(d)] = d => creating'[TypeOf(d)] = d
    BY <2>3, <2>4
  <2> QED
    BY <2>1, <2>2, <2>3, <2>4
<1> QED
  BY <1>2, <1>3 DEF RulesMade, TypeOf, Mode

(* A step that makes no rule, gives no caller another and only raises the   *)
(* counter of its caller's rule keeps to the first rules.                  *)
LEMMA FirstKept ==
    ASSUME NumberingInv, NEW c \in Callers, \A d \in Callers \ {c} : Same(d),
           UNCHANGED <<active, made, ruleChanges>>,
           pc'[c] \in Numbering => pc[c] \in Numbering,
           pc[c] \in Numbering => kind'[c] = kind[c] /\ rule'[c] = rule[c],
           ruleChanges = 0 /\ FirstRules =>
              /\ pc'[c] \notin {"idle", "ensure", "failed"} /\ TypeOf(c)' \in Branched
                     => made[<<TypeOf(c)', "branch">>] = 1
              /\ Holds(c)' /\ TypeOf(c)' \in Branched => got'[c] > Shared[TypeOf(c)'],
           \A t \in Types : creating'[t] = creating[t] \/ creating'[t] = None,
           \A r \in Rules : \/ counter'[r] = counter[r]
                            \/ r = rule[c] /\ pc[c] \in Numbering /\ counter'[r] >= counter[r]
                               /\ counter'[r] \in Int
    PROVE  ruleChanges' = 0 => FirstRules'
<1> SUFFICES ASSUME ruleChanges = 0 PROVE FirstRules'
  OBVIOUS
<1>1. FirstRules
  BY DEF NumberingInv
<1>2. \A t \in Types, s \in Scopes : active'[<<t, s>>] = made'[<<t, s>>] /\ made'[<<t, s>>] <= 1
  BY <1>1 DEF FirstRules
<1>3. \A t \in Types : creating'[t] # None => made'[<<t, "org">>] = 0
  BY <1>1 DEF FirstRules
<1>4. \A t \in Types \ Branched : made'[<<t, "branch">>] = 0
  BY <1>1 DEF FirstRules
<1>5. ASSUME NEW t \in Branched
      PROVE  /\ Value(counter[<<t, "org", 1>>])' = Shared[t]
             /\ made'[<<t, "branch">>] = 1 => counter'[<<t, "branch", 1>>] >= Shared[t]
  <2>1. <<t, "org", 1>> \in Rules /\ <<t, "branch", 1>> \in Rules
    BY RuleIs, Parameters
  <2>2. counter'[<<t, "org", 1>>] = counter[<<t, "org", 1>>]
    <3>1. ASSUME pc[c] \in Numbering, <<t, "org", 1>> = rule[c] PROVE FALSE
      <4>1. rule[c] = <<TypeOf(c), IF TypeOf(c) \in Branched THEN "branch" ELSE "org", 1>>
        BY <1>1, <3>1 DEF FirstRules, FirstRule
      <4>2. TypeOf(c) = t
        BY <3>1, <4>1
      <4>3. rule[c] = <<t, "branch", 1>>
        BY <4>1, <4>2
      <4> QED
        BY <3>1, <4>3
    <3> QED
      BY <2>1, <3>1
  <2>3. counter'[<<t, "branch", 1>>] >= counter[<<t, "branch", 1>>] /\ counter'[<<t, "branch", 1>>] \in Int
        /\ counter[<<t, "branch", 1>>] \in Int
    BY <2>1, CounterType DEF NumberingInv
  <2>4. made[<<t, "branch">>] = 1 => counter[<<t, "branch", 1>>] >= Shared[t]
    BY <1>1 DEF FirstRules
  <2>5. Value(counter[<<t, "org", 1>>]) = Shared[t] /\ Shared[t] \in Nat
    BY <1>1, Parameters DEF FirstRules
  <2> QED
    BY <2>2, <2>3, <2>4, <2>5 DEF Value
<1>6. ASSUME NEW d \in Callers
      PROVE  /\ pc'[d] \notin {"idle", "ensure", "failed"} /\ TypeOf(d)' \in Branched
                    => made'[<<TypeOf(d)', "branch">>] = 1
             /\ pc'[d] \in Numbering => rule'[d] = FirstRule(TypeOf(d)')
             /\ Holds(d)' /\ TypeOf(d)' \in Branched => got'[d] > Shared[TypeOf(d)']
  <2>1. CASE d = c
    <3>1. pc'[c] \in Numbering => rule'[c] = FirstRule(TypeOf(c)')
      BY <1>1 DEF FirstRules, TypeOf
    <3> QED
      BY <1>1, <2>1, <3>1
  <2>2. CASE d # c
    <3>1. Same(d)
      BY <2>2
    <3> QED
      BY <1>1, <3>1 DEF FirstRules, Same, TypeOf, Holds
  <2> QED
    BY <2>1, <2>2
<1> QED
  BY <1>2, <1>3, <1>4, <1>5, <1>6 DEF FirstRules

(* Only a call that starts can bring one more transaction that is not lent. *)
LEMMA NestedKept ==
    ASSUME NumberingInv, kind' = kind,
           \A d \in Callers : pc'[d] \notin Ended \cup {"idle"} => pc[d] \notin Ended \cup {"idle"}
    PROVE  (Cardinality(NestedIn) <= MaxNested)'
<1> DEFINE A == NestedIn
           B == NestedIn'
<1>1. A \subseteq Callers /\ B \subseteq A
  BY DEF NestedIn, InTransaction, Mode
<1>2. IsFiniteSet(A)
  BY <1>1, Parameters, FS_Subset
<1>3. Cardinality(A) <= MaxNested
  BY DEF NumberingInv
<1> HIDE DEF A, B
<1>4. Cardinality(B) <= Cardinality(A) /\ IsFiniteSet(B)
  BY <1>1, <1>2, FS_Subset
<1>5. Cardinality(A) \in Nat /\ Cardinality(B) \in Nat
  BY <1>2, <1>4, FS_CardinalityType
<1>6. Cardinality(B) <= MaxNested
  BY <1>3, <1>4, <1>5, Parameters
<1> QED
  BY <1>6 DEF B

-----------------------------------------------------------------------------
(* A caller moves on, and nothing else changes but its tries.              *)
LEMMA MoveKeeps ==
    ASSUME NumberingInv, NEW c \in Callers,
           pc[c] \in {"ensure", "begin", "resolve", "number", "inner"},
           pc'[c] \in {"begin", "resolve", "number", "insert", "inner"},
           pc' = [pc EXCEPT ![c] = pc'[c]],
           snap' \in [Callers -> Nat \cup {NoRow}], tries' \in [Callers -> 0 .. MaxAttempts],
           tries'[c] < MaxAttempts, \A d \in Callers \ {c} : tries'[d] = tries[d],
           UNCHANGED <<ruleVars, counter, lock, kind, rule, got, jumped, skipped, imported>>,
           pc'[c] \in Numbering => pc[c] \in Numbering,
           (pc'[c] = "inner" => Mode(c) # "lent") /\ (pc'[c] = "insert" => Mode(c) = "lent"),
           \A r \in Rules : lock[r] # c,
           pc'[c] \in {"number", "insert"} \/ \A t \in Types : creating[t] # c,
           ruleChanges = 0 /\ FirstRules /\ TypeOf(c) \in Branched => made[<<TypeOf(c), "branch">>] = 1
    PROVE  NumberingInv'
<1>1. \A d \in Callers \ {c} : pc'[d] = pc[d]
  BY DEF NumberingInv, NumberingTypeOK
<1>2. \A d \in Callers \ {c} : Same(d)
  BY <1>1 DEF Same
<1>3. NumberingTypeOK'
  <2>1. pc' \in [Callers -> {"idle", "ensure", "begin", "resolve", "number", "insert",
                            "inner", "check", "save", "saved", "failed"}]
    <3>1. pc'[c] \in {"idle", "ensure", "begin", "resolve", "number", "insert",
                     "inner", "check", "save", "saved", "failed"}
      OBVIOUS
    <3> QED
      BY <3>1 DEF NumberingInv, NumberingTypeOK
  <2>2. \A d \in Callers : pc'[d] = "idle" <=> kind'[d] = NoKind
    BY <1>1 DEF NumberingInv, NumberingTypeOK
  <2> QED
    BY <2>1, <2>2 DEF NumberingInv, NumberingTypeOK, ruleVars
<1>4. Limits'
  <2>1. \A d \in Callers : pc'[d] # "failed" => tries'[d] < MaxAttempts
    BY <1>1 DEF NumberingInv, Limits
  <2>2. \A d \in Callers : pc'[d] = "inner" => Mode(d)' # "lent"
    BY <1>1 DEF NumberingInv, Limits, Mode
  <2>3. \A d \in Callers : pc'[d] = "insert" => Mode(d)' = "lent"
    BY <1>1 DEF NumberingInv, Limits, Mode
  <2> QED
    BY <2>1, <2>2, <2>3 DEF NumberingInv, Limits
<1>5. Locks' /\ LentHolders' /\ Committed' /\ NumbersUnique' /\ GapsAreBurned'
  BY <1>1, <1>2, NumbersKept
<1>6. RulesMade'
  <2>1. pc'[c] # "ensure" /\ made' = made /\ creating' = creating
        /\ (pc'[c] \in {"number", "insert", "check", "save"} \/ \A t \in Types : creating'[t] # c)
    BY <1>1 DEF ruleVars
  <2> QED
    BY <1>1, <1>2, <2>1, RulesKept
<1>7. ruleChanges' = 0 => FirstRules'
  <2>1. ~Holds(c)' /\ TypeOf(c)' = TypeOf(c)
    BY <1>1 DEF Holds, TypeOf
  <2> QED
    BY <1>1, <1>2, <2>1, FirstKept DEF ruleVars
<1>8. (Cardinality(NestedIn) <= MaxNested)'
  <2>1. \A d \in Callers : pc'[d] \notin Ended \cup {"idle"} => pc[d] \notin Ended \cup {"idle"}
    BY <1>1 DEF Ended
  <2> QED
    BY <2>1, NestedKept
<1> QED
  BY <1>3, <1>4, <1>5, <1>6, <1>7, <1>8 DEF NumberingInv

(* Who holds a counter's row, or makes a rule, and who cannot. *)
LEMMA NotHolding ==
    ASSUME NumberingInv, NEW c \in Callers
    PROVE  /\ pc[c] \notin {"number", "check", "save"} \/ Mode(c) # "lent" => \A r \in Rules : lock[r] # c
           /\ pc[c] \notin {"number", "insert", "check", "save"} \/ Mode(c) # "lent"
                  => \A t \in Types : creating[t] # c
           /\ \A r \in Rules : lock[r] = c => rule[c] = r
<1>1. None # c
  BY Parameters
<1>2. ASSUME NEW r \in Rules, lock[r] = c
      PROVE  pc[c] \in {"number", "check", "save"} /\ Mode(c) = "lent" /\ rule[c] = r
  BY <1>1, <1>2 DEF NumberingInv, Locks
<1>3. ASSUME NEW t \in Types, creating[t] = c
      PROVE  pc[c] \in {"number", "insert", "check", "save"} /\ Mode(c) = "lent"
  BY <1>1, <1>3 DEF NumberingInv, RulesMade
<1> QED
  BY <1>2, <1>3

(* Opening the transaction that will be lent mints nothing.                *)
LEMMA BeginKeeps ==
    ASSUME NumberingInv, NEW c \in Callers, Begin(c)
    PROVE  NumberingInv'
<1>1. pc[c] = "begin" /\ pc' = [pc EXCEPT ![c] = "resolve"]
      /\ UNCHANGED <<ruleVars, counter, lock, kind, rule, got, snap, tries, jumped, skipped, imported>>
  BY DEF Begin, Goto
<1>2. ruleChanges = 0 /\ FirstRules /\ TypeOf(c) \in Branched => made[<<TypeOf(c), "branch">>] = 1
  BY <1>1 DEF FirstRules
<1>3. /\ snap' \in [Callers -> Nat \cup {NoRow}] /\ tries' \in [Callers -> 0 .. MaxAttempts]
      /\ tries'[c] < MaxAttempts
      /\ pc'[c] = "resolve" /\ pc' = [pc EXCEPT ![c] = pc'[c]]
  BY <1>1 DEF NumberingInv, NumberingTypeOK, Limits
<1>4. (\A r \in Rules : lock[r] # c) /\ (\A t \in Types : creating[t] # c)
  BY <1>1, NotHolding
<1> QED
  BY <1>1, <1>2, <1>3, <1>4, MoveKeeps DEF Numbering

(* A caller fails: its locks and its uncommitted rule are gone, and a number *)
(* that was committed is left to it for good.                              *)
LEMMA FailKeeps ==
    ASSUME NumberingInv, NEW c \in Callers, pc[c] \notin Ended \cup {"idle"},
           pc' = [pc EXCEPT ![c] = "failed"],
           tries' \in [Callers -> 0 .. MaxAttempts], \A d \in Callers \ {c} : tries'[d] = tries[d],
           lock' = [r \in Rules |-> IF lock[r] = c THEN None ELSE lock[r]],
           creating' = [t \in Types |-> IF creating[t] = c THEN None ELSE creating[t]],
           UNCHANGED <<active, made, ruleChanges, counter, kind, rule, got, snap, jumped, skipped, imported>>
    PROVE  NumberingInv'
<1>1. pc'[c] = "failed" /\ \A d \in Callers \ {c} : pc'[d] = pc[d]
  BY DEF NumberingInv, NumberingTypeOK
<1>2. \A d \in Callers \ {c} : Same(d)
  BY <1>1 DEF Same
<1>3. NumberingTypeOK'
  <2>1. lock' \in [Rules -> Callers \cup {None}] /\ creating' \in [Types -> Callers \cup {None}]
    BY DEF NumberingInv, NumberingTypeOK
  <2>2. \A d \in Callers : pc'[d] = "idle" <=> kind'[d] = NoKind
    <3>1. pc[c] # "idle"
      BY DEF Ended
    <3> QED
      BY <1>1, <3>1 DEF NumberingInv, NumberingTypeOK
  <2>3. pc' \in [Callers -> {"idle", "ensure", "begin", "resolve", "number", "insert",
                           "inner", "check", "save", "saved", "failed"}]
    BY DEF NumberingInv, NumberingTypeOK
  <2> QED
    BY <2>1, <2>2, <2>3 DEF NumberingInv, NumberingTypeOK
<1>4. Limits'
  BY <1>1 DEF NumberingInv, Limits, Mode
<1>5. Locks'
  <2> SUFFICES ASSUME NEW r \in Rules, lock'[r] # None
               PROVE  (/\ Mode(lock[r]) = "lent" /\ rule[lock[r]] = r
                       /\ pc[lock[r]] \in {"number", "check", "save"}
                       /\ got[lock[r]] > Value(counter[r])
                       /\ \A n \in Nat : n > Value(counter[r]) /\ n <= got[lock[r]]
                             => n \in jumped[lock[r]] \/ (n = got[lock[r]] /\ pc[lock[r]] # "number"))'
    BY DEF Locks
  <2>1. lock[r] \in Callers \ {c} /\ lock'[r] = lock[r] /\ lock[r] # None
        /\ Value(counter[r])' = Value(counter[r])
    BY DEF Value, NumberingInv, NumberingTypeOK
  <2>2. Same(lock[r])
    BY <1>2, <2>1
  <2> QED
    BY <2>1, <2>2 DEF NumberingInv, Locks, Same, Mode
<1>6. LentHolders'
  <2> SUFFICES ASSUME NEW d \in Callers, pc'[d] \in {"check", "save"}, Mode(d)' = "lent"
               PROVE  lock'[rule'[d]] = d
    BY DEF LentHolders
  <2>1. d # c /\ pc[d] \in {"check", "save"} /\ Mode(d) = "lent" /\ rule'[d] = rule[d]
    BY <1>1 DEF Mode
  <2>2. lock[rule[d]] = d /\ rule[d] \in Rules
    BY <2>1 DEF NumberingInv, LentHolders, RulesMade, Numbering
  <2> QED
    BY <2>1, <2>2
<1>7. Committed'
  BY <1>1 DEF NumberingInv, Committed, Mode, Holds, Pending
<1>8. NumbersUnique'
  BY <1>1 DEF NumberingInv, NumbersUnique, Holds
<1>9. GapsAreBurned'
  <2> SUFFICES ASSUME NEW r \in Rules, NEW n \in 1 .. counter[r], n \notin skipped[r]
               PROVE  \E d \in Callers :
                         /\ rule'[d] = r /\ got'[d] = n
                         /\ pc'[d] \in (IF Mode(d)' = "lent" THEN {"saved"} ELSE {"check", "save"} \cup Ended)
    BY DEF GapsAreBurned
  <2>1. PICK d \in Callers :
            /\ rule[d] = r /\ got[d] = n
            /\ pc[d] \in (IF Mode(d) = "lent" THEN {"saved"} ELSE {"check", "save"} \cup Ended)
    BY DEF NumberingInv, GapsAreBurned
  <2>2. CASE d # c
    BY <1>1, <2>1, <2>2 DEF Mode
  <2>3. CASE d = c
    BY <1>1, <2>1, <2>3 DEF Mode, Ended
  <2> QED
    BY <2>2, <2>3
<1>10. RulesMade'
  <2>1. /\ pc'[c] \notin Numbering /\ pc'[c] # "ensure"
        /\ pc[c] \in Numbering => kind'[c] = kind[c] /\ rule'[c] = rule[c]
    BY <1>1 DEF Numbering
  <2>2. \A t \in Types : \/ creating'[t] = creating[t]
                         \/ creating[t] = c /\ creating'[t] = None /\ pc'[c] \notin Numbering
    BY <2>1
  <2>3. \A t \in Types : creating'[t] # c
    BY Parameters
  <2> QED
    BY <1>2, <2>1, <2>2, <2>3, RulesKept
<1>11. ruleChanges' = 0 => FirstRules'
  <2>1. pc'[c] \notin Numbering /\ ~Holds(c)' /\ \A t \in Types : creating'[t] = creating[t] \/ creating'[t] = None
    BY <1>1 DEF Numbering, Holds
  <2> QED
    BY <1>1, <1>2, <2>1, FirstKept
<1>12. (Cardinality(NestedIn) <= MaxNested)'
  <2>1. \A d \in Callers : pc'[d] \notin Ended \cup {"idle"} => pc[d] \notin Ended \cup {"idle"}
    BY <1>1
  <2> QED
    BY <2>1, NestedKept
<1> QED
  BY <1>3, <1>4, <1>5, <1>6, <1>7, <1>8, <1>9, <1>10, <1>11, <1>12 DEF NumberingInv

(* A caller fails that holds nothing. *)
LEMMA FailEmptyHanded ==
    ASSUME NumberingInv, NEW c \in Callers, pc[c] \notin Ended \cup {"idle"},
           pc' = [pc EXCEPT ![c] = "failed"],
           tries' \in [Callers -> 0 .. MaxAttempts], \A d \in Callers \ {c} : tries'[d] = tries[d],
           \A r \in Rules : lock[r] # c, \A t \in Types : creating[t] # c,
           UNCHANGED <<ruleVars, lock, counter, kind, rule, got, snap, jumped, skipped, imported>>
    PROVE  NumberingInv'
<1>1. lock' = [r \in Rules |-> IF lock[r] = c THEN None ELSE lock[r]]
  BY DEF NumberingInv, NumberingTypeOK
<1>2. creating' = [t \in Types |-> IF creating[t] = c THEN None ELSE creating[t]]
  BY DEF NumberingInv, NumberingTypeOK, ruleVars
<1>3. UNCHANGED <<active, made, ruleChanges, counter, kind, rule, got, snap, jumped, skipped, imported>>
  BY DEF ruleVars
<1> QED
  BY <1>1, <1>2, <1>3, FailKeeps

(* A minting call that is refused mints nothing.                           *)
LEMMA MintRefusedKeeps ==
    ASSUME NumberingInv, NEW c \in Callers, MintRefused(c)
    PROVE  NumberingInv'
<1>1. pc[c] = "resolve" /\ pc' = [pc EXCEPT ![c] = "failed"]
      /\ UNCHANGED <<ruleVars, counter, lock, kind, rule, got, snap, tries, jumped, skipped, imported>>
  BY DEF MintRefused, Goto
<1>2. tries' \in [Callers -> 0 .. MaxAttempts] /\ \A d \in Callers \ {c} : tries'[d] = tries[d]
  BY <1>1 DEF NumberingInv, NumberingTypeOK
<1>3. (\A r \in Rules : lock[r] # c) /\ (\A t \in Types : creating[t] # c)
  BY <1>1, NotHolding
<1> QED
  BY <1>1, <1>2, <1>3, FailEmptyHanded DEF Ended

(* A transaction of the service's own begins empty-handed.                 *)
LEMMA OwnBeginKeeps ==
    ASSUME NumberingInv, NEW c \in Callers, OwnBegin(c)
    PROVE  NumberingInv'
<1>1. /\ pc[c] = "number" /\ Mode(c) # "lent"
      /\ snap' = [snap EXCEPT ![c] = counter[rule[c]]] /\ pc' = [pc EXCEPT ![c] = "inner"]
      /\ UNCHANGED <<ruleVars, counter, lock, kind, rule, got, tries, jumped, skipped, imported>>
  BY DEF OwnBegin, Goto
<1>2. ruleChanges = 0 /\ FirstRules /\ TypeOf(c) \in Branched => made[<<TypeOf(c), "branch">>] = 1
  BY <1>1 DEF FirstRules
<1>3. /\ snap' \in [Callers -> Nat \cup {NoRow}] /\ tries' \in [Callers -> 0 .. MaxAttempts]
      /\ tries'[c] < MaxAttempts /\ pc'[c] = "inner" /\ pc' = [pc EXCEPT ![c] = pc'[c]]
  <2>1. rule[c] \in Rules
    BY <1>1 DEF NumberingInv, RulesMade, Numbering
  <2>2. counter[rule[c]] \in Nat \cup {NoRow}
    BY <2>1 DEF NumberingInv, NumberingTypeOK
  <2> QED
    BY <1>1, <2>2 DEF NumberingInv, NumberingTypeOK, Limits
<1>4. (\A r \in Rules : lock[r] # c) /\ (\A t \in Types : creating[t] # c)
  BY <1>1, NotHolding
<1> QED
  BY <1>1, <1>2, <1>3, <1>4, MoveKeeps DEF Numbering

(* A caller that gives up leaves the numbering sound.                      *)
LEMMA AbortKeeps ==
    ASSUME NumberingInv, NEW c \in Callers, Abort(c)
    PROVE  NumberingInv'
<1>1. /\ pc[c] \notin Ended \cup {"idle"} /\ pc' = [pc EXCEPT ![c] = "failed"]
      /\ lock' = [r \in Rules |-> IF lock[r] = c THEN None ELSE lock[r]]
      /\ creating' = [t \in Types |-> IF creating[t] = c THEN None ELSE creating[t]]
      /\ UNCHANGED <<active, made, ruleChanges, counter, kind, rule, got, snap, tries, jumped, skipped, imported>>
  BY DEF Abort, Fail, Unlock
<1>2. tries' \in [Callers -> 0 .. MaxAttempts] /\ \A d \in Callers \ {c} : tries'[d] = tries[d]
  BY <1>1 DEF NumberingInv, NumberingTypeOK
<1> QED
  BY <1>1, <1>2, FailKeeps

(* A caller whose code is refused gives up what it minted.                 *)
LEMMA CodeRefusedKeeps ==
    ASSUME NumberingInv, NEW c \in Callers, CodeRefused(c)
    PROVE  NumberingInv'
<1>1. /\ pc[c] \in {"check", "save"} /\ pc' = [pc EXCEPT ![c] = "failed"]
      /\ lock' = [r \in Rules |-> IF lock[r] = c THEN None ELSE lock[r]]
      /\ creating' = [t \in Types |-> IF creating[t] = c THEN None ELSE creating[t]]
      /\ UNCHANGED <<active, made, ruleChanges, counter, kind, rule, got, snap, tries, jumped, skipped, imported>>
  BY DEF CodeRefused, Fail, Unlock
<1>2. tries' \in [Callers -> 0 .. MaxAttempts] /\ \A d \in Callers \ {c} : tries'[d] = tries[d]
  BY <1>1 DEF NumberingInv, NumberingTypeOK
<1>3. pc[c] \notin Ended \cup {"idle"}
  BY <1>1 DEF Ended
<1> QED
  BY <1>1, <1>2, <1>3, FailKeeps

(* What is known of a caller with a rule and of that rule's counter.       *)
LEMMA RuleOfCaller ==
    ASSUME NumberingInv, NEW c \in Callers, pc[c] \in Numbering
    PROVE  /\ rule[c] \in Rules /\ rule[c][1] = TypeOf(c) /\ TypeOf(c) \in Types
           /\ counter[rule[c]] \in Nat \cup {NoRow} /\ counter[rule[c]] \in Int
           /\ Value(counter[rule[c]]) \in Nat /\ lock[rule[c]] \in Callers \cup {None}
<1>1. rule[c] \in Rules /\ rule[c][1] = TypeOf(c)
  BY DEF NumberingInv, RulesMade
<1> QED
  BY <1>1, CounterType, RuleIs DEF NumberingInv, NumberingTypeOK

(* A new number of a rule nobody has locked, committed at once.            *)
LEMMA OwnNumber ==
    ASSUME NumberingInv, NEW c \in Callers, pc[c] = "inner", lock[rule[c]] = None,
           counter' = [counter EXCEPT ![rule[c]] = Value(@) + 1],
           got' = [got EXCEPT ![c] = Value(counter[rule[c]]) + 1],
           pc' = [pc EXCEPT ![c] = Numbered(c)], Mode(c) # "lent",
           UNCHANGED <<ruleVars, lock, kind, rule, snap, tries, jumped, skipped, imported>>
    PROVE  NumberingInv'
<1> DEFINE r0 == rule[c]
           v == Value(counter[r0])
<1>1. r0 \in Rules /\ v \in Nat /\ counter[r0] \in Int /\ counter[r0] <= v /\ TypeOf(c) \in Types
      /\ r0[1] = TypeOf(c)
  BY RuleOfCaller, CounterType DEF NumberingInv, Numbering
<1>2. pc'[c] \in {"check", "save"} /\ \A d \in Callers \ {c} : pc'[d] = pc[d]
  BY DEF NumberingInv, NumberingTypeOK, Numbered
<1>3. got'[c] = v + 1 /\ \A d \in Callers \ {c} : got'[d] = got[d]
  BY DEF NumberingInv, NumberingTypeOK
<1>4. counter'[r0] = v + 1 /\ \A r \in Rules \ {r0} : counter'[r] = counter[r]
  BY <1>1 DEF NumberingInv, NumberingTypeOK
<1>5. \A d \in Callers \ {c} : Same(d)
  BY <1>2, <1>3 DEF Same
<1>6. Mode(c)' = Mode(c) /\ TypeOf(c)' = TypeOf(c) /\ rule'[c] = r0
  BY DEF Mode, TypeOf
<1>7. NumberingTypeOK'
  <2>1. counter' \in [Rules -> Nat \cup {NoRow}]
    <3> HIDE DEF r0, v
    <3>1. v + 1 \in Nat \cup {NoRow}
      BY <1>1
    <3> QED
      BY <1>1, <3>1 DEF NumberingInv, NumberingTypeOK, r0, v
  <2>2. got' \in [Callers -> Nat]
    BY <1>1 DEF NumberingInv, NumberingTypeOK
  <2>3. pc' \in [Callers -> {"idle", "ensure", "begin", "resolve", "number", "insert",
                           "inner", "check", "save", "saved", "failed"}]
    BY DEF NumberingInv, NumberingTypeOK, Numbered
  <2>4. \A d \in Callers : pc'[d] = "idle" <=> kind'[d] = NoKind
    BY <1>2 DEF NumberingInv, NumberingTypeOK
  <2> QED
    BY <2>1, <2>2, <2>3, <2>4 DEF NumberingInv, NumberingTypeOK, ruleVars
<1> HIDE DEF r0, v
<1>8. Limits'
  BY <1>2 DEF NumberingInv, Limits, Mode
<1>9. Locks'
  <2> SUFFICES ASSUME NEW r \in Rules, lock[r] # None
               PROVE  (/\ Mode(lock[r]) = "lent" /\ rule[lock[r]] = r
                       /\ pc[lock[r]] \in {"number", "check", "save"}
                       /\ got[lock[r]] > Value(counter[r])
                       /\ \A n \in Nat : n > Value(counter[r]) /\ n <= got[lock[r]]
                             => n \in jumped[lock[r]] \/ (n = got[lock[r]] /\ pc[lock[r]] # "number"))'
    BY DEF Locks
  <2>1. r # r0 /\ lock[r] \in Callers \ {c}
    BY NotHolding DEF NumberingInv, NumberingTypeOK, r0
  <2>2. Value(counter[r])' = Value(counter[r]) /\ lock'[r] = lock[r]
    BY <1>4, <2>1 DEF Value
  <2>3. Same(lock[r])
    BY <1>5, <2>1
  <2> QED
    BY <2>1, <2>2, <2>3 DEF NumberingInv, Locks, Same, Mode
<1>10. LentHolders'
  BY <1>2, <1>6 DEF NumberingInv, LentHolders, Mode
<1>11. ASSUME NEW d \in Callers \ {c}, Holds(d)
       PROVE  /\ rule[d] = r0 => got[d] <= v /\ ~Pending(d)
              /\ ~Pending(d) => got[d] > 0 /\ got[d] <= counter'[rule[d]]
  <2>1. ASSUME rule[d] = r0, Pending(d) PROVE FALSE
    <3>1. lock[r0] = d
      BY <1>11, <2>1 DEF NumberingInv, LentHolders, Holds, Pending
    <3> QED
      BY <3>1, Parameters DEF r0
  <2>2. ~Pending(d) => got[d] > 0 /\ got[d] <= counter[rule[d]]
    BY <1>11 DEF NumberingInv, Committed
  <2>3. rule[d] \in Rules /\ got[d] \in Nat
    BY <1>11, RuleOfCaller, CallerType DEF NumberingInv, Holds, Numbering
  <2> QED
    BY <1>1, <1>4, <2>1, <2>2, <2>3
<1>12. Committed'
  <2> SUFFICES ASSUME NEW d \in Callers, Holds(d)', ~Pending(d)'
               PROVE  got'[d] > 0 /\ got'[d] <= counter'[rule'[d]]
    BY DEF Committed
  <2>1. CASE d = c
    BY <1>1, <1>3, <1>4, <1>6, <2>1
  <2>2. CASE d # c
    <3>1. Holds(d) /\ ~Pending(d) /\ got'[d] = got[d] /\ rule'[d] = rule[d]
      BY <1>2, <1>3, <2>2 DEF Holds, Pending, Mode
    <3> QED
      BY <1>11, <2>2, <3>1
  <2> QED
    BY <2>1, <2>2
<1>13. NumbersUnique'
  <2> SUFFICES ASSUME NEW d \in Callers, NEW e \in Callers, d # e, Holds(d)', Holds(e)',
                      rule'[d] = rule'[e]
               PROVE  got'[d] # got'[e]
    BY DEF NumbersUnique
  <2>1. \A x \in Callers \ {c} : Holds(x)' => Holds(x) /\ got'[x] = got[x] /\ rule'[x] = rule[x] /\ got[x] \in Nat
    BY <1>2, <1>3, CallerType DEF Holds, NumberingInv
  <2>2. \A x \in Callers \ {c} : Holds(x)' /\ rule'[x] = r0 => got'[x] <= v
    BY <1>11, <2>1
  <2>3. CASE d = c
    BY <1>1, <1>3, <1>6, <2>1, <2>2, <2>3
  <2>4. CASE e = c
    BY <1>1, <1>3, <1>6, <2>1, <2>2, <2>4
  <2>5. CASE d # c /\ e # c
    BY <2>1, <2>5 DEF NumberingInv, NumbersUnique
  <2> QED
    BY <2>3, <2>4, <2>5
<1>14. GapsAreBurned'
  <2> SUFFICES ASSUME NEW r \in Rules, NEW n \in 1 .. counter'[r], n \notin skipped[r]
               PROVE  \E d \in Callers :
                         /\ rule'[d] = r /\ got'[d] = n
                         /\ pc'[d] \in (IF Mode(d)' = "lent" THEN {"saved"} ELSE {"check", "save"} \cup Ended)
    BY DEF GapsAreBurned
  <2>1. CASE r = r0 /\ n = v + 1
    BY <1>2, <1>3, <1>6, <2>1
  <2>2. CASE ~(r = r0 /\ n = v + 1)
    <3>1. n \in 1 .. counter[r]
      <4>1. CASE r # r0
        BY <1>4, <4>1
      <4>2. CASE r = r0
        <5>1. counter[r0] = v \/ v = 0
          BY DEF v, Value
        <5> QED
          BY <1>1, <1>4, <2>2, <4>2, <5>1
      <4> QED
        BY <4>1, <4>2
    <3>2. PICK d \in Callers :
            /\ rule[d] = r /\ got[d] = n
            /\ pc[d] \in (IF Mode(d) = "lent" THEN {"saved"} ELSE {"check", "save"} \cup Ended)
      BY <3>1 DEF NumberingInv, GapsAreBurned
    <3>3. d # c
      BY <3>2 DEF Ended
    <3> QED
      BY <1>5, <3>2, <3>3 DEF Same, Mode
  <2> QED
    BY <2>1, <2>2
<1>15. RulesMade'
  <2>1. \A t \in Types : creating[t] # c
    BY NotHolding
  <2>2. pc[c] \in Numbering /\ pc'[c] # "ensure" /\ made' = made /\ creating' = creating
        /\ kind' = kind /\ rule' = rule
    BY <1>2 DEF Numbering, ruleVars
  <2> QED
    BY <1>5, <2>1, <2>2, RulesKept
<1>16. ruleChanges' = 0 => FirstRules'
  <2>1. pc[c] \in Numbering /\ UNCHANGED <<active, made, ruleChanges, creating, kind, rule>>
    BY DEF Numbering, ruleVars
  <2>2. \A r \in Rules : \/ counter'[r] = counter[r]
                         \/ r = rule[c] /\ pc[c] \in Numbering /\ counter'[r] >= counter[r]
                            /\ counter'[r] \in Int
    BY <1>1, <1>4, <2>1 DEF r0
  <2>3. ASSUME FirstRules, TypeOf(c) \in Branched
        PROVE  made[<<TypeOf(c), "branch">>] = 1 /\ got'[c] > Shared[TypeOf(c)]
    <3>1. made[<<TypeOf(c), "branch">>] = 1
      BY <2>3 DEF FirstRules
    <3>2. r0 = <<TypeOf(c), "branch", 1>>
      BY <2>1, <2>3 DEF FirstRules, FirstRule, r0
    <3>3. counter[r0] >= Shared[TypeOf(c)] /\ Shared[TypeOf(c)] \in Nat
      BY <1>1, <2>3, <3>1, <3>2, Parameters DEF FirstRules
    <3> QED
      BY <1>1, <1>3, <3>1, <3>3
  <2> QED
    BY <1>5, <1>6, <2>1, <2>2, <2>3, FirstKept
<1>17. (Cardinality(NestedIn) <= MaxNested)'
  <2>1. \A d \in Callers : pc'[d] \notin Ended \cup {"idle"} => pc[d] \notin Ended \cup {"idle"}
    BY <1>2 DEF Ended
  <2> QED
    BY <2>1, NestedKept
<1> QED
  BY <1>7, <1>8, <1>9, <1>10, <1>12, <1>13, <1>14, <1>15, <1>16, <1>17 DEF NumberingInv

(* A number of one's own, or another try, or none after the last.          *)
LEMMA OwnIncrementKeeps ==
    ASSUME NumberingInv, NEW c \in Callers, OwnIncrement(c)
    PROVE  NumberingInv'
<1>1. /\ pc[c] = "inner" /\ lock[rule[c]] = None
      /\ UNCHANGED <<ruleVars, lock, kind, rule, snap, jumped, skipped, imported>>
  BY DEF OwnIncrement
<1>2. Mode(c) # "lent" /\ tries[c] \in Nat /\ MaxAttempts \in Nat /\ tries[c] < MaxAttempts
  BY <1>1, CallerType, Parameters DEF NumberingInv, Limits
<1>3. (\A r \in Rules : lock[r] # c) /\ (\A t \in Types : creating[t] # c)
  BY <1>1, NotHolding
<1>4. CASE counter[rule[c]] = snap[c]
  <2>1. /\ counter' = [counter EXCEPT ![rule[c]] = Value(@) + 1]
        /\ got' = [got EXCEPT ![c] = Value(counter[rule[c]]) + 1]
        /\ pc' = [pc EXCEPT ![c] = Numbered(c)] /\ UNCHANGED tries
    BY <1>4 DEF OwnIncrement, Goto
  <2> QED
    BY <1>1, <1>2, <2>1, OwnNumber
<1>5. CASE counter[rule[c]] # snap[c]
  <2>1. /\ tries' = [tries EXCEPT ![c] = @ + 1] /\ UNCHANGED <<counter, got>>
        /\ pc' = [pc EXCEPT ![c] = IF tries[c] + 1 < MaxAttempts THEN "number" ELSE "failed"]
    BY <1>5 DEF OwnIncrement, Goto
  <2>2. /\ tries' \in [Callers -> 0 .. MaxAttempts] /\ tries'[c] = tries[c] + 1
        /\ \A d \in Callers \ {c} : tries'[d] = tries[d]
    BY <1>2, <2>1 DEF NumberingInv, NumberingTypeOK
  <2>3. CASE tries[c] + 1 < MaxAttempts
    <3>1. snap' \in [Callers -> Nat \cup {NoRow}]
      BY <1>1 DEF NumberingInv, NumberingTypeOK
    <3>2. ruleChanges = 0 /\ FirstRules /\ TypeOf(c) \in Branched => made[<<TypeOf(c), "branch">>] = 1
      BY <1>1 DEF FirstRules
    <3>3. pc'[c] = "number" /\ pc' = [pc EXCEPT ![c] = pc'[c]]
      BY <2>1, <2>3 DEF NumberingInv, NumberingTypeOK
    <3> QED
      BY <1>1, <1>3, <2>1, <2>2, <2>3, <3>1, <3>2, <3>3, MoveKeeps DEF Numbering
  <2>4. CASE ~(tries[c] + 1 < MaxAttempts)
    <3>1. pc' = [pc EXCEPT ![c] = "failed"] /\ pc[c] \notin Ended \cup {"idle"}
      BY <1>1, <2>1, <2>4 DEF Ended
    <3> QED
      BY <1>1, <1>3, <2>1, <2>2, <3>1, FailEmptyHanded
  <2> QED
    BY <2>3, <2>4
<1> QED
  BY <1>4, <1>5

(* A new number in a lent transaction, with the row of its counter locked: *)
(* the numbers it went past since the committed one are numbers it skipped. *)
LEMMA LentNumber ==
    ASSUME NumberingInv, NEW c \in Callers, pc[c] \in {"number", "insert"}, Mode(c) = "lent",
           lock[rule[c]] \in {None, c}, lock' = [lock EXCEPT ![rule[c]] = c],
           got' \in [Callers -> Nat], \A d \in Callers \ {c} : got'[d] = got[d],
           got'[c] > Value(counter[rule[c]]),
           \A n \in Nat : n > Value(counter[rule[c]]) /\ n <= got'[c] => n \in jumped[c] \/ n = got'[c],
           pc' = [pc EXCEPT ![c] = Numbered(c)],
           UNCHANGED <<ruleVars, counter, kind, rule, snap, tries, jumped, skipped, imported>>
    PROVE  NumberingInv'
<1> DEFINE r0 == rule[c]
           v == Value(counter[r0])
<1>1. r0 \in Rules /\ v \in Nat /\ counter[r0] \in Int /\ counter[r0] <= v /\ TypeOf(c) \in Types
      /\ r0[1] = TypeOf(c)
  BY RuleOfCaller, CounterType DEF NumberingInv, Numbering
<1>2. pc'[c] \in {"check", "save"} /\ \A d \in Callers \ {c} : pc'[d] = pc[d]
  BY DEF NumberingInv, NumberingTypeOK, Numbered
<1>3. got'[c] > v /\ got'[c] \in Nat
  OBVIOUS
<1>4. lock'[r0] = c /\ \A r \in Rules \ {r0} : lock'[r] = lock[r] /\ lock[r] # c
  BY <1>1, NotHolding DEF NumberingInv, NumberingTypeOK
<1>5. \A d \in Callers \ {c} : Same(d)
  BY <1>2 DEF Same
<1>6. Mode(c)' = Mode(c) /\ TypeOf(c)' = TypeOf(c) /\ rule'[c] = r0 /\ Pending(c)'
  BY <1>2 DEF Mode, TypeOf, Pending
<1>7. NumberingTypeOK'
  <2>1. lock' \in [Rules -> Callers \cup {None}]
    BY DEF NumberingInv, NumberingTypeOK
  <2>2. pc' \in [Callers -> {"idle", "ensure", "begin", "resolve", "number", "insert",
                           "inner", "check", "save", "saved", "failed"}]
    BY DEF NumberingInv, NumberingTypeOK, Numbered
  <2>3. \A d \in Callers : pc'[d] = "idle" <=> kind'[d] = NoKind
    BY <1>2 DEF NumberingInv, NumberingTypeOK
  <2> QED
    BY <2>1, <2>2, <2>3 DEF NumberingInv, NumberingTypeOK, ruleVars
<1> HIDE DEF r0, v
<1>8. Limits'
  BY <1>2 DEF NumberingInv, Limits, Mode
<1>9. Locks'
  <2> SUFFICES ASSUME NEW r \in Rules, lock'[r] # None
               PROVE  (/\ Mode(lock[r]) = "lent" /\ rule[lock[r]] = r
                       /\ pc[lock[r]] \in {"number", "check", "save"}
                       /\ got[lock[r]] > Value(counter[r])
                       /\ \A n \in Nat : n > Value(counter[r]) /\ n <= got[lock[r]]
                             => n \in jumped[lock[r]] \/ (n = got[lock[r]] /\ pc[lock[r]] # "number"))'
    BY DEF Locks
  <2>0. Value(counter[r])' = Value(counter[r])
    BY DEF Value
  <2>1. CASE r = r0
    BY <1>2, <1>3, <1>4, <1>6, <2>0, <2>1 DEF r0, v
  <2>2. CASE r # r0
    <3>1. lock'[r] = lock[r] /\ lock[r] \in Callers \ {c}
      BY <1>4, <2>2 DEF NumberingInv, NumberingTypeOK
    <3>2. Same(lock[r])
      BY <1>5, <3>1
    <3> QED
      BY <2>0, <3>1, <3>2 DEF NumberingInv, Locks, Same, Mode
  <2> QED
    BY <2>1, <2>2
<1>10. ASSUME NEW d \in Callers \ {c}, Holds(d)
       PROVE  /\ rule[d] = r0 => got[d] <= v
              /\ Pending(d) => rule[d] # r0
  <2>1. ASSUME rule[d] = r0, Pending(d) PROVE FALSE
    <3>1. lock[r0] = d
      BY <1>10, <2>1 DEF NumberingInv, LentHolders, Holds, Pending
    <3> QED
      BY <3>1, Parameters DEF r0
  <2>2. ~Pending(d) => got[d] > 0 /\ got[d] <= counter[rule[d]]
    BY <1>10 DEF NumberingInv, Committed
  <2>3. got[d] \in Nat
    BY CallerType DEF NumberingInv
  <2> QED
    BY <1>1, <2>1, <2>2, <2>3
<1>11. LentHolders'
  <2> SUFFICES ASSUME NEW d \in Callers, pc'[d] \in {"check", "save"}, Mode(d)' = "lent"
               PROVE  lock'[rule'[d]] = d
    BY DEF LentHolders
  <2>1. CASE d = c
    BY <1>4, <1>6, <2>1
  <2>2. CASE d # c
    <3>1. pc[d] \in {"check", "save"} /\ Mode(d) = "lent" /\ rule'[d] = rule[d]
      BY <1>2, <2>2 DEF Mode
    <3>2. lock[rule[d]] = d /\ rule[d] \in Rules
      BY <3>1 DEF NumberingInv, LentHolders, RulesMade, Numbering
    <3>3. rule[d] # r0
      BY <1>10, <2>2, <3>1 DEF Holds, Pending
    <3> QED
      BY <1>4, <3>1, <3>2, <3>3
  <2> QED
    BY <2>1, <2>2
<1>12. Committed'
  <2> SUFFICES ASSUME NEW d \in Callers, Holds(d)', ~Pending(d)'
               PROVE  got'[d] > 0 /\ got'[d] <= counter'[rule'[d]]
    BY DEF Committed
  <2>1. d # c
    BY <1>6
  <2>2. Holds(d) /\ ~Pending(d)
    BY <1>2, <2>1 DEF Holds, Pending, Mode
  <2> QED
    BY <2>1, <2>2 DEF NumberingInv, Committed
<1>13. NumbersUnique'
  <2> SUFFICES ASSUME NEW d \in Callers, NEW e \in Callers, d # e, Holds(d)', Holds(e)',
                      rule'[d] = rule'[e]
               PROVE  got'[d] # got'[e]
    BY DEF NumbersUnique
  <2>1. \A x \in Callers \ {c} : Holds(x)' => Holds(x) /\ got'[x] = got[x] /\ rule'[x] = rule[x] /\ got[x] \in Nat
    BY <1>2, CallerType DEF Holds, NumberingInv
  <2>2. \A x \in Callers \ {c} : Holds(x)' /\ rule'[x] = r0 => got'[x] <= v
    BY <1>10, <2>1
  <2>3. CASE d = c
    BY <1>1, <1>3, <1>6, <2>1, <2>2, <2>3
  <2>4. CASE e = c
    BY <1>1, <1>3, <1>6, <2>1, <2>2, <2>4
  <2>5. CASE d # c /\ e # c
    BY <2>1, <2>5 DEF NumberingInv, NumbersUnique
  <2> QED
    BY <2>3, <2>4, <2>5
<1>14. GapsAreBurned'
  <2> SUFFICES ASSUME NEW r \in Rules, NEW n \in 1 .. counter[r], n \notin skipped[r]
               PROVE  \E d \in Callers :
                         /\ rule'[d] = r /\ got'[d] = n
                         /\ pc'[d] \in (IF Mode(d)' = "lent" THEN {"saved"} ELSE {"check", "save"} \cup Ended)
    BY DEF GapsAreBurned
  <2>1. PICK d \in Callers :
            /\ rule[d] = r /\ got[d] = n
            /\ pc[d] \in (IF Mode(d) = "lent" THEN {"saved"} ELSE {"check", "save"} \cup Ended)
    BY DEF NumberingInv, GapsAreBurned
  <2>2. d # c
    BY <2>1 DEF Ended
  <2> QED
    BY <1>5, <2>1, <2>2 DEF Same, Mode
<1>15. RulesMade'
  <2>1. pc[c] \in Numbering /\ pc'[c] \in {"number", "insert", "check", "save"} /\ pc'[c] # "ensure"
        /\ made' = made /\ creating' = creating /\ kind' = kind /\ rule' = rule
    BY <1>2 DEF Numbering, ruleVars
  <2> QED
    BY <1>5, <2>1, RulesKept
<1>16. ruleChanges' = 0 => FirstRules'
  <2>1. pc[c] \in Numbering /\ UNCHANGED <<active, made, ruleChanges, creating, kind, rule, counter>>
    BY DEF Numbering, ruleVars
  <2>2. ASSUME FirstRules, TypeOf(c) \in Branched
        PROVE  made[<<TypeOf(c), "branch">>] = 1 /\ got'[c] > Shared[TypeOf(c)]
    <3>1. made[<<TypeOf(c), "branch">>] = 1
      BY <2>2 DEF FirstRules
    <3>2. r0 = <<TypeOf(c), "branch", 1>>
      BY <2>1, <2>2 DEF FirstRules, FirstRule, r0
    <3>3. counter[r0] >= Shared[TypeOf(c)] /\ Shared[TypeOf(c)] \in Nat
      BY <1>1, <2>2, <3>1, <3>2, Parameters DEF FirstRules
    <3> QED
      BY <1>1, <1>3, <3>1, <3>3
  <2> QED
    BY <1>5, <1>6, <2>1, <2>2, FirstKept
<1>17. (Cardinality(NestedIn) <= MaxNested)'
  <2>1. \A d \in Callers : pc'[d] \notin Ended \cup {"idle"} => pc[d] \notin Ended \cup {"idle"}
    BY <1>2 DEF Ended
  <2> QED
    BY <2>1, NestedKept
<1> QED
  BY <1>7, <1>8, <1>9, <1>11, <1>12, <1>13, <1>14, <1>15, <1>16, <1>17 DEF NumberingInv

(* The next number of a lent transaction: past the one it holds, past the   *)
(* committed one, or none as there is no row to lock.                      *)
LEMMA LentIncrementKeeps ==
    ASSUME NumberingInv, NEW c \in Callers, LentIncrement(c)
    PROVE  NumberingInv'
<1>1. /\ pc[c] = "number" /\ Mode(c) = "lent"
      /\ UNCHANGED <<ruleVars, counter, kind, rule, snap, tries, jumped, skipped, imported>>
  BY DEF LentIncrement
<1>2. /\ rule[c] \in Rules /\ counter[rule[c]] \in Nat \cup {NoRow}
      /\ Value(counter[rule[c]]) \in Nat /\ got[c] \in Nat
  BY <1>1, RuleOfCaller, CallerType DEF NumberingInv, Numbering
<1>3. CASE /\ lock[rule[c]] = c
           /\ got' = [got EXCEPT ![c] = @ + 1]
           /\ pc' = [pc EXCEPT ![c] = Numbered(c)]
           /\ UNCHANGED lock
  <2>1. /\ got[c] > Value(counter[rule[c]])
        /\ \A n \in Nat : n > Value(counter[rule[c]]) /\ n <= got[c] => n \in jumped[c]
    BY <1>1, <1>2, <1>3, Parameters DEF NumberingInv, Locks
  <2>2. got' \in [Callers -> Nat] /\ got'[c] = got[c] + 1 /\ \A d \in Callers \ {c} : got'[d] = got[d]
    BY <1>2, <1>3 DEF NumberingInv, NumberingTypeOK
  <2>3. lock' = [lock EXCEPT ![rule[c]] = c] /\ lock[rule[c]] \in {None, c}
    BY <1>2, <1>3 DEF NumberingInv, NumberingTypeOK
  <2>4. got'[c] > Value(counter[rule[c]])
    BY <1>2, <2>1, <2>2
  <2>5. \A n \in Nat : n > Value(counter[rule[c]]) /\ n <= got'[c] => n \in jumped[c] \/ n = got'[c]
    <3> SUFFICES ASSUME NEW n \in Nat, n > Value(counter[rule[c]]), n <= got'[c], n # got'[c]
                 PROVE  n \in jumped[c]
      OBVIOUS
    <3>1. n <= got[c]
      BY <1>2, <2>2
    <3> QED
      BY <2>1, <3>1
  <2> QED
    BY <1>1, <1>3, <2>2, <2>3, <2>4, <2>5, LentNumber
<1>4. CASE /\ lock[rule[c]] = None /\ counter[rule[c]] # NoRow
           /\ got' = [got EXCEPT ![c] = counter[rule[c]] + 1]
           /\ lock' = [lock EXCEPT ![rule[c]] = c]
           /\ pc' = [pc EXCEPT ![c] = Numbered(c)]
  <2>1. Value(counter[rule[c]]) = counter[rule[c]] /\ counter[rule[c]] \in Nat
    BY <1>2, <1>4 DEF Value
  <2>2. /\ got' \in [Callers -> Nat] /\ got'[c] = counter[rule[c]] + 1
        /\ \A d \in Callers \ {c} : got'[d] = got[d]
    BY <1>4, <2>1 DEF NumberingInv, NumberingTypeOK
  <2>3. /\ got'[c] > Value(counter[rule[c]])
        /\ \A n \in Nat : n > Value(counter[rule[c]]) /\ n <= got'[c] => n = got'[c]
    BY <2>1, <2>2
  <2> QED
    BY <1>1, <1>4, <2>2, <2>3, LentNumber
<1>5. CASE /\ lock[rule[c]] # c /\ counter[rule[c]] = NoRow
           /\ pc' = [pc EXCEPT ![c] = "insert"]
           /\ UNCHANGED <<got, lock>>
  <2>1. \A r \in Rules : lock[r] # c
    BY <1>5, NotHolding
  <2>2. /\ snap' \in [Callers -> Nat \cup {NoRow}] /\ tries' \in [Callers -> 0 .. MaxAttempts]
        /\ tries'[c] < MaxAttempts /\ \A d \in Callers \ {c} : tries'[d] = tries[d]
    BY <1>1 DEF NumberingInv, NumberingTypeOK, Limits
  <2>3. ruleChanges = 0 /\ FirstRules /\ TypeOf(c) \in Branched => made[<<TypeOf(c), "branch">>] = 1
    BY <1>1 DEF FirstRules
  <2>4. /\ pc'[c] = "insert" /\ pc' = [pc EXCEPT ![c] = pc'[c]]
        /\ UNCHANGED <<ruleVars, counter, lock, kind, rule, got, jumped, skipped, imported>>
    BY <1>1, <1>5 DEF NumberingInv, NumberingTypeOK
  <2> QED
    BY <1>1, <2>1, <2>2, <2>3, <2>4, MoveKeeps DEF Numbering
<1> QED
  BY <1>3, <1>4, <1>5 DEF LentIncrement, Goto

(* The first number of a counter, or the row is there by now.              *)
LEMMA LentInsertKeeps ==
    ASSUME NumberingInv, NEW c \in Callers, LentInsert(c)
    PROVE  NumberingInv'
<1>1. /\ pc[c] = "insert" /\ lock[rule[c]] = None /\ Mode(c) = "lent"
      /\ UNCHANGED <<active, made, ruleChanges, counter, kind, rule, snap, tries, jumped, skipped, imported>>
  BY DEF LentInsert, NumberingInv, Limits
<1>2. rule[c] \in Rules
  BY <1>1, RuleOfCaller DEF Numbering
<1>3. CASE counter[rule[c]] = NoRow
  <2>1. /\ got' = [got EXCEPT ![c] = 1] /\ lock' = [lock EXCEPT ![rule[c]] = c]
        /\ pc' = [pc EXCEPT ![c] = Numbered(c)] /\ UNCHANGED creating
    BY <1>1, <1>3 DEF LentInsert, Goto
  <2>2. got' \in [Callers -> Nat] /\ got'[c] = 1 /\ \A d \in Callers \ {c} : got'[d] = got[d]
    BY <2>1 DEF NumberingInv, NumberingTypeOK
  <2>3. Value(counter[rule[c]]) = 0
    BY <1>3 DEF Value
  <2>4. /\ got'[c] > Value(counter[rule[c]])
        /\ \A n \in Nat : n > Value(counter[rule[c]]) /\ n <= got'[c] => n = got'[c]
    BY <2>2, <2>3
  <2>5. UNCHANGED ruleVars
    BY <1>1, <2>1 DEF ruleVars
  <2> QED
    BY <1>1, <2>1, <2>2, <2>4, <2>5, LentNumber
<1>4. CASE counter[rule[c]] # NoRow
  <2>1. /\ pc' = [pc EXCEPT ![c] = "failed"]
        /\ creating' = [t \in Types |-> IF creating[t] = c THEN None ELSE creating[t]]
        /\ UNCHANGED <<got, lock>>
    BY <1>1, <1>4 DEF LentInsert, Goto
  <2>2. \A r \in Rules : lock[r] # c
    BY <1>1, NotHolding
  <2>3. lock' = [r \in Rules |-> IF lock[r] = c THEN None ELSE lock[r]]
    BY <2>1, <2>2 DEF NumberingInv, NumberingTypeOK
  <2>4. tries' \in [Callers -> 0 .. MaxAttempts] /\ \A d \in Callers \ {c} : tries'[d] = tries[d]
    BY <1>1 DEF NumberingInv, NumberingTypeOK
  <2>5. pc[c] \notin Ended \cup {"idle"}
    BY <1>1 DEF Ended
  <2> QED
    BY <1>1, <2>1, <2>3, <2>4, <2>5, FailKeeps
<1> QED
  BY <1>3, <1>4

(* The code was not in use: the number stays.                              *)
LEMMA CodeIsFreeKeeps ==
    ASSUME NumberingInv, NEW c \in Callers, CodeIsFree(c)
    PROVE  NumberingInv'
<1>1. /\ pc[c] = "check" /\ pc' = [pc EXCEPT ![c] = "save"]
      /\ UNCHANGED <<ruleVars, counter, lock, kind, rule, got, snap, tries, jumped, skipped, imported>>
  BY DEF CodeIsFree, Goto
<1>2. pc'[c] = "save" /\ \A d \in Callers \ {c} : pc'[d] = pc[d]
  BY <1>1 DEF NumberingInv, NumberingTypeOK
<1>3. \A d \in Callers \ {c} : Same(d)
  BY <1>1, <1>2 DEF Same
<1>4. NumberingTypeOK'
  BY <1>1, <1>2 DEF NumberingInv, NumberingTypeOK, ruleVars
<1>5. Limits'
  BY <1>1, <1>2 DEF NumberingInv, Limits, Mode
<1>6. Locks'
  <2> SUFFICES ASSUME NEW r \in Rules, lock[r] # None
               PROVE  (/\ Mode(lock[r]) = "lent" /\ rule[lock[r]] = r
                       /\ pc[lock[r]] \in {"number", "check", "save"}
                       /\ got[lock[r]] > Value(counter[r])
                       /\ \A n \in Nat : n > Value(counter[r]) /\ n <= got[lock[r]]
                             => n \in jumped[lock[r]] \/ (n = got[lock[r]] /\ pc[lock[r]] # "number"))'
    BY <1>1 DEF Locks
  <2>1. Value(counter[r])' = Value(counter[r]) /\ lock'[r] = lock[r] /\ lock[r] \in Callers
    BY <1>1 DEF Value, NumberingInv, NumberingTypeOK
  <2>2. /\ pc'[lock[r]] \in {"number", "check", "save"} <=> pc[lock[r]] \in {"number", "check", "save"}
        /\ pc'[lock[r]] = "number" <=> pc[lock[r]] = "number"
    BY <1>1, <1>2, <2>1
  <2> QED
    BY <1>1, <2>1, <2>2 DEF NumberingInv, Locks, Mode
<1>7. \A d \in Callers : /\ Holds(d)' <=> Holds(d)
                         /\ Pending(d)' <=> Pending(d)
                         /\ pc'[d] \in {"check", "save"} <=> pc[d] \in {"check", "save"}
  BY <1>1, <1>2 DEF Holds, Pending, Mode
<1>8. LentHolders' /\ Committed' /\ NumbersUnique'
  BY <1>1, <1>7 DEF NumberingInv, LentHolders, Committed, NumbersUnique, Mode
<1>9. GapsAreBurned'
  BY <1>1, <1>2 DEF NumberingInv, GapsAreBurned, Mode, Ended
<1>10. RulesMade'
  <2>1. pc[c] \in Numbering /\ pc'[c] \in {"number", "insert", "check", "save"} /\ pc'[c] # "ensure"
        /\ made' = made /\ creating' = creating /\ kind' = kind /\ rule' = rule
    BY <1>1, <1>2 DEF Numbering, ruleVars
  <2> QED
    BY <1>3, <2>1, RulesKept
<1>11. ruleChanges' = 0 => FirstRules'
  <2>1. pc[c] \in Numbering /\ UNCHANGED <<active, made, ruleChanges, creating, kind, rule, counter>>
        /\ TypeOf(c)' = TypeOf(c) /\ got'[c] = got[c]
    BY <1>1 DEF Numbering, ruleVars, TypeOf
  <2>2. ASSUME FirstRules, TypeOf(c) \in Branched
        PROVE  made[<<TypeOf(c), "branch">>] = 1 /\ got[c] > Shared[TypeOf(c)]
    BY <1>1, <2>2 DEF FirstRules, Holds
  <2> QED
    BY <1>3, <2>1, <2>2, FirstKept
<1>12. (Cardinality(NestedIn) <= MaxNested)'
  <2>1. \A d \in Callers : pc'[d] \notin Ended \cup {"idle"} => pc[d] \notin Ended \cup {"idle"}
    BY <1>1, <1>2 DEF Ended
  <2> QED
    BY <1>1, <2>1, NestedKept
<1> QED
  BY <1>4, <1>5, <1>6, <1>8, <1>9, <1>10, <1>11, <1>12 DEF NumberingInv

(* The code was in use, in a lent transaction: its number goes on from the  *)
(* highest code there is, and what it went past is skipped if it commits.  *)
LEMMA SkipLentKeeps ==
    ASSUME NumberingInv, NEW c \in Callers, pc[c] = "check", Mode(c) = "lent",
           NEW high \in Nat, got[c] <= high,
           tries' \in [Callers -> 0 .. MaxAttempts], tries'[c] < MaxAttempts,
           \A d \in Callers \ {c} : tries'[d] = tries[d],
           got' = [got EXCEPT ![c] = high],
           jumped' = [jumped EXCEPT ![c] = @ \cup (got[c] .. high)],
           pc' = [pc EXCEPT ![c] = "number"],
           UNCHANGED <<ruleVars, counter, lock, kind, rule, snap, skipped, imported>>
    PROVE  NumberingInv'
<1> DEFINE r0 == rule[c]
           v == Value(counter[r0])
<1>1. r0 \in Rules /\ v \in Nat /\ lock[r0] = c /\ TypeOf(c) \in Types
  BY RuleOfCaller DEF NumberingInv, LentHolders, Numbering
<1>2. pc'[c] = "number" /\ \A d \in Callers \ {c} : pc'[d] = pc[d]
  BY DEF NumberingInv, NumberingTypeOK
<1>3. /\ got[c] \in Nat /\ got'[c] = high /\ \A d \in Callers \ {c} : got'[d] = got[d]
      /\ jumped'[c] = jumped[c] \cup (got[c] .. high) /\ \A d \in Callers \ {c} : jumped'[d] = jumped[d]
  BY DEF NumberingInv, NumberingTypeOK
<1>4. \A d \in Callers \ {c} : Same(d)
  BY <1>2, <1>3 DEF Same
<1>5. NumberingTypeOK'
  <2>1. got' \in [Callers -> Nat]
    BY DEF NumberingInv, NumberingTypeOK
  <2>2. jumped' \in [Callers -> SUBSET Nat]
    <3>1. jumped[c] \cup (got[c] .. high) \in SUBSET Nat
      BY <1>3 DEF NumberingInv, NumberingTypeOK
    <3> QED
      BY <3>1 DEF NumberingInv, NumberingTypeOK
  <2>3. pc' \in [Callers -> {"idle", "ensure", "begin", "resolve", "number", "insert",
                            "inner", "check", "save", "saved", "failed"}]
    BY DEF NumberingInv, NumberingTypeOK
  <2>4. \A d \in Callers : pc'[d] = "idle" <=> kind'[d] = NoKind
    BY <1>2 DEF NumberingInv, NumberingTypeOK
  <2> QED
    BY <2>1, <2>2, <2>3, <2>4 DEF NumberingInv, NumberingTypeOK, ruleVars
<1>6. Limits'
  BY <1>2 DEF NumberingInv, Limits, Mode
<1>7. Locks'
  <2> SUFFICES ASSUME NEW r \in Rules, lock[r] # None
               PROVE  (/\ Mode(lock[r]) = "lent" /\ rule[lock[r]] = r
                       /\ pc[lock[r]] \in {"number", "check", "save"}
                       /\ got[lock[r]] > Value(counter[r])
                       /\ \A n \in Nat : n > Value(counter[r]) /\ n <= got[lock[r]]
                             => n \in jumped[lock[r]] \/ (n = got[lock[r]] /\ pc[lock[r]] # "number"))'
    BY DEF Locks
  <2>0. Value(counter[r])' = Value(counter[r]) /\ lock'[r] = lock[r]
    BY DEF Value
  <2>1. CASE lock[r] = c
    <3>1. /\ rule[c] = r /\ got[c] > Value(counter[r]) /\ Value(counter[r]) \in Nat
          /\ \A n \in Nat : n > Value(counter[r]) /\ n <= got[c] => n \in jumped[c] \/ n = got[c]
      BY <2>1, CounterType DEF NumberingInv, Locks
    <3>2. got'[c] > Value(counter[r])
      BY <1>3, <3>1
    <3>3. ASSUME NEW n \in Nat, n > Value(counter[r]), n <= got'[c] PROVE n \in jumped'[c]
      <4>1. CASE n <= got[c]
        <5>1. n \in jumped[c] \/ n \in got[c] .. high
          BY <1>3, <3>1, <3>3, <4>1
        <5> QED
          BY <1>3, <5>1
      <4>2. CASE ~(n <= got[c])
        <5>1. n \in got[c] .. high
          BY <1>3, <3>3, <4>2
        <5> QED
          BY <1>3, <5>1
      <4> QED
        BY <4>1, <4>2
    <3> QED
      BY <1>2, <2>0, <2>1, <3>1, <3>2, <3>3 DEF Mode
  <2>2. CASE lock[r] # c
    <3>1. lock[r] \in Callers \ {c}
      BY <2>2 DEF NumberingInv, NumberingTypeOK
    <3>2. Same(lock[r])
      BY <1>4, <3>1
    <3> QED
      BY <2>0, <3>1, <3>2 DEF NumberingInv, Locks, Same, Mode
  <2> QED
    BY <2>1, <2>2
<1>8. LentHolders'
  BY <1>2 DEF NumberingInv, LentHolders, Mode
<1>9. \A d \in Callers : Holds(d)' => d # c /\ Holds(d) /\ got'[d] = got[d] /\ (~Pending(d)' => ~Pending(d))
  BY <1>2, <1>3 DEF Holds, Pending, Mode
<1>10. Committed' /\ NumbersUnique'
  BY <1>9 DEF NumberingInv, Committed, NumbersUnique
<1>11. GapsAreBurned'
  <2> SUFFICES ASSUME NEW r \in Rules, NEW n \in 1 .. counter[r], n \notin skipped[r]
               PROVE  \E d \in Callers :
                         /\ rule'[d] = r /\ got'[d] = n
                         /\ pc'[d] \in (IF Mode(d)' = "lent" THEN {"saved"} ELSE {"check", "save"} \cup Ended)
    BY DEF GapsAreBurned
  <2>1. PICK d \in Callers :
            /\ rule[d] = r /\ got[d] = n
            /\ pc[d] \in (IF Mode(d) = "lent" THEN {"saved"} ELSE {"check", "save"} \cup Ended)
    BY DEF NumberingInv, GapsAreBurned
  <2>2. d # c
    BY <2>1
  <2> QED
    BY <1>4, <2>1, <2>2 DEF Same, Mode
<1>12. RulesMade'
  <2>1. pc[c] \in Numbering /\ pc'[c] \in {"number", "insert", "check", "save"} /\ pc'[c] # "ensure"
        /\ made' = made /\ creating' = creating /\ kind' = kind /\ rule' = rule
    BY <1>2 DEF Numbering, ruleVars
  <2> QED
    BY <1>4, <2>1, RulesKept
<1>13. ruleChanges' = 0 => FirstRules'
  <2>1. pc[c] \in Numbering /\ UNCHANGED <<active, made, ruleChanges, creating, kind, rule, counter>>
        /\ TypeOf(c)' = TypeOf(c) /\ ~Holds(c)'
    BY <1>2 DEF Numbering, ruleVars, TypeOf, Holds
  <2>2. FirstRules /\ TypeOf(c) \in Branched => made[<<TypeOf(c), "branch">>] = 1
    BY DEF FirstRules
  <2> QED
    BY <1>4, <2>1, <2>2, FirstKept
<1>14. (Cardinality(NestedIn) <= MaxNested)'
  <2>1. \A d \in Callers : pc'[d] \notin Ended \cup {"idle"} => pc[d] \notin Ended \cup {"idle"}
    BY <1>2 DEF Ended
  <2> QED
    BY <2>1, NestedKept
<1> QED
  BY <1>5, <1>6, <1>7, <1>8, <1>10, <1>11, <1>12, <1>13, <1>14 DEF NumberingInv

(* The code was in use, without a lent transaction: the counter is raised,  *)
(* and the number and those it was raised past are skipped for good.       *)
LEMMA SkipOwnKeeps ==
    ASSUME NumberingInv, NEW c \in Callers, pc[c] = "check", Mode(c) # "lent",
           NEW high \in Nat, got[c] <= high, lock[rule[c]] = None,
           tries' \in [Callers -> 0 .. MaxAttempts], tries'[c] < MaxAttempts,
           \A d \in Callers \ {c} : tries'[d] = tries[d],
           counter' = [counter EXCEPT ![rule[c]] = IF @ < high THEN high ELSE @],
           skipped' = [skipped EXCEPT ![rule[c]] = @ \cup {got[c]} \cup (counter[rule[c]] + 1 .. high)],
           pc' = [pc EXCEPT ![c] = "number"],
           UNCHANGED <<ruleVars, got, jumped, lock, kind, rule, snap, imported>>
    PROVE  NumberingInv'
<1> DEFINE r0 == rule[c]
           k == counter[r0]
<1>1. r0 \in Rules /\ k \in Nat /\ TypeOf(c) \in Types /\ got[c] \in Nat
  <2>1. r0 \in Rules /\ k \in Int /\ TypeOf(c) \in Types /\ got[c] \in Nat
    BY RuleOfCaller, CallerType DEF NumberingInv, Numbering
  <2>2. got[c] > 0 /\ got[c] <= k
    BY DEF NumberingInv, Committed, Holds, Pending
  <2> QED
    BY <2>1, <2>2
<1>2. pc'[c] = "number" /\ \A d \in Callers \ {c} : pc'[d] = pc[d]
  BY DEF NumberingInv, NumberingTypeOK
<1>3. \A d \in Callers \ {c} : Same(d)
  BY <1>2 DEF Same
<1>4. /\ counter'[r0] = IF k < high THEN high ELSE k
      /\ \A r \in Rules \ {r0} : counter'[r] = counter[r]
  BY <1>1 DEF NumberingInv, NumberingTypeOK
<1>5. /\ skipped'[r0] = skipped[r0] \cup {got[c]} \cup (k + 1 .. high)
      /\ \A r \in Rules \ {r0} : skipped'[r] = skipped[r]
  BY <1>1 DEF NumberingInv, NumberingTypeOK
<1>6. NumberingTypeOK'
  <2>1. counter' \in [Rules -> Nat \cup {NoRow}]
    <3>1. (IF k < high THEN high ELSE k) \in Nat \cup {NoRow}
      BY <1>1
    <3> QED
      BY <3>1 DEF NumberingInv, NumberingTypeOK
  <2>2. skipped' \in [Rules -> SUBSET Nat]
    <3>1. skipped[r0] \cup {got[c]} \cup (k + 1 .. high) \in SUBSET Nat
      BY <1>1 DEF NumberingInv, NumberingTypeOK
    <3> QED
      BY <3>1 DEF NumberingInv, NumberingTypeOK
  <2>3. pc' \in [Callers -> {"idle", "ensure", "begin", "resolve", "number", "insert",
                            "inner", "check", "save", "saved", "failed"}]
    BY DEF NumberingInv, NumberingTypeOK
  <2>4. \A d \in Callers : pc'[d] = "idle" <=> kind'[d] = NoKind
    BY <1>2 DEF NumberingInv, NumberingTypeOK
  <2> QED
    BY <2>1, <2>2, <2>3, <2>4 DEF NumberingInv, NumberingTypeOK, ruleVars
<1> HIDE DEF r0, k
<1>7. \A r \in Rules : counter'[r] >= counter[r] /\ counter'[r] \in Int /\ counter[r] \in Int
  BY <1>1, <1>4, CounterType DEF NumberingInv, k
<1>8. Limits'
  BY <1>2 DEF NumberingInv, Limits, Mode
<1>9. Locks'
  <2> SUFFICES ASSUME NEW r \in Rules, lock[r] # None
               PROVE  (/\ Mode(lock[r]) = "lent" /\ rule[lock[r]] = r
                       /\ pc[lock[r]] \in {"number", "check", "save"}
                       /\ got[lock[r]] > Value(counter[r])
                       /\ \A n \in Nat : n > Value(counter[r]) /\ n <= got[lock[r]]
                             => n \in jumped[lock[r]] \/ (n = got[lock[r]] /\ pc[lock[r]] # "number"))'
    BY DEF Locks
  <2>1. r # r0 /\ lock[r] \in Callers \ {c}
    BY NotHolding DEF NumberingInv, NumberingTypeOK, r0
  <2>2. Value(counter[r])' = Value(counter[r]) /\ lock'[r] = lock[r]
    BY <1>4, <2>1 DEF Value
  <2>3. Same(lock[r])
    BY <1>3, <2>1
  <2> QED
    BY <2>1, <2>2, <2>3 DEF NumberingInv, Locks, Same, Mode
<1>10. LentHolders'
  BY <1>2 DEF NumberingInv, LentHolders, Mode
<1>11. \A d \in Callers : Holds(d)' => d # c /\ Holds(d) /\ (~Pending(d)' => ~Pending(d))
  BY <1>2 DEF Holds, Pending, Mode
<1>12. Committed'
  <2> SUFFICES ASSUME NEW d \in Callers, Holds(d)', ~Pending(d)'
               PROVE  got'[d] > 0 /\ got'[d] <= counter'[rule'[d]]
    BY DEF Committed
  <2>1. Holds(d) /\ got[d] > 0 /\ got[d] <= counter[rule[d]] /\ got[d] \in Nat
    BY <1>11, CallerType DEF NumberingInv, Committed
  <2>2. rule[d] \in Rules
    BY <2>1, RuleOfCaller DEF Holds, Numbering
  <2> QED
    BY <1>7, <2>1, <2>2
<1>13. NumbersUnique'
  BY <1>11 DEF NumberingInv, NumbersUnique
<1>14. GapsAreBurned'
  <2> SUFFICES ASSUME NEW r \in Rules, NEW n \in 1 .. counter'[r], n \notin skipped'[r]
               PROVE  \E d \in Callers :
                         /\ rule'[d] = r /\ got'[d] = n
                         /\ pc'[d] \in (IF Mode(d)' = "lent" THEN {"saved"} ELSE {"check", "save"} \cup Ended)
    BY DEF GapsAreBurned
  <2>1. n \in 1 .. counter[r] /\ n \notin skipped[r]
    <3>1. CASE r # r0
      BY <1>4, <1>5, <3>1
    <3>2. CASE r = r0
      <4>1. n \notin k + 1 .. high /\ n \notin skipped[r0]
        BY <1>5, <3>2
      <4>2. n \in 1 .. k
        BY <1>1, <1>4, <3>2, <4>1
      <4> QED
        BY <3>2, <4>1, <4>2 DEF k
    <3> QED
      BY <3>1, <3>2
  <2>2. PICK d \in Callers :
            /\ rule[d] = r /\ got[d] = n
            /\ pc[d] \in (IF Mode(d) = "lent" THEN {"saved"} ELSE {"check", "save"} \cup Ended)
    BY <2>1 DEF NumberingInv, GapsAreBurned
  <2>3. d # c
    BY <1>5, <2>2 DEF r0
  <2> QED
    BY <1>3, <2>2, <2>3 DEF Same, Mode
<1>15. RulesMade'
  <2>1. pc[c] \in Numbering /\ pc'[c] \in {"number", "insert", "check", "save"} /\ pc'[c] # "ensure"
        /\ made' = made /\ creating' = creating /\ kind' = kind /\ rule' = rule
    BY <1>2 DEF Numbering, ruleVars
  <2> QED
    BY <1>3, <2>1, RulesKept
<1>16. ruleChanges' = 0 => FirstRules'
  <2>1. pc[c] \in Numbering /\ UNCHANGED <<active, made, ruleChanges, creating, kind, rule>>
        /\ TypeOf(c)' = TypeOf(c) /\ ~Holds(c)'
    BY <1>2 DEF Numbering, ruleVars, TypeOf, Holds
  <2>2. FirstRules /\ TypeOf(c) \in Branched => made[<<TypeOf(c), "branch">>] = 1
    BY DEF FirstRules
  <2>3. \A r \in Rules : \/ counter'[r] = counter[r]
                         \/ r = rule[c] /\ pc[c] \in Numbering /\ counter'[r] >= counter[r]
                            /\ counter'[r] \in Int
    BY <1>4, <1>7, <2>1 DEF r0
  <2> QED
    BY <1>3, <2>1, <2>2, <2>3, FirstKept
<1>17. (Cardinality(NestedIn) <= MaxNested)'
  <2>1. \A d \in Callers : pc'[d] \notin Ended \cup {"idle"} => pc[d] \notin Ended \cup {"idle"}
    BY <1>2 DEF Ended
  <2> QED
    BY <2>1, NestedKept
<1> QED
  BY <1>6, <1>8, <1>9, <1>10, <1>12, <1>13, <1>14, <1>15, <1>16, <1>17 DEF NumberingInv

(* A counter raised past existing codes burns the numbers it skips.        *)
LEMMA SkipAheadKeeps ==
    ASSUME NumberingInv, NEW c \in Callers, SkipAhead(c)
    PROVE  NumberingInv'
<1> DEFINE high == Highest(Taken(TypeOf(c)))
<1>1. /\ pc[c] = "check" /\ got[c] \in Taken(TypeOf(c)) /\ tries[c] + 1 < MaxAttempts
      /\ tries' = [tries EXCEPT ![c] = @ + 1] /\ pc' = [pc EXCEPT ![c] = "number"]
      /\ UNCHANGED <<ruleVars, lock, kind, rule, snap, imported>>
  BY DEF SkipAhead, Goto
<1>2. high \in Nat /\ got[c] <= high
  <2>1. TypeOf(c) \in Types
    BY <1>1, RuleOfCaller DEF Numbering
  <2>2. IsFiniteSet(Taken(TypeOf(c))) /\ Taken(TypeOf(c)) \subseteq Nat
    BY <2>1, TakenIs DEF NumberingInv
  <2>3. high \in Taken(TypeOf(c)) /\ \A m \in Taken(TypeOf(c)) : m <= high
    BY <1>1, <2>2, HighestIs
  <2> QED
    BY <1>1, <2>2, <2>3
<1>3. /\ tries' \in [Callers -> 0 .. MaxAttempts] /\ tries'[c] < MaxAttempts
      /\ \A d \in Callers \ {c} : tries'[d] = tries[d]
  BY <1>1, Parameters DEF NumberingInv, NumberingTypeOK
<1>4. CASE Mode(c) = "lent"
  <2>1. /\ got' = [got EXCEPT ![c] = high]
        /\ jumped' = [jumped EXCEPT ![c] = @ \cup (got[c] .. high)]
        /\ UNCHANGED <<counter, skipped>>
    BY <1>4 DEF SkipAhead
  <2> HIDE DEF high
  <2> QED
    BY <1>1, <1>2, <1>3, <1>4, <2>1, SkipLentKeeps
<1>5. CASE Mode(c) # "lent"
  <2>1. /\ lock[rule[c]] = None
        /\ counter' = [counter EXCEPT ![rule[c]] = IF @ < high THEN high ELSE @]
        /\ skipped' = [skipped EXCEPT ![rule[c]] = @ \cup {got[c]} \cup (counter[rule[c]] + 1 .. high)]
        /\ UNCHANGED <<got, jumped>>
    BY <1>5 DEF SkipAhead
  <2> HIDE DEF high
  <2> QED
    BY <1>1, <1>2, <1>3, <1>5, <2>1, SkipOwnKeeps
<1> QED
  BY <1>4, <1>5

-----------------------------------------------------------------------------
(* A step that may make rules, of a caller c or of nobody, keeps to the     *)
(* rules that were made and to those the other callers are making.         *)
LEMMA RulesStep ==
    ASSUME NumberingInv, NEW c, \A d \in Callers \ {c} : Same(d),
           \A t \in Types, s \in Scopes : made'[<<t, s>>] \in Nat /\ made'[<<t, s>>] >= made[<<t, s>>],
           \A t \in Types : creating[t] \in Callers \ {c} => creating'[t] = creating[t],
           \A t \in Types : creating'[t] \in Callers \ {c} =>
               creating'[t] = creating[t] /\ made'[<<t, "org">>] = made[<<t, "org">>],
           \A t \in Types : creating'[t] \in Callers \cup {None},
           c \in Callers =>
               /\ \A t \in Types : creating'[t] = c =>
                     /\ TypeOf(c)' = t /\ Mode(c)' = "lent"
                     /\ pc'[c] \in {"number", "insert", "check", "save"}
                     /\ rule'[c] = NewRule(t, "org")' /\ made'[<<t, "org">>] < MaxGen
                     /\ t \notin Branched
               /\ pc'[c] \in Numbering =>
                     /\ rule'[c] \in Rules /\ rule'[c][1] = TypeOf(c)'
                     /\ rule'[c][3] <= made'[<<TypeOf(c)', rule'[c][2]>>] \/ creating'[TypeOf(c)'] = c
               /\ pc'[c] = "ensure" => TypeOf(c)' \in Branched
    PROVE  RulesMade'
<1>1. ASSUME NEW t \in Types, creating'[t] # None
      PROVE  /\ TypeOf(creating[t])' = t /\ Mode(creating[t])' = "lent"
             /\ pc'[creating'[t]] \in {"number", "insert", "check", "save"}
             /\ rule'[creating'[t]] = NewRule(t, "org")' /\ made'[<<t, "org">>] < MaxGen
             /\ t \notin Branched
  <2>1. CASE creating'[t] = c
    BY <1>1, <2>1 DEF TypeOf, Mode
  <2>2. CASE creating'[t] # c
    <3>1. creating'[t] = creating[t] /\ creating[t] \in Callers \ {c} /\ creating[t] # None
          /\ made'[<<t, "org">>] = made[<<t, "org">>]
      BY <1>1, <2>2
    <3>2. Same(creating[t])
      BY <3>1
    <3>3. /\ TypeOf(creating[t]) = t /\ Mode(creating[t]) = "lent"
          /\ pc[creating[t]] \in {"number", "insert", "check", "save"}
          /\ rule[creating[t]] = NewRule(t, "org") /\ made[<<t, "org">>] < MaxGen
          /\ t \notin Branched
      BY <3>1 DEF NumberingInv, RulesMade
    <3>4. NewRule(t, "org")' = NewRule(t, "org")
      BY <3>1 DEF NewRule
    <3> QED
      BY <3>1, <3>2, <3>3, <3>4 DEF Same, TypeOf, Mode
  <2> QED
    BY <2>1, <2>2
<1>2. ASSUME NEW d \in Callers
      PROVE  /\ pc'[d] \in Numbering =>
                    /\ rule'[d] \in Rules /\ rule'[d][1] = TypeOf(d)'
                    /\ rule'[d][3] <= made'[<<TypeOf(d)', rule'[d][2]>>] \/ creating'[TypeOf(d)'] = d
             /\ pc'[d] = "ensure" => TypeOf(d)' \in Branched
  <2>1. CASE d = c
    BY <2>1
  <2>2. CASE d # c
    <3>1. Same(d) /\ TypeOf(d)' = TypeOf(d)
      BY <2>2 DEF Same, TypeOf
    <3>2. pc'[d] = "ensure" => TypeOf(d)' \in Branched
      BY <3>1 DEF NumberingInv, RulesMade, Same
    <3>3. ASSUME pc'[d] \in Numbering
          PROVE  /\ rule'[d] \in Rules /\ rule'[d][1] = TypeOf(d)'
                 /\ rule'[d][3] <= made'[<<TypeOf(d)', rule'[d][2]>>] \/ creating'[TypeOf(d)'] = d
      <4>1. rule'[d] = rule[d] /\ pc[d] \in Numbering
        BY <3>1, <3>3 DEF Same
      <4>2. /\ rule[d] \in Rules /\ rule[d][1] = TypeOf(d) /\ TypeOf(d) \in Types
            /\ rule[d][3] <= made[<<TypeOf(d), rule[d][2]>>] \/ creating[TypeOf(d)] = d
        BY <4>1, RuleOfCaller DEF NumberingInv, RulesMade
      <4>3. rule[d][2] \in Scopes /\ rule[d][3] \in Nat
        BY <4>2, RuleIs, Parameters
      <4>4. /\ made[<<TypeOf(d), rule[d][2]>>] \in Nat
            /\ made'[<<TypeOf(d), rule[d][2]>>] \in Nat
            /\ made'[<<TypeOf(d), rule[d][2]>>] >= made[<<TypeOf(d), rule[d][2]>>]
        BY <4>2, <4>3, Parameters DEF NumberingInv, NumberingTypeOK
      <4>5. CASE rule[d][3] <= made[<<TypeOf(d), rule[d][2]>>]
        BY <3>1, <4>1, <4>2, <4>3, <4>4, <4>5
      <4>6. CASE creating[TypeOf(d)] = d
        BY <2>2, <3>1, <4>1, <4>2, <4>6
      <4> QED
        BY <4>2, <4>5, <4>6
    <3> QED
      BY <3>2, <3>3
  <2> QED
    BY <2>1, <2>2
<1> QED
  BY <1>1, <1>2 DEF RulesMade, TypeOf, Mode

(* What a step keeps that gives a caller its rule: all the numbers.        *)
LEMMA RuleGiven ==
    ASSUME NumberingInv, NEW c \in Callers, pc[c] = "resolve",
           pc' = [pc EXCEPT ![c] = "number"], rule' \in [Callers -> Rules \cup {NoRule}],
           \A d \in Callers \ {c} : rule'[d] = rule[d],
           UNCHANGED <<counter, lock, kind, got, snap, tries, jumped, skipped, imported>>
    PROVE  /\ pc'[c] = "number" /\ \A d \in Callers \ {c} : Same(d)
           /\ pc' \in [Callers -> {"idle", "ensure", "begin", "resolve", "number", "insert",
                                   "inner", "check", "save", "saved", "failed"}]
           /\ \A d \in Callers : pc'[d] = "idle" <=> kind'[d] = NoKind
           /\ Limits' /\ Locks' /\ LentHolders' /\ Committed' /\ NumbersUnique' /\ GapsAreBurned'
           /\ (Cardinality(NestedIn) <= MaxNested)'
<1>1. pc'[c] = "number" /\ \A d \in Callers \ {c} : pc'[d] = pc[d]
  BY DEF NumberingInv, NumberingTypeOK
<1>2. \A d \in Callers \ {c} : Same(d)
  BY <1>1 DEF Same
<1>3. \A d \in Callers : pc'[d] = "idle" <=> kind'[d] = NoKind
  BY <1>1 DEF NumberingInv, NumberingTypeOK
<1>4. pc' \in [Callers -> {"idle", "ensure", "begin", "resolve", "number", "insert",
                         "inner", "check", "save", "saved", "failed"}]
  BY DEF NumberingInv, NumberingTypeOK
<1>5. Limits'
  BY <1>1 DEF NumberingInv, Limits, Mode
<1>6. \A r \in Rules : lock[r] # c
  BY NotHolding
<1>7. Locks' /\ LentHolders' /\ Committed' /\ NumbersUnique' /\ GapsAreBurned'
  BY <1>1, <1>2, <1>6, NumbersKept
<1>8. (Cardinality(NestedIn) <= MaxNested)'
  <2>1. \A d \in Callers : pc'[d] \notin Ended \cup {"idle"} => pc[d] \notin Ended \cup {"idle"}
    BY <1>1 DEF Ended
  <2> QED
    BY <2>1, NestedKept
<1> QED
  BY <1>1, <1>2, <1>3, <1>4, <1>5, <1>7, <1>8

(* What the type invariant says of the rules of a scope. *)
LEMMA ScopeType ==
    ASSUME NumberingTypeOK, NEW t \in Types, NEW s \in Scopes
    PROVE  /\ made[<<t, s>>] \in 0 .. MaxGen /\ made[<<t, s>>] \in Nat
           /\ active[<<t, s>>] \in 0 .. MaxGen /\ active[<<t, s>>] \in Nat
           /\ active[<<t, s>>] <= made[<<t, s>>]
<1>1. <<t, s>> \in Types \X Scopes
  BY Parameters
<1>2. made[<<t, s>>] \in 0 .. MaxGen /\ active[<<t, s>>] \in 0 .. MaxGen
  BY <1>1 DEF NumberingTypeOK
<1>3. active[<<t, s>>] <= made[<<t, s>>]
  BY DEF NumberingTypeOK
<1> QED
  BY <1>2, <1>3, Parameters

(* The rule a read finds is one that was made. *)
LEMMA ResolvedIs ==
    ASSUME NumberingTypeOK, NEW t \in Types
    PROVE  /\ Resolved(t) = IF t \notin Coded /\ active[<<t, "branch">>] # 0
                            THEN <<t, "branch", active[<<t, "branch">>]>>
                            ELSE <<t, "org", active[<<t, "org">>]>>
           /\ \A s \in Scopes : /\ active[<<t, s>>] \in 0 .. MaxGen /\ made[<<t, s>>] \in 0 .. MaxGen
                                /\ active[<<t, s>>] <= made[<<t, s>>]
           /\ HasRule(t) => /\ Resolved(t) \in Rules /\ Resolved(t)[1] = t
                            /\ Resolved(t)[3] <= made[<<t, Resolved(t)[2]>>]
<1>1. \A s \in Scopes : /\ active[<<t, s>>] \in 0 .. MaxGen /\ made[<<t, s>>] \in 0 .. MaxGen
                        /\ active[<<t, s>>] <= made[<<t, s>>]
  BY Parameters DEF NumberingTypeOK
<1>2. Resolved(t) = IF t \notin Coded /\ active[<<t, "branch">>] # 0
                    THEN <<t, "branch", active[<<t, "branch">>]>>
                    ELSE <<t, "org", active[<<t, "org">>]>>
  BY DEF Resolved
<1>3. ASSUME HasRule(t), NEW s \in Scopes, Resolved(t) = <<t, s, active[<<t, s>>]>>
      PROVE  /\ Resolved(t) \in Rules /\ Resolved(t)[1] = t
             /\ Resolved(t)[3] <= made[<<t, Resolved(t)[2]>>]
  <2>1. active[<<t, s>>] \in 1 .. MaxGen
    <3>1. active[<<t, s>>] # 0
      BY <1>3 DEF HasRule
    <3> QED
      BY <1>1, <3>1, Parameters
  <2> QED
    BY <1>1, <1>3, <2>1, RuleIs
<1> QED
  BY <1>1, <1>2, <1>3, Parameters

(* Looking up the rule decides which counter the caller goes to.           *)
LEMMA ResolveRuleKeeps ==
    ASSUME NumberingInv, NEW c \in Callers, ResolveRule(c)
    PROVE  NumberingInv'
<1> DEFINE t == TypeOf(c)
           r == Resolved(t)
<1>1. /\ pc[c] = "resolve" /\ HasRule(t) /\ rule' = [rule EXCEPT ![c] = r]
      /\ pc' = [pc EXCEPT ![c] = "number"]
      /\ UNCHANGED <<ruleVars, counter, lock, kind, got, snap, tries, jumped, skipped, imported>>
  BY DEF ResolveRule, Goto
<1>2. t \in Types
  BY <1>1, CallerType DEF NumberingInv
<1>3. /\ r \in Rules /\ r[1] = t /\ r[3] <= made[<<t, r[2]>>]
  BY <1>1, <1>2, ResolvedIs DEF NumberingInv
<1>4. rule' \in [Callers -> Rules \cup {NoRule}] /\ rule'[c] = r /\ \A d \in Callers \ {c} : rule'[d] = rule[d]
  BY <1>1, <1>3 DEF NumberingInv, NumberingTypeOK
<1> HIDE DEF r
<1>5. /\ pc'[c] = "number" /\ \A d \in Callers \ {c} : Same(d)
      /\ pc' \in [Callers -> {"idle", "ensure", "begin", "resolve", "number", "insert",
                              "inner", "check", "save", "saved", "failed"}]
      /\ \A d \in Callers : pc'[d] = "idle" <=> kind'[d] = NoKind
      /\ Limits' /\ Locks' /\ LentHolders' /\ Committed' /\ NumbersUnique' /\ GapsAreBurned'
      /\ (Cardinality(NestedIn) <= MaxNested)'
  BY <1>1, <1>4, RuleGiven
<1>6. NumberingTypeOK'
  BY <1>1, <1>4, <1>5 DEF NumberingInv, NumberingTypeOK, ruleVars
<1>7. UNCHANGED <<active, made, creating, ruleChanges>> /\ t' = t
  BY <1>1 DEF ruleVars, TypeOf
<1>8. RulesMade'
  <2>1. \A u \in Types, s \in Scopes : made'[<<u, s>>] \in Nat /\ made'[<<u, s>>] >= made[<<u, s>>]
    <3> SUFFICES ASSUME NEW u \in Types, NEW s \in Scopes
                 PROVE  made'[<<u, s>>] \in Nat /\ made'[<<u, s>>] >= made[<<u, s>>]
      OBVIOUS
    <3>1. made[<<u, s>>] \in Nat
      BY ScopeType DEF NumberingInv
    <3> QED
      BY <1>7, <3>1
  <2>2. \A u \in Types : creating'[u] # c /\ creating'[u] \in Callers \cup {None}
    BY <1>1, <1>7, NotHolding DEF NumberingInv, NumberingTypeOK
  <2>3. pc'[c] \in Numbering => /\ rule'[c] \in Rules /\ rule'[c][1] = TypeOf(c)'
                                /\ rule'[c][3] <= made'[<<TypeOf(c)', rule'[c][2]>>]
    BY <1>3, <1>4, <1>7
  <2> QED
    BY <1>5, <1>7, <2>1, <2>2, <2>3, RulesStep
<1>9. ruleChanges' = 0 => FirstRules'
  <2> SUFFICES ASSUME ruleChanges = 0 PROVE FirstRules'
    BY <1>7
  <2>1. FirstRules
    BY DEF NumberingInv
  <2>2. r = FirstRule(t)
    <3>1. \A s \in Scopes : active[<<t, s>>] = made[<<t, s>>] /\ active[<<t, s>>] \in 0 .. MaxGen
                            /\ made[<<t, s>>] <= 1
      BY <1>2, <2>1, ResolvedIs DEF FirstRules, NumberingInv
    <3>2. t \in Branched => made[<<t, "branch">>] = 1 /\ t \notin Coded
      BY <1>1, <2>1, Parameters DEF FirstRules
    <3>3. t \notin Branched => made[<<t, "branch">>] = 0
      BY <1>2, <2>1 DEF FirstRules
    <3>4. r[3] # 0
      BY <1>1 DEF HasRule, r
    <3>5. r = IF t \notin Coded /\ active[<<t, "branch">>] # 0
              THEN <<t, "branch", active[<<t, "branch">>]>>
              ELSE <<t, "org", active[<<t, "org">>]>>
      BY <1>2, ResolvedIs DEF NumberingInv, r
    <3>6. CASE t \in Branched
      BY <3>1, <3>2, <3>5, <3>6, Parameters DEF FirstRule
    <3>7. CASE t \notin Branched
      <4>1. r = <<t, "org", active[<<t, "org">>]>>
        BY <3>1, <3>3, <3>5, <3>7, Parameters
      <4>2. active[<<t, "org">>] # 0
        BY <3>4, <4>1
      <4>3. active[<<t, "org">>] = 1
        BY <3>1, <4>2, Parameters
      <4> QED
        BY <3>7, <4>1, <4>3 DEF FirstRule
    <3> QED
      BY <3>6, <3>7
  <2>3. ASSUME NEW d \in Callers
        PROVE  /\ pc'[d] \notin {"idle", "ensure", "failed"} /\ TypeOf(d)' \in Branched
                      => made'[<<TypeOf(d)', "branch">>] = 1
               /\ pc'[d] \in Numbering => rule'[d] = FirstRule(TypeOf(d)')
               /\ Holds(d)' /\ TypeOf(d)' \in Branched => got'[d] > Shared[TypeOf(d)']
    <3>1. CASE d = c
      BY <1>1, <1>4, <1>5, <1>7, <2>1, <2>2, <3>1 DEF FirstRules, Holds
    <3>2. CASE d # c
      <4>1. Same(d)
        BY <1>5, <3>2
      <4> QED
        BY <1>7, <2>1, <4>1 DEF FirstRules, Same, TypeOf, Holds
    <3> QED
      BY <3>1, <3>2
  <2>4. \A u \in Branched : Value(counter[<<u, "org", 1>>])' = Value(counter[<<u, "org", 1>>])
    BY <1>1 DEF Value
  <2> QED
    BY <1>1, <1>7, <2>1, <2>3, <2>4 DEF FirstRules
<1> QED
  BY <1>5, <1>6, <1>8, <1>9 DEF NumberingInv

(* A default rule is made, for its transaction only or for all.            *)
LEMMA CreateDefaultKeeps ==
    ASSUME NumberingInv, NEW c \in Callers, CreateDefault(c)
    PROVE  NumberingInv'
<1> DEFINE t == TypeOf(c)
           m == made[<<t, "org">>]
           r == <<t, "org", m + 1>>
<1>1. /\ pc[c] = "resolve" /\ ~HasRule(t) /\ creating[t] = None /\ m < MaxGen
      /\ Mode(c) = "lent" => t \notin Branched
      /\ rule' = [rule EXCEPT ![c] = r] /\ pc' = [pc EXCEPT ![c] = "number"]
      /\ UNCHANGED <<ruleChanges, counter, lock, kind, got, snap, tries, jumped, skipped, imported>>
  BY DEF CreateDefault, Goto, NewRule
<1>2. t \in Types /\ Mode(c) \in {"lent", "plain", "nested"} /\ t' = t /\ Mode(c)' = Mode(c)
  BY <1>1, CallerType DEF NumberingInv, TypeOf, Mode
<1>3. m \in Nat /\ m <= MaxGen /\ r \in Rules /\ r[1] = t /\ r[2] = "org" /\ r[3] = m + 1
  <2>1. m \in 0 .. MaxGen
    BY <1>2, Parameters DEF NumberingInv, NumberingTypeOK
  <2>2. m + 1 \in 1 .. MaxGen
    BY <1>1, <2>1, Parameters
  <2> QED
    BY <1>2, <2>1, <2>2, RuleIs, Parameters
<1>4. rule' \in [Callers -> Rules \cup {NoRule}] /\ rule'[c] = r /\ \A d \in Callers \ {c} : rule'[d] = rule[d]
  BY <1>1, <1>3 DEF NumberingInv, NumberingTypeOK
<1> HIDE DEF r
<1>5. /\ pc'[c] = "number" /\ \A d \in Callers \ {c} : Same(d)
      /\ pc' \in [Callers -> {"idle", "ensure", "begin", "resolve", "number", "insert",
                              "inner", "check", "save", "saved", "failed"}]
      /\ \A d \in Callers : pc'[d] = "idle" <=> kind'[d] = NoKind
      /\ Limits' /\ Locks' /\ LentHolders' /\ Committed' /\ NumbersUnique' /\ GapsAreBurned'
      /\ (Cardinality(NestedIn) <= MaxNested)'
  BY <1>1, <1>4, RuleGiven
<1>6. \A u \in Types, s \in Scopes : /\ made[<<u, s>>] \in 0 .. MaxGen /\ active[<<u, s>>] \in 0 .. MaxGen
                                     /\ active[<<u, s>>] <= made[<<u, s>>]
  BY Parameters DEF NumberingInv, NumberingTypeOK
<1>7. \A u \in Types : creating[u] # c
  BY <1>1, NotHolding
<1>8. ASSUME ruleChanges = 0
      PROVE  t \notin Branched /\ m = 0
  <2>1. FirstRules
    BY <1>8 DEF NumberingInv
  <2>2. \A s \in Scopes : active[<<t, s>>] = made[<<t, s>>]
    BY <1>2, <2>1 DEF FirstRules
  <2>3. ASSUME t \in Branched PROVE FALSE
    <3>1. active[<<t, "branch">>] = 1 /\ t \notin Coded
      BY <1>1, <2>1, <2>2, <2>3, Parameters DEF FirstRules
    <3>2. Resolved(t) = <<t, "branch", 1>>
      BY <3>1 DEF Resolved
    <3> QED
      BY <1>1, <3>2 DEF HasRule
  <2>4. active[<<t, "branch">>] = 0
    BY <1>2, <2>1, <2>2, <2>3, Parameters DEF FirstRules
  <2>5. active[<<t, "org">>] = 0
    <3>1. Resolved(t) = <<t, "org", active[<<t, "org">>]>>
      BY <2>4 DEF Resolved
    <3> QED
      BY <1>1, <3>1 DEF HasRule
  <2> QED
    BY <2>2, <2>3, <2>5, Parameters
<1>9. \A u \in Branched : Value(counter[<<u, "org", 1>>])' = Value(counter[<<u, "org", 1>>])
  BY <1>1 DEF Value
<1>10. ASSUME ruleChanges = 0, NEW d \in Callers, made'[<<TypeOf(d), "branch">>] = made[<<TypeOf(d), "branch">>]
       PROVE  /\ pc'[d] \notin {"idle", "ensure", "failed"} /\ TypeOf(d)' \in Branched
                     => made'[<<TypeOf(d)', "branch">>] = 1
              /\ pc'[d] \in Numbering => rule'[d] = FirstRule(TypeOf(d)')
              /\ Holds(d)' /\ TypeOf(d)' \in Branched => got'[d] > Shared[TypeOf(d)']
  <2>1. CASE d = c
    BY <1>2, <1>4, <1>5, <1>8, <1>10, <2>1 DEF Holds, FirstRule, r
  <2>2. CASE d # c
    <3>1. Same(d)
      BY <1>5, <2>2
    <3> QED
      BY <1>1, <1>10, <3>1 DEF NumberingInv, FirstRules, Same, TypeOf, Holds
  <2> QED
    BY <2>1, <2>2
<1>11. CASE Mode(c) = "lent"
  <2>1. creating' = [creating EXCEPT ![t] = c] /\ UNCHANGED <<active, made>> /\ t \notin Branched
    BY <1>1, <1>11 DEF CreateDefault
  <2>2. creating' \in [Types -> Callers \cup {None}] /\ creating'[t] = c
        /\ \A u \in Types \ {t} : creating'[u] = creating[u]
    BY <1>2, <2>1 DEF NumberingInv, NumberingTypeOK
  <2>3. NumberingTypeOK'
    BY <1>1, <1>4, <1>5, <2>1, <2>2 DEF NumberingInv, NumberingTypeOK
  <2>4. RulesMade'
    <3>1. \A u \in Types, s \in Scopes : made'[<<u, s>>] \in Nat /\ made'[<<u, s>>] >= made[<<u, s>>]
      <4> SUFFICES ASSUME NEW u \in Types, NEW s \in Scopes
                   PROVE  made'[<<u, s>>] \in Nat /\ made'[<<u, s>>] >= made[<<u, s>>]
        OBVIOUS
      <4>1. made[<<u, s>>] \in Nat
        BY ScopeType DEF NumberingInv
      <4> QED
        BY <2>1, <4>1
    <3>2. NewRule(t, "org")' = r
      BY <1>2, <2>1 DEF NewRule, r
    <3>3. \A u \in Types : creating'[u] = c =>
              /\ TypeOf(c)' = u /\ Mode(c)' = "lent"
              /\ pc'[c] \in {"number", "insert", "check", "save"}
              /\ rule'[c] = NewRule(u, "org")' /\ made'[<<u, "org">>] < MaxGen
              /\ u \notin Branched
      <4> SUFFICES ASSUME NEW u \in Types, creating'[u] = c
                   PROVE  /\ TypeOf(c)' = u /\ Mode(c)' = "lent"
                          /\ pc'[c] \in {"number", "insert", "check", "save"}
                          /\ rule'[c] = NewRule(u, "org")' /\ made'[<<u, "org">>] < MaxGen
                          /\ u \notin Branched
        OBVIOUS
      <4>1. u = t
        BY <1>7, <2>2
      <4> QED
        BY <1>1, <1>2, <1>4, <1>5, <1>11, <2>1, <3>2, <4>1
    <3>4. \A u \in Types : creating[u] \in Callers \ {c} => creating'[u] = creating[u]
      BY <1>1, <2>2, Parameters
    <3>5. \A u \in Types : creating'[u] \in Callers \cup {None} /\
              (creating'[u] \in Callers \ {c} =>
                  creating'[u] = creating[u] /\ made'[<<u, "org">>] = made[<<u, "org">>])
      BY <2>1, <2>2
    <3>6. /\ rule'[c] \in Rules /\ rule'[c][1] = TypeOf(c)' /\ creating'[TypeOf(c)'] = c
          /\ pc'[c] # "ensure"
      BY <1>2, <1>3, <1>4, <1>5, <2>2
    <3> QED
      BY <1>5, <3>1, <3>3, <3>4, <3>5, <3>6, RulesStep
  <2>5. ruleChanges' = 0 => FirstRules'
    <3> SUFFICES ASSUME ruleChanges = 0 PROVE FirstRules'
      BY <1>1
    <3>1. \A u \in Types : creating'[u] # None => made'[<<u, "org">>] = 0
      BY <1>8, <2>1, <2>2 DEF NumberingInv, FirstRules
    <3> QED
      BY <1>1, <1>9, <1>10, <2>1, <3>1 DEF NumberingInv, FirstRules
  <2> QED
    BY <1>5, <2>3, <2>4, <2>5 DEF NumberingInv
<1>12. CASE Mode(c) # "lent"
  <2>1. /\ active' = [active EXCEPT ![<<t, "org">>] = m + 1]
        /\ made' = [made EXCEPT ![<<t, "org">>] = m + 1] /\ UNCHANGED creating
    BY <1>12 DEF CreateDefault
  <2>2. /\ made' \in [Types \X Scopes -> 0 .. MaxGen] /\ active' \in [Types \X Scopes -> 0 .. MaxGen]
        /\ made'[<<t, "org">>] = m + 1 /\ active'[<<t, "org">>] = m + 1
        /\ \A u \in Types, s \in Scopes : <<u, s>> # <<t, "org">> =>
              made'[<<u, s>>] = made[<<u, s>>] /\ active'[<<u, s>>] = active[<<u, s>>]
    <3>1. m + 1 \in 0 .. MaxGen
      BY <1>1, <1>3, Parameters
    <3>2. <<t, "org">> \in Types \X Scopes
      BY <1>2, Parameters
    <3> HIDE DEF m
    <3> QED
      BY <2>1, <3>1, <3>2, Parameters DEF NumberingInv, NumberingTypeOK
  <2>3. NumberingTypeOK'
    <3>1. \A u \in Types, s \in Scopes : active'[<<u, s>>] <= made'[<<u, s>>]
      <4> SUFFICES ASSUME NEW u \in Types, NEW s \in Scopes
                   PROVE  active'[<<u, s>>] <= made'[<<u, s>>]
        OBVIOUS
      <4>1. CASE <<u, s>> = <<t, "org">>
        BY <1>3, <2>2, <4>1
      <4>2. CASE <<u, s>> # <<t, "org">>
        BY <1>6, <2>2, <4>2
      <4> QED
        BY <4>1, <4>2
    <3> QED
      BY <1>1, <1>4, <1>5, <2>1, <2>2, <3>1 DEF NumberingInv, NumberingTypeOK
  <2>4. RulesMade'
    <3>1. \A u \in Types, s \in Scopes : made'[<<u, s>>] \in Nat /\ made'[<<u, s>>] >= made[<<u, s>>]
      <4> SUFFICES ASSUME NEW u \in Types, NEW s \in Scopes
                   PROVE  made'[<<u, s>>] \in Nat /\ made'[<<u, s>>] >= made[<<u, s>>]
        OBVIOUS
      <4>1. CASE <<u, s>> = <<t, "org">>
        BY <1>3, <2>2, <4>1
      <4>2. CASE <<u, s>> # <<t, "org">>
        BY <1>6, <2>2, <4>2, Parameters
      <4> QED
        BY <4>1, <4>2
    <3>2. \A u \in Types : creating'[u] = creating[u] /\ creating'[u] # c /\ creating'[u] \in Callers \cup {None}
      BY <1>7, <2>1 DEF NumberingInv, NumberingTypeOK
    <3>3. \A u \in Types : creating'[u] \in Callers \ {c} =>
              creating'[u] = creating[u] /\ made'[<<u, "org">>] = made[<<u, "org">>]
      <4> SUFFICES ASSUME NEW u \in Types, creating'[u] \in Callers \ {c}
                   PROVE  creating'[u] = creating[u] /\ made'[<<u, "org">>] = made[<<u, "org">>]
        OBVIOUS
      <4>1. u # t
        BY <1>1, <3>2, Parameters
      <4>2. <<u, "org">> # <<t, "org">>
        BY <4>1
      <4> QED
        BY <2>2, <3>2, <4>2, Parameters
    <3>4. /\ rule'[c] \in Rules /\ rule'[c][1] = TypeOf(c)'
          /\ rule'[c][3] <= made'[<<TypeOf(c)', rule'[c][2]>>] /\ pc'[c] # "ensure"
      BY <1>2, <1>3, <1>4, <1>5, <2>2
    <3> QED
      BY <1>5, <3>1, <3>2, <3>3, <3>4, RulesStep
  <2>5. ruleChanges' = 0 => FirstRules'
    <3> SUFFICES ASSUME ruleChanges = 0 PROVE FirstRules'
      BY <1>1
    <3>0. FirstRules /\ t \notin Branched /\ m = 0
      BY <1>8 DEF NumberingInv
    <3>1. \A u \in Types, s \in Scopes : active'[<<u, s>>] = made'[<<u, s>>] /\ made'[<<u, s>>] <= 1
      <4> SUFFICES ASSUME NEW u \in Types, NEW s \in Scopes
                   PROVE  active'[<<u, s>>] = made'[<<u, s>>] /\ made'[<<u, s>>] <= 1
        OBVIOUS
      <4>1. CASE <<u, s>> = <<t, "org">>
        BY <2>2, <3>0, <4>1
      <4>2. CASE <<u, s>> # <<t, "org">>
        BY <2>2, <3>0, <4>2 DEF FirstRules
      <4> QED
        BY <4>1, <4>2
    <3>2. \A u \in Types : creating'[u] # None => made'[<<u, "org">>] = 0
      <4> SUFFICES ASSUME NEW u \in Types, creating'[u] # None
                   PROVE  made'[<<u, "org">>] = 0
        OBVIOUS
      <4>1. creating[u] # None /\ u # t
        BY <1>1, <2>1, Parameters
      <4>2. <<u, "org">> # <<t, "org">>
        BY <4>1
      <4> QED
        BY <2>2, <3>0, <4>1, <4>2, Parameters DEF FirstRules
    <3>3. \A u \in Types : made'[<<u, "branch">>] = made[<<u, "branch">>]
      <4> SUFFICES ASSUME NEW u \in Types PROVE made'[<<u, "branch">>] = made[<<u, "branch">>]
        OBVIOUS
      <4>1. <<u, "branch">> # <<t, "org">>
        BY Parameters
      <4> QED
        BY <2>2, <4>1, Parameters
    <3>4. \A d \in Callers : /\ pc'[d] \notin {"idle", "ensure", "failed"} /\ TypeOf(d)' \in Branched
                                    => made'[<<TypeOf(d)', "branch">>] = 1
                             /\ pc'[d] \in Numbering => rule'[d] = FirstRule(TypeOf(d)')
                             /\ Holds(d)' /\ TypeOf(d)' \in Branched => got'[d] > Shared[TypeOf(d)']
      <4> SUFFICES ASSUME NEW d \in Callers
                   PROVE  /\ pc'[d] \notin {"idle", "ensure", "failed"} /\ TypeOf(d)' \in Branched
                                    => made'[<<TypeOf(d)', "branch">>] = 1
                          /\ pc'[d] \in Numbering => rule'[d] = FirstRule(TypeOf(d)')
                          /\ Holds(d)' /\ TypeOf(d)' \in Branched => got'[d] > Shared[TypeOf(d)']
        OBVIOUS
      <4>1. pc'[d] # "idle" => TypeOf(d) \in Types
        BY <1>1, <1>5, CallerType DEF NumberingInv, NumberingTypeOK
      <4>2. CASE TypeOf(d) \in Types
        BY <1>10, <3>3, <4>2
      <4>3. CASE pc'[d] = "idle"
        BY <4>3 DEF Numbering, Holds
      <4> QED
        BY <4>1, <4>2, <4>3
    <3>5. /\ \A u \in Types \ Branched : made'[<<u, "branch">>] = 0
          /\ \A u \in Branched : /\ Value(counter[<<u, "org", 1>>])' = Shared[u]
                                 /\ made'[<<u, "branch">>] = 1 => counter'[<<u, "branch", 1>>] >= Shared[u]
      BY <1>1, <1>9, <3>0, <3>3, Parameters DEF FirstRules
    <3> QED
      BY <3>1, <3>2, <3>4, <3>5 DEF FirstRules
  <2> QED
    BY <1>5, <2>3, <2>4, <2>5 DEF NumberingInv
<1> QED
  BY <1>11, <1>12

(* The document is saved with its number, and a rule it made becomes one   *)
(* for all.                                                                *)
LEMMA SaveKeeps ==
    ASSUME NumberingInv, NEW c \in Callers, Save(c)
    PROVE  NumberingInv'
<1> DEFINE t == TypeOf(c)
           m == made[<<t, "org">>]
           r0 == rule[c]
           v == Value(counter[r0])
<1>1. /\ pc[c] = "save" /\ pc' = [pc EXCEPT ![c] = "saved"]
      /\ lock' = [r \in Rules |-> IF lock[r] = c THEN None ELSE lock[r]]
      /\ creating' = [u \in Types |-> IF creating[u] = c THEN None ELSE creating[u]]
      /\ UNCHANGED <<ruleChanges, kind, rule, got, snap, tries, jumped, imported>>
  BY DEF Save, Goto, Unlock
<1>2. /\ r0 \in Rules /\ r0[1] = t /\ t \in Types /\ v \in Nat /\ counter[r0] <= v /\ counter[r0] \in Int
      /\ got[c] \in Nat
  BY <1>1, RuleOfCaller, CounterType, CallerType DEF NumberingInv, Numbering
<1>3. pc'[c] = "saved" /\ \A d \in Callers \ {c} : pc'[d] = pc[d]
  BY <1>1 DEF NumberingInv, NumberingTypeOK
<1>4. \A d \in Callers \ {c} : Same(d)
  BY <1>1, <1>3 DEF Same
<1>5. \A r \in Rules : lock'[r] = IF lock[r] = c THEN None ELSE lock[r]
  BY <1>1
<1>6. \A u \in Types : creating'[u] = IF creating[u] = c THEN None ELSE creating[u]
  BY <1>1
<1>7. ASSUME Mode(c) = "lent"
      PROVE  /\ lock[r0] = c /\ got[c] > v
             /\ \A n \in Nat : n > v /\ n <= got[c] => n \in jumped[c] \/ n = got[c]
             /\ counter'[r0] = got[c] /\ \A r \in Rules \ {r0} : counter'[r] = counter[r]
             /\ skipped'[r0] = skipped[r0] \cup jumped[c]
             /\ \A r \in Rules \ {r0} : skipped'[r] = skipped[r]
             /\ counter' \in [Rules -> Nat \cup {NoRow}] /\ skipped' \in [Rules -> SUBSET Nat]
  <2>1. lock[r0] = c
    BY <1>1, <1>7 DEF NumberingInv, LentHolders
  <2>2. /\ got[c] > v
        /\ \A n \in Nat : n > v /\ n <= got[c] => n \in jumped[c] \/ n = got[c]
    BY <1>2, <2>1, Parameters DEF NumberingInv, Locks
  <2>3. /\ counter' = [counter EXCEPT ![r0] = got[c]]
        /\ skipped' = [skipped EXCEPT ![r0] = @ \cup jumped[c]]
    BY <1>7 DEF Save
  <2>4. jumped[c] \subseteq Nat
    BY CallerType DEF NumberingInv
  <2>5. counter' \in [Rules -> Nat \cup {NoRow}] /\ skipped' \in [Rules -> SUBSET Nat]
    <3> HIDE DEF r0
    <3>1. skipped[r0] \cup jumped[c] \in SUBSET Nat
      BY <1>2, <2>4 DEF NumberingInv, NumberingTypeOK
    <3> QED
      BY <1>2, <2>3, <3>1 DEF NumberingInv, NumberingTypeOK
  <2>6. /\ counter'[r0] = got[c] /\ \A r \in Rules \ {r0} : counter'[r] = counter[r]
        /\ skipped'[r0] = skipped[r0] \cup jumped[c]
        /\ \A r \in Rules \ {r0} : skipped'[r] = skipped[r]
    BY <1>2, <2>3 DEF NumberingInv, NumberingTypeOK
  <2> QED
    BY <2>1, <2>2, <2>5, <2>6
<1>8. Mode(c) # "lent" => UNCHANGED <<counter, skipped>>
  BY DEF Save
<1>9. /\ \A r \in Rules : counter'[r] \in Int /\ counter[r] \in Int /\ counter'[r] >= counter[r]
                          /\ (r # r0 => counter'[r] = counter[r] /\ skipped'[r] = skipped[r])
      /\ counter' \in [Rules -> Nat \cup {NoRow}] /\ skipped' \in [Rules -> SUBSET Nat]
  <2>1. \A r \in Rules : counter[r] \in Int
    BY CounterType DEF NumberingInv
  <2>2. CASE Mode(c) = "lent"
    BY <1>2, <1>7, <2>1, <2>2
  <2>3. CASE Mode(c) # "lent"
    BY <1>8, <2>1, <2>3 DEF NumberingInv, NumberingTypeOK
  <2> QED
    BY <2>2, <2>3
<1>10. /\ creating[t] = c => /\ active' = [active EXCEPT ![<<t, "org">>] = m + 1]
                             /\ made' = [made EXCEPT ![<<t, "org">>] = m + 1]
                             /\ r0 = <<t, "org", m + 1>> /\ m < MaxGen /\ t \notin Branched
       /\ creating[t] # c => UNCHANGED <<active, made>>
       /\ \A u \in Types : creating[u] = c => u = t
  <2>1. \A u \in Types : creating[u] = c =>
            u = t /\ r0 = NewRule(u, "org") /\ made[<<u, "org">>] < MaxGen /\ u \notin Branched
    BY Parameters DEF NumberingInv, RulesMade
  <2>2. \A u : NewRule(u, "org") = <<u, "org", made[<<u, "org">>] + 1>>
    BY DEF NewRule
  <2>3. creating[t] = c => /\ active' = [active EXCEPT ![<<t, "org">>] = m + 1]
                           /\ made' = [made EXCEPT ![<<t, "org">>] = m + 1]
    BY DEF Save
  <2>4. creating[t] # c => UNCHANGED <<active, made>>
    BY DEF Save
  <2> QED
    BY <1>2, <2>1, <2>2, <2>3, <2>4
<1>11. m \in Nat /\ m <= MaxGen
  BY <1>2, ScopeType, Parameters DEF NumberingInv
<1> HIDE DEF m, r0, v
<1>12. /\ made' \in [Types \X Scopes -> 0 .. MaxGen] /\ active' \in [Types \X Scopes -> 0 .. MaxGen]
       /\ creating[t] = c => made'[<<t, "org">>] = m + 1 /\ active'[<<t, "org">>] = m + 1
       /\ \A u \in Types, s \in Scopes : <<u, s>> # <<t, "org">> \/ creating[t] # c =>
              made'[<<u, s>>] = made[<<u, s>>] /\ active'[<<u, s>>] = active[<<u, s>>]
  <2>1. <<t, "org">> \in Types \X Scopes
    BY <1>2, Parameters
  <2>2. CASE creating[t] = c
    <3>1. m + 1 \in 0 .. MaxGen
      BY <1>10, <1>11, <2>2, Parameters
    <3>2. /\ active' = [active EXCEPT ![<<t, "org">>] = m + 1]
          /\ made' = [made EXCEPT ![<<t, "org">>] = m + 1]
      BY <1>10, <2>2
    <3>3. active \in [Types \X Scopes -> 0 .. MaxGen] /\ made \in [Types \X Scopes -> 0 .. MaxGen]
      BY DEF NumberingInv, NumberingTypeOK
    <3>4. /\ made' \in [Types \X Scopes -> 0 .. MaxGen] /\ active' \in [Types \X Scopes -> 0 .. MaxGen]
          /\ made'[<<t, "org">>] = m + 1 /\ active'[<<t, "org">>] = m + 1
      BY <2>1, <3>1, <3>2, <3>3
    <3>5. \A u \in Types, s \in Scopes : <<u, s>> # <<t, "org">> =>
              made'[<<u, s>>] = made[<<u, s>>] /\ active'[<<u, s>>] = active[<<u, s>>]
      BY <3>2, <3>3, Parameters
    <3> QED
      BY <2>2, <3>4, <3>5
  <2>3. CASE creating[t] # c
    BY <1>10, <2>3 DEF NumberingInv, NumberingTypeOK
  <2> QED
    BY <2>2, <2>3
<1>13. \A u \in Types, s \in Scopes : made'[<<u, s>>] \in Nat /\ made'[<<u, s>>] >= made[<<u, s>>]
                                      /\ active'[<<u, s>>] <= made'[<<u, s>>]
  <2> SUFFICES ASSUME NEW u \in Types, NEW s \in Scopes
               PROVE  made'[<<u, s>>] \in Nat /\ made'[<<u, s>>] >= made[<<u, s>>]
                      /\ active'[<<u, s>>] <= made'[<<u, s>>]
    OBVIOUS
  <2>1. made[<<u, s>>] \in Nat /\ active[<<u, s>>] <= made[<<u, s>>]
    BY ScopeType DEF NumberingInv
  <2>2. CASE <<u, s>> # <<t, "org">> \/ creating[t] # c
    BY <1>12, <2>1, <2>2
  <2>3. CASE <<u, s>> = <<t, "org">> /\ creating[t] = c
    BY <1>11, <1>12, <2>3 DEF m
  <2> QED
    BY <2>2, <2>3
<1>14. NumberingTypeOK'
  <2>1. lock' \in [Rules -> Callers \cup {None}] /\ creating' \in [Types -> Callers \cup {None}]
    BY <1>1 DEF NumberingInv, NumberingTypeOK
  <2>2. pc' \in [Callers -> {"idle", "ensure", "begin", "resolve", "number", "insert",
                            "inner", "check", "save", "saved", "failed"}]
    BY <1>1 DEF NumberingInv, NumberingTypeOK
  <2>3. \A d \in Callers : pc'[d] = "idle" <=> kind'[d] = NoKind
    BY <1>1, <1>3 DEF NumberingInv, NumberingTypeOK
  <2> QED
    BY <1>1, <1>9, <1>12, <1>13, <2>1, <2>2, <2>3 DEF NumberingInv, NumberingTypeOK
<1>15. Limits'
  BY <1>1, <1>3 DEF NumberingInv, Limits, Mode
<1>16. Locks'
  <2> SUFFICES ASSUME NEW r \in Rules, lock'[r] # None
               PROVE  (/\ Mode(lock[r]) = "lent" /\ rule[lock[r]] = r
                       /\ pc[lock[r]] \in {"number", "check", "save"}
                       /\ got[lock[r]] > Value(counter[r])
                       /\ \A n \in Nat : n > Value(counter[r]) /\ n <= got[lock[r]]
                             => n \in jumped[lock[r]] \/ (n = got[lock[r]] /\ pc[lock[r]] # "number"))'
    BY DEF Locks
  <2>1. lock[r] \in Callers \ {c} /\ lock'[r] = lock[r] /\ lock[r] # None
    BY <1>5 DEF NumberingInv, NumberingTypeOK
  <2>2. counter'[r] = counter[r]
    <3>1. CASE Mode(c) = "lent"
      BY <1>7, <1>9, <2>1, <3>1
    <3>2. CASE Mode(c) # "lent"
      BY <1>8, <3>2
    <3> QED
      BY <3>1, <3>2
  <2>3. Value(counter[r])' = Value(counter[r])
    BY <2>2 DEF Value
  <2>4. Same(lock[r])
    BY <1>4, <2>1
  <2> QED
    BY <2>1, <2>3, <2>4 DEF NumberingInv, Locks, Same, Mode
<1>17. LentHolders'
  <2> SUFFICES ASSUME NEW d \in Callers, pc'[d] \in {"check", "save"}, Mode(d)' = "lent"
               PROVE  lock'[rule'[d]] = d
    BY DEF LentHolders
  <2>1. d # c /\ pc[d] \in {"check", "save"} /\ Mode(d) = "lent" /\ rule'[d] = rule[d]
    BY <1>1, <1>3 DEF Mode
  <2>2. lock[rule[d]] = d /\ rule[d] \in Rules
    BY <2>1 DEF NumberingInv, LentHolders, RulesMade, Numbering
  <2> QED
    BY <1>5, <2>1, <2>2
<1>18. Committed'
  <2> SUFFICES ASSUME NEW d \in Callers, Holds(d)', ~Pending(d)'
               PROVE  got'[d] > 0 /\ got'[d] <= counter'[rule'[d]]
    BY DEF Committed
  <2>1. CASE d = c /\ Mode(c) = "lent"
    <3>1. got[c] > v /\ counter'[r0] = got[c] /\ rule'[c] = r0 /\ got'[c] = got[c]
      BY <1>1, <1>7, <2>1 DEF r0
    <3> QED
      BY <1>2, <2>1, <3>1
  <2>2. CASE d # c \/ Mode(c) # "lent"
    <3>1. Holds(d) /\ ~Pending(d) /\ got'[d] = got[d] /\ rule'[d] = rule[d]
      BY <1>1, <1>3, <2>2 DEF Holds, Pending, Mode
    <3>2. got[d] > 0 /\ got[d] <= counter[rule[d]] /\ rule[d] \in Rules /\ got[d] \in Nat
      BY <3>1, RuleOfCaller, CallerType DEF NumberingInv, Committed, Holds, Numbering
    <3> QED
      BY <1>9, <3>1, <3>2
  <2> QED
    BY <2>1, <2>2
<1>19. NumbersUnique'
  <2>1. \A d \in Callers : Holds(d)' => Holds(d)
    BY <1>1, <1>3 DEF Holds
  <2> QED
    BY <1>1, <2>1 DEF NumberingInv, NumbersUnique
<1>20. GapsAreBurned'
  <2> SUFFICES ASSUME NEW r \in Rules, NEW n \in 1 .. counter'[r], n \notin skipped'[r]
               PROVE  \E d \in Callers :
                         /\ rule'[d] = r /\ got'[d] = n
                         /\ pc'[d] \in (IF Mode(d)' = "lent" THEN {"saved"} ELSE {"check", "save"} \cup Ended)
    BY DEF GapsAreBurned
  <2>1. CASE Mode(c) = "lent" /\ r = r0 /\ n > v
    <3>1. n = got[c]
      BY <1>2, <1>7, <2>1
    <3> QED
      BY <1>1, <1>3, <2>1, <3>1 DEF Mode, r0
  <2>2. CASE ~(Mode(c) = "lent" /\ r = r0 /\ n > v)
    <3>1. n \in 1 .. counter[r] /\ n \notin skipped[r]
      <4>1. CASE Mode(c) # "lent"
        BY <1>8, <4>1
      <4>2. CASE r # r0
        BY <1>9, <4>2
      <4>3. CASE Mode(c) = "lent" /\ r = r0
        <5>1. n <= v /\ n > 0 /\ n \in Nat
          BY <1>2, <1>7, <2>2, <4>3
        <5>2. v = counter[r0] \/ v = 0
          BY DEF v, Value
        <5>3. n <= counter[r0] /\ counter[r0] \in Int
          BY <1>2, <5>1, <5>2
        <5>4. n \notin skipped[r0]
          BY <1>7, <4>3
        <5> QED
          BY <4>3, <5>1, <5>3, <5>4
      <4> QED
        BY <4>1, <4>2, <4>3
    <3>2. PICK d \in Callers :
            /\ rule[d] = r /\ got[d] = n
            /\ pc[d] \in (IF Mode(d) = "lent" THEN {"saved"} ELSE {"check", "save"} \cup Ended)
      BY <3>1 DEF NumberingInv, GapsAreBurned
    <3>3. CASE d = c
      BY <1>1, <1>3, <3>2, <3>3 DEF Mode, Ended
    <3>4. CASE d # c
      BY <1>4, <3>2, <3>4 DEF Same, Mode
    <3> QED
      BY <3>3, <3>4
  <2> QED
    BY <2>1, <2>2
<1>21. RulesMade'
  <2>1. \A u \in Types : creating[u] \in Callers \ {c} => creating'[u] = creating[u]
    BY <1>6
  <2>2. \A u \in Types : creating'[u] # c /\ creating'[u] \in Callers \cup {None}
    BY <1>6, Parameters DEF NumberingInv, NumberingTypeOK
  <2>3. \A u \in Types : creating'[u] \in Callers \ {c} =>
            creating'[u] = creating[u] /\ made'[<<u, "org">>] = made[<<u, "org">>]
    <3> SUFFICES ASSUME NEW u \in Types, creating'[u] \in Callers \ {c}
                 PROVE  creating'[u] = creating[u] /\ made'[<<u, "org">>] = made[<<u, "org">>]
      OBVIOUS
    <3>1. creating'[u] = creating[u] /\ creating[u] # c
      BY <1>6, Parameters
    <3>2. u # t \/ creating[t] # c
      BY <3>1
    <3>3. <<u, "org">> # <<t, "org">> \/ creating[t] # c
      BY <3>2
    <3> QED
      BY <1>12, <3>1, <3>3, Parameters
  <2>4. /\ rule'[c] \in Rules /\ rule'[c][1] = TypeOf(c)' /\ pc'[c] # "ensure"
        /\ rule'[c][3] <= made'[<<TypeOf(c)', rule'[c][2]>>]
    <3>1. rule'[c] = r0 /\ TypeOf(c)' = t /\ r0[2] \in Scopes /\ r0[3] \in Nat
      BY <1>1, <1>2, RuleIs, Parameters DEF r0, TypeOf
    <3>2. r0[3] <= made'[<<t, r0[2]>>]
      <4>1. CASE creating[t] = c
        <5>1. r0[2] = "org" /\ r0[3] = m + 1
          BY <1>10, <4>1
        <5> QED
          BY <1>11, <1>12, <4>1, <5>1
      <4>2. CASE creating[t] # c
        <5>1. r0[3] <= made[<<t, r0[2]>>]
          BY <1>1, <4>2 DEF NumberingInv, RulesMade, Numbering, r0
        <5> QED
          BY <1>2, <1>12, <3>1, <4>2, <5>1
      <4> QED
        BY <4>1, <4>2
    <3> QED
      BY <1>2, <1>3, <3>1, <3>2
  <2> QED
    BY <1>4, <1>13, <2>1, <2>2, <2>3, <2>4, RulesStep
<1>22. ruleChanges' = 0 => FirstRules'
  <2> SUFFICES ASSUME ruleChanges = 0 PROVE FirstRules'
    BY <1>1
  <2>0. FirstRules
    BY DEF NumberingInv
  <2>1. \A u \in Types, s \in Scopes : active'[<<u, s>>] = made'[<<u, s>>] /\ made'[<<u, s>>] <= 1
    <3> SUFFICES ASSUME NEW u \in Types, NEW s \in Scopes
                 PROVE  active'[<<u, s>>] = made'[<<u, s>>] /\ made'[<<u, s>>] <= 1
      OBVIOUS
    <3>1. CASE <<u, s>> # <<t, "org">> \/ creating[t] # c
      BY <1>12, <2>0, <3>1 DEF FirstRules
    <3>2. CASE <<u, s>> = <<t, "org">> /\ creating[t] = c
      <4>1. m = 0
        BY <1>2, <2>0, <3>2, Parameters DEF FirstRules, m
      <4> QED
        BY <1>12, <3>2, <4>1
    <3> QED
      BY <3>1, <3>2
  <2>2. \A u \in Types : creating'[u] # None => made'[<<u, "org">>] = 0
    <3> SUFFICES ASSUME NEW u \in Types, creating'[u] # None
                 PROVE  made'[<<u, "org">>] = 0
      OBVIOUS
    <3>1. creating[u] # None /\ creating[u] # c
      BY <1>6
    <3>2. u # t \/ creating[t] # c
      BY <3>1
    <3>3. <<u, "org">> # <<t, "org">> \/ creating[t] # c
      BY <3>2
    <3> QED
      BY <1>12, <2>0, <3>1, <3>3, Parameters DEF FirstRules
  <2>3. \A u \in Types : made'[<<u, "branch">>] = made[<<u, "branch">>]
    <3> SUFFICES ASSUME NEW u \in Types PROVE made'[<<u, "branch">>] = made[<<u, "branch">>]
      OBVIOUS
    <3>1. <<u, "branch">> # <<t, "org">>
      BY Parameters
    <3> QED
      BY <1>12, <3>1, Parameters
  <2>4. ASSUME NEW u \in Branched
        PROVE  /\ Value(counter[<<u, "org", 1>>])' = Shared[u]
               /\ made'[<<u, "branch">>] = 1 => counter'[<<u, "branch", 1>>] >= Shared[u]
    <3>1. <<u, "org", 1>> \in Rules /\ <<u, "branch", 1>> \in Rules /\ u \in Types
      BY RuleIs, Parameters
    <3>2. <<u, "org", 1>> # r0
      <4>1. r0 = <<t, IF t \in Branched THEN "branch" ELSE "org", 1>>
        BY <1>1, <2>0 DEF FirstRules, FirstRule, Numbering, r0
      <4>2. CASE t = u
        BY <4>1, <4>2, Parameters
      <4>3. CASE t # u
        BY <4>1, <4>3
      <4> QED
        BY <4>2, <4>3
    <3>3. counter'[<<u, "org", 1>>] = counter[<<u, "org", 1>>]
      BY <1>9, <3>1, <3>2
    <3>4. /\ counter'[<<u, "branch", 1>>] >= counter[<<u, "branch", 1>>]
          /\ counter'[<<u, "branch", 1>>] \in Int /\ counter[<<u, "branch", 1>>] \in Int
      BY <1>9, <3>1
    <3>5. Value(counter[<<u, "org", 1>>]) = Shared[u] /\ Shared[u] \in Nat
      BY <2>0, Parameters DEF FirstRules
    <3>6. made[<<u, "branch">>] = 1 => counter[<<u, "branch", 1>>] >= Shared[u]
      BY <2>0 DEF FirstRules
    <3> QED
      BY <2>3, <3>1, <3>3, <3>4, <3>5, <3>6 DEF Value
  <2>5. ASSUME NEW d \in Callers
        PROVE  /\ pc'[d] \notin {"idle", "ensure", "failed"} /\ TypeOf(d)' \in Branched
                      => made'[<<TypeOf(d)', "branch">>] = 1
               /\ pc'[d] \in Numbering => rule'[d] = FirstRule(TypeOf(d)')
               /\ Holds(d)' /\ TypeOf(d)' \in Branched => got'[d] > Shared[TypeOf(d)']
    <3>1. /\ TypeOf(d)' = TypeOf(d)
          /\ Holds(d)' => Holds(d)
          /\ pc'[d] \in Numbering => pc[d] \in Numbering
          /\ pc'[d] \notin {"idle", "ensure", "failed"} => pc[d] \notin {"idle", "ensure", "failed"}
          /\ rule'[d] = rule[d] /\ got'[d] = got[d]
      BY <1>1, <1>3 DEF TypeOf, Holds, Numbering
    <3>2. TypeOf(d) \in Branched => made'[<<TypeOf(d), "branch">>] = made[<<TypeOf(d), "branch">>]
      BY <2>3, Parameters
    <3> QED
      BY <2>0, <3>1, <3>2 DEF FirstRules
  <2>6. \A u \in Types \ Branched : made'[<<u, "branch">>] = 0
    BY <2>0, <2>3 DEF FirstRules
  <2> QED
    BY <2>1, <2>2, <2>4, <2>5, <2>6 DEF FirstRules
<1>23. (Cardinality(NestedIn) <= MaxNested)'
  <2>1. \A d \in Callers : pc'[d] \notin Ended \cup {"idle"} => pc[d] \notin Ended \cup {"idle"}
    BY <1>3 DEF Ended
  <2> QED
    BY <1>1, <2>1, NestedKept
<1> QED
  BY <1>1, <1>14, <1>15, <1>16, <1>17, <1>18, <1>19, <1>20, <1>21, <1>22, <1>23 DEF NumberingInv

(* A call comes: there are never more than so many transactions that are    *)
(* not lent.                                                               *)
LEMMA StartKeeps ==
    ASSUME NumberingInv, NEW c \in Callers, Start(c)
    PROVE  NumberingInv'
<1>1. PICK k \in Kinds :
         /\ pc[c] = "idle"
         /\ k.mode = "nested" => Cardinality(NestedIn) < MaxNested
         /\ kind' = [kind EXCEPT ![c] = k]
         /\ pc' = [pc EXCEPT ![c] = IF k.type \in Branched THEN "ensure"
                                    ELSE IF k.mode = "lent" THEN "begin" ELSE "resolve"]
         /\ UNCHANGED <<ruleVars, counter, lock, rule, got, snap, tries, jumped, skipped, imported>>
  BY DEF Start, Goto, NestedIn
<1>2. /\ pc'[c] \in {"ensure", "begin", "resolve"} /\ (pc'[c] = "ensure" <=> k.type \in Branched)
      /\ \A d \in Callers \ {c} : pc'[d] = pc[d]
      /\ kind'[c] = k /\ \A d \in Callers \ {c} : kind'[d] = kind[d]
  BY <1>1 DEF NumberingInv, NumberingTypeOK
<1>3. TypeOf(c)' = k.type /\ Mode(c)' = k.mode
  BY <1>2 DEF TypeOf, Mode
<1>4. \A d \in Callers \ {c} : Same(d)
  BY <1>1, <1>2 DEF Same
<1>5. NumberingTypeOK'
  <2>1. kind' \in [Callers -> Kinds \cup {NoKind}]
    BY <1>1 DEF NumberingInv, NumberingTypeOK
  <2>2. pc' \in [Callers -> {"idle", "ensure", "begin", "resolve", "number", "insert",
                            "inner", "check", "save", "saved", "failed"}]
    BY <1>1 DEF NumberingInv, NumberingTypeOK
  <2>3. \A d \in Callers : pc'[d] = "idle" <=> kind'[d] = NoKind
    BY <1>2, Parameters DEF NumberingInv, NumberingTypeOK
  <2> QED
    BY <1>1, <2>1, <2>2, <2>3 DEF NumberingInv, NumberingTypeOK, ruleVars
<1>6. Limits'
  <2>1. tries[c] < MaxAttempts
    BY <1>1 DEF NumberingInv, Limits
  <2>2. \A d \in Callers \ {c} : Mode(d)' = Mode(d)
    BY <1>2 DEF Mode
  <2> QED
    BY <1>1, <1>2, <2>1, <2>2 DEF NumberingInv, Limits
<1>7. (\A r \in Rules : lock[r] # c) /\ (\A t \in Types : creating[t] # c)
  BY <1>1, NotHolding
<1>8. Locks' /\ LentHolders' /\ Committed' /\ NumbersUnique' /\ GapsAreBurned'
  BY <1>1, <1>2, <1>4, <1>7, NumbersKept
<1>9. RulesMade'
  <2>1. made' = made /\ creating' = creating /\ pc[c] \notin Numbering /\ pc'[c] \notin Numbering
        /\ (pc'[c] = "ensure" => TypeOf(c)' \in Branched)
    BY <1>1, <1>2, <1>3 DEF ruleVars, Numbering
  <2> QED
    BY <1>4, <1>7, <2>1, RulesKept
<1>10. ruleChanges' = 0 => FirstRules'
  <2>1. /\ UNCHANGED <<active, made, ruleChanges, creating, counter>>
        /\ pc[c] \notin Numbering /\ pc'[c] \notin Numbering /\ ~Holds(c)'
    BY <1>1, <1>2 DEF ruleVars, Numbering, Holds
  <2>2. ~(pc'[c] \notin {"idle", "ensure", "failed"} /\ TypeOf(c)' \in Branched)
    BY <1>2, <1>3
  <2> QED
    BY <1>4, <2>1, <2>2, FirstKept
<1>11. (Cardinality(NestedIn) <= MaxNested)'
  <2> DEFINE A == NestedIn
             B == NestedIn'
  <2>1. A \subseteq Callers /\ B \subseteq A \cup {c} /\ (k.mode # "nested" => B \subseteq A)
    BY <1>2, <1>3 DEF NestedIn, InTransaction, Mode
  <2>2. IsFiniteSet(A)
    BY <2>1, Parameters, FS_Subset
  <2> HIDE DEF A, B
  <2>3. Cardinality(A) \in Nat
    BY <2>2, FS_CardinalityType
  <2>4. CASE k.mode # "nested"
    <3>1. Cardinality(B) <= Cardinality(A) /\ IsFiniteSet(B)
      BY <2>1, <2>2, <2>4, FS_Subset
    <3>2. Cardinality(B) \in Nat /\ Cardinality(A) <= MaxNested
      BY <3>1, FS_CardinalityType DEF NumberingInv, A
    <3> QED
      BY <2>3, <3>1, <3>2, Parameters DEF B
  <2>5. CASE k.mode = "nested"
    <3>1. IsFiniteSet(A \cup {c}) /\ (Cardinality(A \cup {c}) = Cardinality(A) \/ Cardinality(A \cup {c}) = Cardinality(A) + 1)
      BY <2>2, FS_AddElement
    <3>2. Cardinality(B) <= Cardinality(A \cup {c}) /\ IsFiniteSet(B)
      BY <2>1, <3>1, FS_Subset
    <3>3. Cardinality(B) \in Nat
      BY <3>2, FS_CardinalityType
    <3>4. Cardinality(A) < MaxNested
      BY <1>1, <2>5 DEF A
    <3>5. Cardinality(B) <= MaxNested
      BY <2>3, <3>1, <3>2, <3>3, <3>4, Parameters
    <3> QED
      BY <3>5 DEF B
  <2> QED
    BY <2>4, <2>5
<1> QED
  BY <1>5, <1>6, <1>8, <1>9, <1>10, <1>11 DEF NumberingInv

(* A rule that is not made yet belongs to nobody. *)
LEMMA NewRuleIsFree ==
    ASSUME NumberingInv, NEW t \in Types, made[<<t, "branch">>] < MaxGen
    PROVE  /\ NewRule(t, "branch") \in Rules /\ NewRule(t, "branch")[2] = "branch"
           /\ \A d \in Callers : pc[d] \in Numbering => rule[d] # NewRule(t, "branch")
           /\ lock[NewRule(t, "branch")] = None
<1> DEFINE r == NewRule(t, "branch")
           m == made[<<t, "branch">>]
<1>1. m \in Nat /\ r = <<t, "branch", m + 1>> /\ r \in Rules /\ r[1] = t /\ r[2] = "branch" /\ r[3] = m + 1
  <2>1. m \in Nat /\ r = <<t, "branch", m + 1>>
    BY ScopeType, Parameters DEF NumberingInv, NewRule
  <2>2. m + 1 \in 1 .. MaxGen
    BY <2>1, Parameters
  <2> QED
    BY <2>1, <2>2, RuleIs, Parameters
<1> HIDE DEF r
<1>2. ASSUME NEW d \in Callers, pc[d] \in Numbering, rule[d] = r PROVE FALSE
  <2>0. /\ rule[d][1] = TypeOf(d)
        /\ rule[d][3] <= made[<<TypeOf(d), rule[d][2]>>] \/ creating[TypeOf(d)] = d
    BY <1>2 DEF NumberingInv, RulesMade
  <2>1. /\ TypeOf(d) = t
        /\ m + 1 <= m \/ creating[t] = d
    BY <1>1, <1>2, <2>0
  <2>2. creating[t] = d /\ d # None
    BY <1>1, <2>1, Parameters
  <2>3. r = <<t, "org", made[<<t, "org">>] + 1>>
    BY <1>2, <2>2 DEF NumberingInv, RulesMade, NewRule
  <2> QED
    BY <1>1, <2>3, Parameters
<1>3. lock[r] = None
  <2>1. lock[r] \in Callers \cup {None}
    BY <1>1 DEF NumberingInv, NumberingTypeOK
  <2>2. lock[r] # None => rule[lock[r]] = r /\ pc[lock[r]] \in {"number", "check", "save"}
    BY <1>1 DEF NumberingInv, Locks
  <2> QED
    BY <1>2, <2>1, <2>2 DEF Numbering
<1> QED
  BY <1>1, <1>2, <1>3 DEF r

(* The branch's rule is made from the organisation's: its counter starts    *)
(* where that one stands, and the numbers up to there are not its own.     *)
LEMMA CloneKeeps ==
    ASSUME NumberingInv, NEW c \in Callers, pc[c] = "ensure", Clone(TypeOf(c)),
           pc' = [pc EXCEPT ![c] = IF Mode(c) = "lent" THEN "begin" ELSE "resolve"],
           UNCHANGED <<creating, ruleChanges, lock, kind, rule, got, snap, tries, jumped, imported>>
    PROVE  NumberingInv'
<1> DEFINE t == TypeOf(c)
           b == made[<<t, "branch">>]
           o == made[<<t, "org">>]
           org == IF active[<<t, "org">>] # 0 THEN active[<<t, "org">>] ELSE o + 1
           o2 == IF active[<<t, "org">>] # 0 THEN o ELSE org
           stand == Value(counter[<<t, "org", org>>])
           r0 == NewRule(t, "branch")
<1>1. /\ active[<<t, "branch">>] = 0 /\ creating[t] = None /\ b < MaxGen /\ org <= MaxGen
      /\ active' = [active EXCEPT ![<<t, "branch">>] = b + 1, ![<<t, "org">>] = org]
      /\ made' = [made EXCEPT ![<<t, "branch">>] = b + 1, ![<<t, "org">>] = o2]
      /\ counter' = [counter EXCEPT ![r0] = stand]
      /\ skipped' = [skipped EXCEPT ![r0] = 1 .. stand]
  <2>1. made \in [Types \X Scopes -> 0 .. MaxGen]
    BY DEF NumberingInv, NumberingTypeOK
  <2>2. TypeOf(c) \in Types
    BY CallerType DEF NumberingInv
  <2> QED
    BY <2>1, <2>2, Parameters DEF Clone
<1>2. t \in Types /\ t \in Branched /\ t' = t
  BY CallerType, Parameters DEF NumberingInv, RulesMade, TypeOf
<1>3. /\ b \in Nat /\ o \in Nat /\ o <= MaxGen /\ active[<<t, "org">>] \in Nat /\ active[<<t, "org">>] <= o
      /\ org \in Nat /\ org > 0 /\ o2 \in Nat /\ o <= o2 /\ org <= o2 /\ o2 <= MaxGen
  <2>1. /\ b \in Nat /\ o \in Nat /\ o <= MaxGen /\ active[<<t, "org">>] \in Nat /\ active[<<t, "org">>] <= o
    BY <1>2, ScopeType, Parameters DEF NumberingInv
  <2> QED
    BY <1>1, <2>1
<1>4. stand \in Nat
  <2>1. <<t, "org", org>> \in Rules
    <3>1. org \in 1 .. MaxGen
      BY <1>1, <1>3, Parameters
    <3> QED
      BY <1>2, <3>1, RuleIs, Parameters
  <2> QED
    BY <2>1, CounterType DEF NumberingInv
<1>5. /\ r0 \in Rules /\ r0 = <<t, "branch", b + 1>> /\ r0[2] = "branch" /\ lock[r0] = None
      /\ \A d \in Callers : pc[d] \in Numbering => rule[d] # r0
  BY <1>1, <1>2, NewRuleIsFree DEF NewRule
<1> HIDE DEF r0, stand
<1>6. /\ counter'[r0] = stand /\ \A r \in Rules \ {r0} : counter'[r] = counter[r]
      /\ skipped'[r0] = 1 .. stand /\ \A r \in Rules \ {r0} : skipped'[r] = skipped[r]
      /\ counter' \in [Rules -> Nat \cup {NoRow}] /\ skipped' \in [Rules -> SUBSET Nat]
  <2>1. 1 .. stand \in SUBSET Nat
    BY <1>4
  <2> QED
    BY <1>1, <1>4, <1>5, <2>1 DEF NumberingInv, NumberingTypeOK
<1>7. /\ pc'[c] \in {"begin", "resolve"} /\ \A d \in Callers \ {c} : pc'[d] = pc[d]
  BY DEF NumberingInv, NumberingTypeOK
<1>8. \A d \in Callers \ {c} : Same(d)
  BY <1>7 DEF Same
<1>9. /\ made' \in [Types \X Scopes -> 0 .. MaxGen] /\ active' \in [Types \X Scopes -> 0 .. MaxGen]
      /\ made'[<<t, "branch">>] = b + 1 /\ active'[<<t, "branch">>] = b + 1
      /\ made'[<<t, "org">>] = o2 /\ active'[<<t, "org">>] = org
      /\ \A u \in Types, s \in Scopes : u # t => made'[<<u, s>>] = made[<<u, s>>]
                                               /\ active'[<<u, s>>] = active[<<u, s>>]
  <2>1. active \in [Types \X Scopes -> 0 .. MaxGen] /\ made \in [Types \X Scopes -> 0 .. MaxGen]
    BY DEF NumberingInv, NumberingTypeOK
  <2>2. b + 1 \in 0 .. MaxGen /\ org \in 0 .. MaxGen /\ o2 \in 0 .. MaxGen
    BY <1>1, <1>3, Parameters
  <2>3. <<t, "branch">> \in Types \X Scopes /\ <<t, "org">> \in Types \X Scopes /\ <<t, "branch">> # <<t, "org">>
    BY <1>2, Parameters
  <2>4. \A u \in Types, s \in Scopes : u # t =>
            <<u, s>> \in Types \X Scopes /\ <<u, s>> # <<t, "branch">> /\ <<u, s>> # <<t, "org">>
    OBVIOUS
  <2> HIDE DEF b, o, o2, org, t
  <2> QED
    BY <1>1, <2>1, <2>2, <2>3, <2>4
<1>10. \A u \in Types, s \in Scopes : made'[<<u, s>>] \in Nat /\ made'[<<u, s>>] >= made[<<u, s>>]
                                      /\ active'[<<u, s>>] <= made'[<<u, s>>]
  <2> SUFFICES ASSUME NEW u \in Types, NEW s \in Scopes
               PROVE  made'[<<u, s>>] \in Nat /\ made'[<<u, s>>] >= made[<<u, s>>]
                      /\ active'[<<u, s>>] <= made'[<<u, s>>]
    OBVIOUS
  <2>1. made[<<u, s>>] \in Nat /\ active[<<u, s>>] <= made[<<u, s>>]
    BY ScopeType DEF NumberingInv
  <2>2. CASE u # t
    BY <1>9, <2>1, <2>2
  <2>3. CASE u = t /\ s = "branch"
    BY <1>3, <1>9, <2>3
  <2>4. CASE u = t /\ s = "org"
    <3>1. made'[<<u, s>>] = o2 /\ active'[<<u, s>>] = org /\ made[<<u, s>>] = o
      BY <1>9, <2>4
    <3> HIDE DEF o, o2, org
    <3> QED
      BY <1>3, <3>1
  <2>5. s = "branch" \/ s = "org"
    BY DEF Scopes
  <2> QED
    BY <2>2, <2>3, <2>4, <2>5
<1> HIDE DEF b, o, o2, org
<1>11. NumberingTypeOK'
  <2>1. pc' \in [Callers -> {"idle", "ensure", "begin", "resolve", "number", "insert",
                            "inner", "check", "save", "saved", "failed"}]
    BY DEF NumberingInv, NumberingTypeOK
  <2>2. \A d \in Callers : pc'[d] = "idle" <=> kind'[d] = NoKind
    BY <1>7 DEF NumberingInv, NumberingTypeOK
  <2> QED
    BY <1>6, <1>9, <1>10, <2>1, <2>2 DEF NumberingInv, NumberingTypeOK
<1>12. Limits'
  BY <1>7 DEF NumberingInv, Limits, Mode
<1>13. Locks'
  <2> SUFFICES ASSUME NEW r \in Rules, lock[r] # None
               PROVE  (/\ Mode(lock[r]) = "lent" /\ rule[lock[r]] = r
                       /\ pc[lock[r]] \in {"number", "check", "save"}
                       /\ got[lock[r]] > Value(counter[r])
                       /\ \A n \in Nat : n > Value(counter[r]) /\ n <= got[lock[r]]
                             => n \in jumped[lock[r]] \/ (n = got[lock[r]] /\ pc[lock[r]] # "number"))'
    BY DEF Locks
  <2>0. lock[r] # c
    BY NotHolding
  <2>1. r # r0 /\ lock[r] \in Callers \ {c}
    BY <1>5, <2>0 DEF NumberingInv, NumberingTypeOK
  <2>2. Value(counter[r])' = Value(counter[r]) /\ lock'[r] = lock[r]
    BY <1>6, <2>1 DEF Value
  <2>3. Same(lock[r])
    BY <1>8, <2>1
  <2> QED
    BY <2>1, <2>2, <2>3 DEF NumberingInv, Locks, Same, Mode
<1>14. LentHolders'
  BY <1>7 DEF NumberingInv, LentHolders, Mode
<1>15. \A d \in Callers : /\ Holds(d)' => Holds(d) /\ rule[d] \in Rules /\ rule[d] # r0
                          /\ ~Pending(d)' => (Holds(d) => ~Pending(d))
  BY <1>5, <1>7, RuleOfCaller DEF Holds, Pending, Mode, Numbering
<1>16. Committed'
  BY <1>6, <1>15 DEF NumberingInv, Committed
<1>17. NumbersUnique'
  BY <1>15 DEF NumberingInv, NumbersUnique
<1>18. GapsAreBurned'
  <2> SUFFICES ASSUME NEW r \in Rules, NEW n \in 1 .. counter'[r], n \notin skipped'[r]
               PROVE  \E d \in Callers :
                         /\ rule'[d] = r /\ got'[d] = n
                         /\ pc'[d] \in (IF Mode(d)' = "lent" THEN {"saved"} ELSE {"check", "save"} \cup Ended)
    BY DEF GapsAreBurned
  <2>1. r # r0
    BY <1>6
  <2>2. PICK d \in Callers :
            /\ rule[d] = r /\ got[d] = n
            /\ pc[d] \in (IF Mode(d) = "lent" THEN {"saved"} ELSE {"check", "save"} \cup Ended)
    BY <1>6, <2>1 DEF NumberingInv, GapsAreBurned
  <2>3. d # c
    BY <2>2 DEF Ended
  <2> QED
    BY <1>8, <2>2, <2>3 DEF Same, Mode
<1>19. RulesMade'
  <2>1. \A u \in Types : creating'[u] # c /\ creating'[u] \in Callers \cup {None}
    BY NotHolding DEF NumberingInv, NumberingTypeOK
  <2>2. \A u \in Types : creating'[u] \in Callers \ {c} =>
            creating'[u] = creating[u] /\ made'[<<u, "org">>] = made[<<u, "org">>]
    BY <1>1, <1>9, Parameters
  <2>3. pc'[c] \notin Numbering /\ pc'[c] # "ensure"
    BY <1>7 DEF Numbering
  <2> QED
    BY <1>8, <1>10, <2>1, <2>2, <2>3, RulesStep
<1>20. ruleChanges' = 0 => FirstRules'
  <2> SUFFICES ASSUME ruleChanges = 0 PROVE FirstRules'
    OBVIOUS
  <2>0. FirstRules
    BY DEF NumberingInv
  <2>1. b = 0 /\ org = 1 /\ o2 = 1 /\ stand = Shared[t] /\ Shared[t] \in Nat
    <3>1. b = active[<<t, "branch">>] /\ active[<<t, "org">>] = o /\ o <= 1
      BY <1>2, <2>0, Parameters DEF FirstRules, b, o
    <3>2. b = 0 /\ org = 1 /\ o2 = 1
      BY <1>1, <1>3, <3>1 DEF org, o2
    <3> QED
      BY <1>2, <2>0, <3>2, Parameters DEF FirstRules, stand
  <2>2. \A u \in Types, s \in Scopes : active'[<<u, s>>] = made'[<<u, s>>] /\ made'[<<u, s>>] <= 1
    <3> SUFFICES ASSUME NEW u \in Types, NEW s \in Scopes
                 PROVE  active'[<<u, s>>] = made'[<<u, s>>] /\ made'[<<u, s>>] <= 1
      OBVIOUS
    <3>1. CASE u # t
      BY <1>9, <2>0, <3>1 DEF FirstRules
    <3>2. CASE u = t
      BY <1>9, <2>1, <3>2 DEF Scopes
    <3> QED
      BY <3>1, <3>2
  <2>3. \A u \in Types : creating'[u] # None => made'[<<u, "org">>] = 0
    BY <1>1, <1>9, <2>0, Parameters DEF FirstRules
  <2>4. \A u \in Types \ Branched : made'[<<u, "branch">>] = 0
    BY <1>2, <1>9, <2>0, Parameters DEF FirstRules
  <2>5. ASSUME NEW u \in Branched
        PROVE  /\ Value(counter[<<u, "org", 1>>])' = Shared[u]
               /\ made'[<<u, "branch">>] = 1 => counter'[<<u, "branch", 1>>] >= Shared[u]
    <3>1. <<u, "org", 1>> \in Rules /\ <<u, "branch", 1>> \in Rules /\ u \in Types
      BY RuleIs, Parameters
    <3>2. <<u, "org", 1>> # r0
      BY <1>5, Parameters
    <3>3. Value(counter[<<u, "org", 1>>])' = Shared[u]
      BY <1>6, <2>0, <3>1, <3>2 DEF FirstRules, Value
    <3>4. CASE u = t
      BY <1>5, <1>6, <2>1, <3>3, <3>4
    <3>5. CASE u # t
      <4>1. <<u, "branch", 1>> # r0
        BY <1>5, <3>5
      <4> QED
        BY <1>6, <1>9, <2>0, <3>1, <3>3, <3>5, <4>1, Parameters DEF FirstRules
    <3> QED
      BY <3>4, <3>5
  <2>6. \A u \in Types : made[<<u, "branch">>] = 1 => made'[<<u, "branch">>] = 1
    BY <1>9, <2>1, Parameters
  <2>7. ASSUME NEW d \in Callers
        PROVE  /\ pc'[d] \notin {"idle", "ensure", "failed"} /\ TypeOf(d)' \in Branched
                      => made'[<<TypeOf(d)', "branch">>] = 1
               /\ pc'[d] \in Numbering => rule'[d] = FirstRule(TypeOf(d)')
               /\ Holds(d)' /\ TypeOf(d)' \in Branched => got'[d] > Shared[TypeOf(d)']
    <3>1. TypeOf(d)' = TypeOf(d) /\ rule'[d] = rule[d] /\ got'[d] = got[d]
      BY DEF TypeOf
    <3>2. CASE d = c
      <4>1. pc'[d] \notin Numbering /\ ~Holds(d)'
        BY <1>7, <3>2 DEF Numbering, Holds
      <4> QED
        BY <1>9, <2>1, <3>1, <3>2, <4>1
    <3>3. CASE d # c
      <4>1. pc'[d] = pc[d] /\ (Holds(d)' <=> Holds(d))
        BY <1>7, <3>3 DEF Holds
      <4> QED
        BY <2>0, <2>6, <3>1, <4>1, Parameters DEF FirstRules
    <3> QED
      BY <3>2, <3>3
  <2> QED
    BY <2>2, <2>3, <2>4, <2>5, <2>7 DEF FirstRules
<1>21. (Cardinality(NestedIn) <= MaxNested)'
  <2>1. \A d \in Callers : pc'[d] \notin Ended \cup {"idle"} => pc[d] \notin Ended \cup {"idle"}
    BY <1>7 DEF Ended
  <2> QED
    BY <2>1, NestedKept
<1> QED
  BY <1>11, <1>12, <1>13, <1>14, <1>16, <1>17, <1>18, <1>19, <1>20, <1>21 DEF NumberingInv

(* The branch's rule is made, or found made by somebody else.              *)
LEMMA EnsureBranchRuleKeeps ==
    ASSUME NumberingInv, NEW c \in Callers, EnsureBranchRule(c)
    PROVE  NumberingInv'
<1>1. /\ pc[c] = "ensure"
      /\ pc' = [pc EXCEPT ![c] = IF Mode(c) = "lent" THEN "begin" ELSE "resolve"]
      /\ UNCHANGED <<creating, ruleChanges, lock, kind, rule, got, snap, tries, jumped, imported>>
  BY DEF EnsureBranchRule, Goto
<1>2. CASE active[<<TypeOf(c), "branch">>] = 0
  <2>1. Clone(TypeOf(c))
    BY <1>2 DEF EnsureBranchRule
  <2> QED
    BY <1>1, <2>1, CloneKeeps
<1>3. CASE active[<<TypeOf(c), "branch">>] # 0
  <2>1. UNCHANGED <<active, made, counter, skipped>>
    BY <1>3 DEF EnsureBranchRule
  <2>2. /\ pc'[c] \in {"begin", "resolve"} /\ pc' = [pc EXCEPT ![c] = pc'[c]]
    BY <1>1 DEF NumberingInv, NumberingTypeOK
  <2>3. UNCHANGED <<ruleVars, counter, lock, kind, rule, got, jumped, skipped, imported>>
    BY <1>1, <2>1 DEF ruleVars
  <2>4. (\A r \in Rules : lock[r] # c) /\ (\A t \in Types : creating[t] # c)
    BY <1>1, NotHolding
  <2>5. ruleChanges = 0 /\ FirstRules /\ TypeOf(c) \in Branched => made[<<TypeOf(c), "branch">>] = 1
    <3> SUFFICES ASSUME FirstRules, TypeOf(c) \in Branched
                 PROVE  made[<<TypeOf(c), "branch">>] = 1
      OBVIOUS
    <3>1. TypeOf(c) \in Types
      BY Parameters
    <3>2. made[<<TypeOf(c), "branch">>] \in Nat
      BY <3>1, ScopeType, Parameters DEF NumberingInv
    <3>3. active[<<TypeOf(c), "branch">>] = made[<<TypeOf(c), "branch">>] /\ made[<<TypeOf(c), "branch">>] <= 1
      BY <3>1, Parameters DEF FirstRules
    <3> QED
      BY <1>3, <3>2, <3>3
  <2>6. /\ snap' \in [Callers -> Nat \cup {NoRow}] /\ tries' \in [Callers -> 0 .. MaxAttempts]
        /\ tries'[c] < MaxAttempts /\ \A d \in Callers \ {c} : tries'[d] = tries[d]
    BY <1>1 DEF NumberingInv, NumberingTypeOK, Limits
  <2> QED
    BY <1>1, <2>2, <2>3, <2>4, <2>5, <2>6, MoveKeeps DEF Numbering
<1> QED
  BY <1>2, <1>3

-----------------------------------------------------------------------------
(* A step of no caller that touches no counter leaves all numbers alone.   *)
LEMMA NobodyMoves ==
    ASSUME NumberingInv, UNCHANGED <<callerVars, counter, lock, skipped>>
    PROVE  /\ Locks' /\ LentHolders' /\ Committed' /\ NumbersUnique' /\ GapsAreBurned'
           /\ (Cardinality(NestedIn) <= MaxNested)' /\ \A d \in Callers : Same(d)
<1>1. UNCHANGED <<kind, pc, rule, got, snap, tries, jumped, counter, lock, skipped>>
  BY DEF callerVars
<1>2. Locks'
  <2> SUFFICES ASSUME NEW r \in Rules, lock[r] # None
               PROVE  (/\ Mode(lock[r]) = "lent" /\ rule[lock[r]] = r
                       /\ pc[lock[r]] \in {"number", "check", "save"}
                       /\ got[lock[r]] > Value(counter[r])
                       /\ \A n \in Nat : n > Value(counter[r]) /\ n <= got[lock[r]]
                             => n \in jumped[lock[r]] \/ (n = got[lock[r]] /\ pc[lock[r]] # "number"))'
    BY <1>1 DEF Locks
  <2>1. Value(counter[r])' = Value(counter[r]) /\ lock'[r] = lock[r]
    BY <1>1 DEF Value
  <2> QED
    BY <1>1, <2>1 DEF NumberingInv, Locks, Mode
<1>3. LentHolders' /\ Committed'
  BY <1>1 DEF NumberingInv, LentHolders, Committed, Mode, Holds, Pending
<1>4. NumbersUnique' /\ GapsAreBurned'
  BY <1>1 DEF NumberingInv, NumbersUnique, GapsAreBurned, Mode, Holds
<1>5. (Cardinality(NestedIn) <= MaxNested)'
  BY <1>1, NestedKept
<1>6. \A d \in Callers : Same(d)
  BY <1>1 DEF Same
<1> QED
  BY <1>2, <1>3, <1>4, <1>5, <1>6

(* A code is written without a number. *)
LEMMA ImportCodeKeeps ==
    ASSUME NumberingInv, NEW t \in Types, ImportCode(t)
    PROVE  NumberingInv'
<1> DEFINE x == Highest(Taken(t) \cup {0}) + 1
<1>1. /\ imported' = [imported EXCEPT ![t] = @ \cup {x}]
      /\ UNCHANGED <<ruleVars, counter, lock, callerVars, skipped>>
  BY DEF ImportCode
<1>2. UNCHANGED <<active, made, creating, ruleChanges, kind, pc, rule, got, snap, tries, jumped>>
  BY <1>1 DEF ruleVars, callerVars
<1>3. x \in Nat
  <2>1. IsFiniteSet(Taken(t)) /\ Taken(t) \subseteq Nat
    BY TakenIs DEF NumberingInv
  <2>2. IsFiniteSet(Taken(t) \cup {0}) /\ Taken(t) \cup {0} \subseteq Nat /\ Taken(t) \cup {0} # {}
    BY <2>1, FS_AddElement
  <2>3. Highest(Taken(t) \cup {0}) \in Taken(t) \cup {0}
    BY <2>2, HighestIs
  <2> QED
    BY <2>2, <2>3
<1> HIDE DEF x
<1>4. /\ imported' \in [Types -> SUBSET Nat] /\ imported'[t] = imported[t] \cup {x}
      /\ \A u \in Types \ {t} : imported'[u] = imported[u]
  <2>1. imported[t] \cup {x} \in SUBSET Nat
    BY <1>3 DEF NumberingInv, NumberingTypeOK
  <2> QED
    BY <1>1, <2>1 DEF NumberingInv, NumberingTypeOK
<1>5. NumberingTypeOK'
  BY <1>1, <1>2, <1>4 DEF NumberingInv, NumberingTypeOK
<1>6. Limits'
  <2>1. \A u \in Types : IsFiniteSet(imported'[u])
    <3> SUFFICES ASSUME NEW u \in Types PROVE IsFiniteSet(imported'[u])
      OBVIOUS
    <3>1. IsFiniteSet(imported[u])
      BY DEF NumberingInv, Limits
    <3>2. CASE u = t
      BY <1>4, <3>1, <3>2, FS_AddElement
    <3>3. CASE u # t
      BY <1>4, <3>1, <3>3
    <3> QED
      BY <3>2, <3>3
  <2> QED
    BY <1>2, <2>1 DEF NumberingInv, Limits, Mode
<1>7. /\ Locks' /\ LentHolders' /\ Committed' /\ NumbersUnique' /\ GapsAreBurned'
      /\ (Cardinality(NestedIn) <= MaxNested)'
  BY <1>1, NobodyMoves
<1>8. RulesMade'
  BY <1>1, <1>2 DEF NumberingInv, RulesMade, NewRule, TypeOf, Mode
<1>9. ruleChanges' = 0 => FirstRules'
  <2>1. \A r : Value(counter[r])' = Value(counter[r])
    BY <1>1 DEF Value
  <2> QED
    BY <1>1, <1>2, <2>1 DEF NumberingInv, FirstRules, TypeOf, Holds, Pending
<1> QED
  BY <1>5, <1>6, <1>7, <1>8, <1>9 DEF NumberingInv

(* A change by hand: rules are only added, and none that a transaction is   *)
(* making.                                                                 *)
LEMMA RuleChangeKeeps ==
    ASSUME NumberingInv, NEW t \in Types, RuleChange(t),
           UNCHANGED <<creating, counter, lock, callerVars, skipped, imported>>,
           made' \in [Types \X Scopes -> 0 .. MaxGen], active' \in [Types \X Scopes -> 0 .. MaxGen],
           \A u \in Types, s \in Scopes : active'[<<u, s>>] <= made'[<<u, s>>]
                                          /\ made'[<<u, s>>] >= made[<<u, s>>],
           \A u \in Types : u # t => made'[<<u, "org">>] = made[<<u, "org">>]
    PROVE  NumberingInv'
<1>1. UNCHANGED <<kind, pc, rule, got, snap, tries, jumped>>
  BY DEF callerVars
<1>2. creating[t] = None /\ ruleChanges' = ruleChanges + 1 /\ ruleChanges' # 0
      /\ ruleChanges' \in 0 .. MaxRuleChanges
  BY NumberingAssumption DEF RuleChange, NumberingInv, NumberingTypeOK
<1>3. NumberingTypeOK'
  BY <1>1, <1>2 DEF NumberingInv, NumberingTypeOK
<1>4. Limits'
  BY <1>1 DEF NumberingInv, Limits, Mode
<1>5. /\ Locks' /\ LentHolders' /\ Committed' /\ NumbersUnique' /\ GapsAreBurned'
      /\ (Cardinality(NestedIn) <= MaxNested)' /\ \A d \in Callers : Same(d)
  BY NobodyMoves
<1>6. RulesMade'
  <2>1. \A u \in Types, s \in Scopes : made'[<<u, s>>] \in Nat /\ made'[<<u, s>>] >= made[<<u, s>>]
    <3> SUFFICES ASSUME NEW u \in Types, NEW s \in Scopes
                 PROVE  made'[<<u, s>>] \in Nat /\ made'[<<u, s>>] >= made[<<u, s>>]
      OBVIOUS
    <3>1. <<u, s>> \in Types \X Scopes
      BY Parameters
    <3>2. made'[<<u, s>>] \in 0 .. MaxGen
      BY <3>1
    <3> QED
      BY <3>2, Parameters
  <2>2. \A u \in Types : creating'[u] \in Callers \cup {None} /\ creating'[u] = creating[u]
    BY DEF NumberingInv, NumberingTypeOK
  <2>3. \A u \in Types : creating'[u] \in Callers \ {None} =>
            creating'[u] = creating[u] /\ made'[<<u, "org">>] = made[<<u, "org">>]
    BY <1>2, <2>2
  <2>4. None \notin Callers
    BY Parameters
  <2> QED
    BY <1>5, <2>1, <2>2, <2>3, <2>4, RulesStep
<1> QED
  BY <1>2, <1>3, <1>4, <1>5, <1>6 DEF NumberingInv

(* A new rule adds a generation nobody has minted from.                    *)
LEMMA CreateRuleKeeps ==
    ASSUME NumberingInv, NEW t \in Types, NEW s \in Scopes, CreateRule(t, s)
    PROVE  NumberingInv'
<1> DEFINE m == made[<<t, s>>]
<1>1. /\ RuleChange(t) /\ m < MaxGen
      /\ active' = [active EXCEPT ![<<t, s>>] = m + 1]
      /\ made' = [made EXCEPT ![<<t, s>>] = m + 1]
      /\ UNCHANGED <<creating, counter, lock, callerVars, skipped, imported>>
  BY DEF CreateRule
<1>2. m \in Nat /\ m + 1 \in 0 .. MaxGen /\ <<t, s>> \in Types \X Scopes
  BY <1>1, ScopeType, Parameters DEF NumberingInv
<1>3. active \in [Types \X Scopes -> 0 .. MaxGen] /\ made \in [Types \X Scopes -> 0 .. MaxGen]
  BY DEF NumberingInv, NumberingTypeOK
<1> HIDE DEF m
<1>4. active' \in [Types \X Scopes -> 0 .. MaxGen] /\ made' \in [Types \X Scopes -> 0 .. MaxGen]
  BY <1>1, <1>2, <1>3
<1>5. ASSUME NEW u \in Types, NEW z \in Scopes
      PROVE  /\ active'[<<u, z>>] <= made'[<<u, z>>] /\ made'[<<u, z>>] >= made[<<u, z>>]
             /\ u # t => made'[<<u, z>>] = made[<<u, z>>]
  <2>1. <<u, z>> \in Types \X Scopes
    BY Parameters
  <2>2. active[<<u, z>>] <= made[<<u, z>>] /\ made[<<u, z>>] \in Nat
    BY ScopeType DEF NumberingInv
  <2>3. CASE <<u, z>> = <<t, s>>
    BY <1>1, <1>2, <1>3, <2>3 DEF m
  <2>4. CASE <<u, z>> # <<t, s>>
    BY <1>1, <1>3, <2>1, <2>2, <2>4
  <2> QED
    BY <2>3, <2>4
<1> QED
  BY <1>1, <1>4, <1>5, RuleChangeKeeps, Parameters

(* Which generation is active has no part in what was minted.              *)
LEMMA ActiveChangeKeeps ==
    ASSUME NumberingInv, NEW t \in Types, NEW s \in Scopes, RuleChange(t),
           NEW k \in 0 .. MaxGen, k <= made[<<t, s>>], active' = [active EXCEPT ![<<t, s>>] = k],
           UNCHANGED <<creating, made, counter, lock, callerVars, skipped, imported>>
    PROVE  NumberingInv'
<1>1. active \in [Types \X Scopes -> 0 .. MaxGen] /\ made \in [Types \X Scopes -> 0 .. MaxGen]
  BY DEF NumberingInv, NumberingTypeOK
<1>2. active' \in [Types \X Scopes -> 0 .. MaxGen] /\ made' \in [Types \X Scopes -> 0 .. MaxGen]
  BY <1>1
<1>3. ASSUME NEW u \in Types, NEW z \in Scopes
      PROVE  active'[<<u, z>>] <= made'[<<u, z>>] /\ made'[<<u, z>>] >= made[<<u, z>>]
  <2>1. <<u, z>> \in Types \X Scopes
    BY Parameters
  <2>2. active[<<u, z>>] <= made[<<u, z>>] /\ made[<<u, z>>] \in Nat
    BY ScopeType DEF NumberingInv
  <2>3. CASE <<u, z>> = <<t, s>>
    BY <1>1, <2>1, <2>2, <2>3
  <2>4. CASE <<u, z>> # <<t, s>>
    BY <1>1, <2>1, <2>2, <2>4
  <2> QED
    BY <2>3, <2>4
<1> QED
  BY <1>2, <1>3, RuleChangeKeeps

(* Hence activating one keeps the invariant.                               *)
LEMMA ActivateRuleKeeps ==
    ASSUME NumberingInv, NEW t \in Types, NEW s \in Scopes, NEW k \in 1 .. MaxGen, ActivateRule(t, s, k)
    PROVE  NumberingInv'
<1>1. made[<<t, s>>] \in Nat
  BY ScopeType DEF NumberingInv
<1>2. k \in 0 .. MaxGen /\ k <= made[<<t, s>>]
  BY <1>1 DEF ActivateRule
<1> QED
  BY <1>2, ActiveChangeKeeps DEF ActivateRule

(* And so does deactivating it.                                            *)
LEMMA DeactivateRuleKeeps ==
    ASSUME NumberingInv, NEW t \in Types, NEW s \in Scopes, DeactivateRule(t, s)
    PROVE  NumberingInv'
<1>1. 0 \in 0 .. MaxGen /\ 0 <= made[<<t, s>>]
  BY ScopeType, Parameters DEF NumberingInv
<1> QED
  BY <1>1, ActiveChangeKeeps DEF DeactivateRule

-----------------------------------------------------------------------------
(* The invariant holds at first: the rules that were numbered before, and   *)
(* no caller.                                                              *)
LEMMA NumberingInit ==
    ASSUME Init
    PROVE  NumberingInv
<1>1. \A c \in Callers : pc[c] = "idle" /\ kind[c] = NoKind /\ tries[c] = 0
  BY DEF Init
<1>2. NumberingTypeOK
  <2>1. active \in [Types \X Scopes -> 0 .. MaxGen] /\ made = active
    BY Parameters DEF Init
  <2>2. counter \in [Rules -> Nat \cup {NoRow}]
    BY RuleIs, Parameters DEF Init
  <2>3. skipped \in [Rules -> SUBSET Nat]
    <3>1. \A r \in Rules : (IF r[2] = "org" /\ r[3] = 1 THEN 1 .. Shared[r[1]] ELSE {}) \in SUBSET Nat
      BY RuleIs, Parameters
    <3> QED
      BY <3>1 DEF Init
  <2>4. \A t \in Types, s \in Scopes : active[<<t, s>>] <= made[<<t, s>>]
    <3> SUFFICES ASSUME NEW t \in Types, NEW s \in Scopes PROVE active[<<t, s>>] <= active[<<t, s>>]
      BY <2>1
    <3>1. <<t, s>> \in Types \X Scopes
      BY Parameters
    <3>2. active[<<t, s>>] \in 0 .. MaxGen
      BY <2>1, <3>1
    <3> QED
      BY <3>2, Parameters
  <2> QED
    BY <1>1, <2>1, <2>2, <2>3, <2>4, NumberingAssumption DEF Init, NumberingTypeOK
<1>3. Limits
  BY <1>1, Parameters, FS_EmptySet DEF Init, Limits
<1>4. RulesMade
  BY <1>1 DEF Init, RulesMade, Numbering
<1>5. Locks
  BY DEF Init, Locks
<1>6. LentHolders /\ Committed /\ NumbersUnique
  BY <1>1 DEF LentHolders, Committed, NumbersUnique, Holds
<1>7. GapsAreBurned
  <2> SUFFICES ASSUME NEW r \in Rules, NEW n \in 1 .. counter[r]
               PROVE  n \in skipped[r]
    BY DEF GapsAreBurned
  <2>1. counter[r] = IF r[2] = "org" /\ r[3] = 1 /\ Shared[r[1]] > 0 THEN Shared[r[1]] ELSE NoRow
    BY DEF Init
  <2>2. r[2] = "org" /\ r[3] = 1 /\ counter[r] = Shared[r[1]]
    BY <2>1 DEF NoRow
  <2> QED
    BY <2>2 DEF Init
<1>8. FirstRules
  <2>1. \A t \in Types, s \in Scopes : active[<<t, s>>] = made[<<t, s>>]
            /\ made[<<t, s>>] = IF s = "org" /\ Shared[t] > 0 THEN 1 ELSE 0
    <3> SUFFICES ASSUME NEW t \in Types, NEW s \in Scopes
                 PROVE  active[<<t, s>>] = made[<<t, s>>]
                        /\ made[<<t, s>>] = IF s = "org" /\ Shared[t] > 0 THEN 1 ELSE 0
      OBVIOUS
    <3>1. <<t, s>> \in Types \X Scopes /\ <<t, s>>[1] = t /\ <<t, s>>[2] = s
      BY Parameters
    <3> QED
      BY <3>1 DEF Init
  <2>2. \A t \in Types : creating[t] = None
    BY DEF Init
  <2>3. ASSUME NEW t \in Branched
        PROVE  Value(counter[<<t, "org", 1>>]) = Shared[t]
    <3>1. /\ <<t, "org", 1>> \in Rules /\ <<t, "org", 1>>[1] = t
          /\ <<t, "org", 1>>[2] = "org" /\ <<t, "org", 1>>[3] = 1
      BY RuleIs, Parameters
    <3>2. counter[<<t, "org", 1>>] = IF Shared[t] > 0 THEN Shared[t] ELSE NoRow
      BY <3>1 DEF Init
    <3>3. Shared[t] \in Nat
      BY Parameters
    <3> QED
      BY <3>2, <3>3 DEF Value, NoRow
  <2> QED
    BY <1>1, <2>1, <2>2, <2>3, Parameters DEF FirstRules, Numbering, Holds
<1>9. Cardinality(NestedIn) <= MaxNested
  <2>1. \A c \in Callers : Mode(c) = "none"
    BY <1>1 DEF Mode, NoKind
  <2>2. NestedIn = {}
    BY <2>1 DEF NestedIn, InTransaction
  <2> QED
    BY <2>2, FS_EmptySet, Parameters
<1> QED
  BY <1>2, <1>3, <1>4, <1>5, <1>6, <1>7, <1>8, <1>9 DEF NumberingInv

-----------------------------------------------------------------------------
(* Every step keeps the invariant. *)
LEMMA NumberingStep ==
    ASSUME NumberingInv, [Next]_vars
    PROVE  NumberingInv'
<1>1. ASSUME NEW c \in Callers, CallerStep(c) PROVE NumberingInv'
  <2>1. CASE Start(c)
    BY <2>1, StartKeeps
  <2>2. CASE EnsureBranchRule(c)
    BY <2>2, EnsureBranchRuleKeeps
  <2>3. CASE Begin(c)
    BY <2>3, BeginKeeps
  <2>4. CASE ResolveRule(c)
    BY <2>4, ResolveRuleKeeps
  <2>5. CASE CreateDefault(c)
    BY <2>5, CreateDefaultKeeps
  <2>6. CASE MintRefused(c)
    BY <2>6, MintRefusedKeeps
  <2>7. CASE OwnBegin(c)
    BY <2>7, OwnBeginKeeps
  <2>8. CASE OwnIncrement(c)
    BY <2>8, OwnIncrementKeeps
  <2>9. CASE LentIncrement(c)
    BY <2>9, LentIncrementKeeps
  <2>10. CASE LentInsert(c)
    BY <2>10, LentInsertKeeps
  <2>11. CASE CodeIsFree(c)
    BY <2>11, CodeIsFreeKeeps
  <2>12. CASE SkipAhead(c)
    BY <2>12, SkipAheadKeeps
  <2>13. CASE CodeRefused(c)
    BY <2>13, CodeRefusedKeeps
  <2>14. CASE Save(c)
    BY <2>14, SaveKeeps
  <2> QED
    BY <1>1, <2>1, <2>2, <2>3, <2>4, <2>5, <2>6, <2>7, <2>8, <2>9, <2>10, <2>11, <2>12, <2>13, <2>14
       DEF CallerStep
<1>2. ASSUME NEW c \in Callers, Abort(c) PROVE NumberingInv'
  BY <1>2, AbortKeeps
<1>3. ASSUME NEW t \in Types, ImportCode(t) PROVE NumberingInv'
  BY <1>3, ImportCodeKeeps
<1>4. ASSUME NEW t \in Types, NEW s \in Scopes, CreateRule(t, s) PROVE NumberingInv'
  BY <1>4, CreateRuleKeeps
<1>5. ASSUME NEW t \in Types, NEW s \in Scopes, DeactivateRule(t, s) PROVE NumberingInv'
  BY <1>5, DeactivateRuleKeeps
<1>6. ASSUME NEW t \in Types, NEW s \in Scopes, NEW k \in 1 .. MaxGen, ActivateRule(t, s, k) PROVE NumberingInv'
  BY <1>6, ActivateRuleKeeps
<1>7. CASE UNCHANGED vars
  <2>1. UNCHANGED <<active, made, creating, ruleChanges, counter, lock, kind, pc, rule, got, snap, tries,
                    jumped, skipped, imported>>
    BY <1>7 DEF vars, ruleVars, callerVars
  <2>2. UNCHANGED <<callerVars, counter, lock, skipped>>
    BY <1>7 DEF vars
  <2>3. /\ Locks' /\ LentHolders' /\ Committed' /\ NumbersUnique' /\ GapsAreBurned'
        /\ (Cardinality(NestedIn) <= MaxNested)'
    BY <2>2, NobodyMoves
  <2>4. NumberingTypeOK'
    BY <2>1 DEF NumberingInv, NumberingTypeOK
  <2>5. Limits' /\ RulesMade'
    BY <2>1 DEF NumberingInv, Limits, RulesMade, NewRule, TypeOf, Mode
  <2>6. ruleChanges' = 0 => FirstRules'
    <3>1. \A r : Value(counter[r])' = Value(counter[r])
      BY <2>1 DEF Value
    <3> QED
      BY <2>1, <3>1 DEF NumberingInv, FirstRules, TypeOf, Holds
  <2> QED
    BY <2>3, <2>4, <2>5, <2>6 DEF NumberingInv
<1> QED
  BY <1>1, <1>2, <1>3, <1>4, <1>5, <1>6, <1>7 DEF Next

(* The invariant of numbering holds in every state.                        *)
LEMMA NumberingAlwaysInv == Spec => []NumberingInv
<1>1. Init => NumberingInv
  BY NumberingInit
<1>2. NumberingInv /\ [Next]_vars => NumberingInv'
  BY NumberingStep
<1> QED
  BY <1>1, <1>2, PTL DEF Spec

(* Every variable of the numbering keeps its type. *)
THEOREM NumberingTyped == Spec => []NumberingTypeOK
<1>1. NumberingInv => NumberingTypeOK
  BY DEF NumberingInv
<1> QED
  BY <1>1, NumberingAlwaysInv, PTL

(* Whoever lends the transaction or not, races, retries or fails: no two     *)
(* callers hold the same number of a rule.                                 *)
THEOREM NumbersAlwaysUnique == Spec => []NumbersUnique
<1>1. NumberingInv => NumbersUnique
  BY DEF NumberingInv
<1> QED
  BY <1>1, NumberingAlwaysInv, PTL

(* A number that no document has was taken by a caller that did not lend its *)
(* transaction, or skipped for an imported code.                           *)
THEOREM GapsAlwaysBurned == Spec => []GapsAreBurned
<1>1. NumberingInv => GapsAreBurned
  BY DEF NumberingInv
<1> QED
  BY <1>1, NumberingAlwaysInv, PTL

(* While nobody changes a rule by hand, a branch that goes over from the     *)
(* shared counter to its own gets no number twice.                         *)
THEOREM CutoverAlwaysKeepsNumbers == Spec => []CutoverKeepsNumbers
<1>1. NumberingInv => CutoverKeepsNumbers
  <2> SUFFICES ASSUME NumberingInv, ruleChanges = 0, NEW c \in Callers, Holds(c)
               PROVE  /\ TypeOf(c) \in Branched => got[c] > Shared[TypeOf(c)]
                      /\ \A d \in Callers \ {c} :
                            Holds(d) /\ TypeOf(c) = TypeOf(d) => got[c] # got[d]
    BY DEF CutoverKeepsNumbers
  <2>1. FirstRules
    BY DEF NumberingInv
  <2>2. \A d \in Callers : Holds(d) => rule[d] = FirstRule(TypeOf(d))
    BY <2>1 DEF FirstRules, Holds, Numbering
  <2> QED
    BY <2>1, <2>2 DEF NumberingInv, NumbersUnique, FirstRules
<1> QED
  BY <1>1, NumberingAlwaysInv, PTL

(* However many callers do not lend their transaction: unless every holder  *)
(* of a connection waits for a second one, some holder can go on.  A row is *)
(* locked by a lent transaction, which needs neither another row nor        *)
(* another connection.                                                     *)
THEOREM PoolIsStuckOnlyByNested == Spec => []PoolStuckOnlyByNested
<1>1. NumberingInv => PoolStuckOnlyByNested
  <2> SUFFICES ASSUME NumberingInv, \A c \in Connected : ~GoesOn(c), NEW c \in Connected
               PROVE  NeedsSecond(c)
    BY DEF PoolStuckOnlyByNested
  <2>1. \A r \in Rules : lock[r] = None
    <3> SUFFICES ASSUME NEW r \in Rules, lock[r] # None PROVE FALSE
      OBVIOUS
    <3> DEFINE d == lock[r]
    <3>1. d \in Callers
      BY DEF NumberingInv, NumberingTypeOK
    <3>2. Mode(d) = "lent" /\ rule[d] = r /\ pc[d] \in {"number", "check", "save"}
      BY DEF NumberingInv, Locks
    <3>3. d \in Connected
      BY <3>1, <3>2 DEF Connected, InTransaction
    <3>4. RowHolder(d) \in {None, d}
      <4>1. CASE pc[d] = "number"
        BY <4>1, <3>2 DEF RowHolder
      <4>2. CASE pc[d] # "number"
        BY <4>2, <3>2 DEF RowHolder
      <4> QED
        BY <4>1, <4>2
    <3> QED
      BY <3>2, <3>3, <3>4 DEF GoesOn, NeedsSecond, Ended
  <2>2. ASSUME NEW d \in Callers, pc[d] \in Numbering, pc[d] # "saved"
        PROVE  RowHolder(d) = None
    <3>1. rule[d] \in Rules
      BY <2>2 DEF NumberingInv, RulesMade
    <3>2. lock[rule[d]] = None
      BY <2>1, <3>1
    <3> QED
      BY <2>2, <3>2 DEF RowHolder, Numbering
  <2>3. \A t \in Types : creating[t] = None
    <3> SUFFICES ASSUME NEW t \in Types, creating[t] # None PROVE FALSE
      OBVIOUS
    <3> DEFINE d == creating[t]
    <3>1. d \in Callers
      BY DEF NumberingInv, NumberingTypeOK
    <3>2. Mode(d) = "lent" /\ pc[d] \in {"number", "insert", "check", "save"}
      BY DEF NumberingInv, RulesMade
    <3>3. d \in Connected
      BY <3>1, <3>2 DEF Connected, InTransaction
    <3>4. RowHolder(d) = None
      BY <2>2, <3>1, <3>2 DEF Numbering
    <3> QED
      BY <3>2, <3>3, <3>4 DEF GoesOn, NeedsSecond, Ended
  <2>4. c \in Callers /\ pc[c] \notin Ended
    BY DEF Connected, InTransaction, InInner, Ended
  <2>5. RowHolder(c) = None
    <3>1. CASE pc[c] \in Numbering
      BY <2>2, <2>4, <3>1 DEF Ended
    <3>2. CASE pc[c] = "resolve" /\ Mode(c) = "lent"
      <4>1. kind[c] \in Kinds
        <5>1. kind[c] \in Kinds \cup {NoKind} /\ (pc[c] = "idle" <=> kind[c] = NoKind)
          BY <2>4 DEF NumberingInv, NumberingTypeOK
        <5> QED
          BY <3>2, <5>1
      <4>2. TypeOf(c) \in Types
        BY <4>1, Parameters DEF TypeOf
      <4> QED
        BY <2>3, <3>2, <4>2 DEF RowHolder
    <3>3. CASE pc[c] \notin Numbering /\ ~(pc[c] = "resolve" /\ Mode(c) = "lent")
      BY <3>3 DEF RowHolder, Numbering
    <3> QED
      BY <3>1, <3>2, <3>3
  <2> QED
    BY <2>4, <2>5 DEF GoesOn
<1> QED
  BY <1>1, NumberingAlwaysInv, PTL
=============================================================================
