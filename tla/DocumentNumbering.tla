-------------------------- MODULE DocumentNumbering --------------------------
(***************************************************************************)
(* Document numbers: DocumentNumberingService.generate and the checkout    *)
(* saga's mintDocumentNumber, with the connection pool they draw on.  A    *)
(* number is the next value of the counter of the active rule of its type, *)
(* the branch's rule before the organisation's.  A caller either lends the *)
(* transaction it is in (mode "lent"), has none ("plain"), or has one but  *)
(* does not lend it ("nested"), so that every query and the transaction    *)
(* that increments the counter take a second connection from the pool.     *)
(*                                                                         *)
(* Abstracted: one organisation, one branch, one reset period; a rule is   *)
(* its type, its scope and how many rules that scope had before; the text  *)
(* of a number.  Types in Branched (INVOICE, RETURN) get a rule of their   *)
(* branch on first use; codes of types in Coded (CUSTOMER) are looked up   *)
(* among the rows that exist, some of which never had a number.            *)
(***************************************************************************)
EXTENDS Integers, FiniteSets

CONSTANTS
    Callers,         \* the requests, one document each
    Types, Branched, Coded,
    Kinds,           \* the calls there are in the code: a type and a mode
    Connections,     \* DB_POOL_SIZE
    Shared,          \* by type: what the organisation's counter stood at
    MaxAttempts,     \* of atomicIncrement, and of issue
    MaxNested,       \* bound: callers at once that do not lend
    MaxGen,          \* bound: rules of one scope
    MaxRuleChanges,  \* bound: rules created, activated, deactivated by hand
    Edited,          \* bound: the types whose rules are changed by hand (not the
                     \* Coded, whose rule a transaction that skips numbers
                     \* would have to resolve again)
    MaxImports,      \* bound: codes inserted without a number
    None

Scopes == {"org", "branch"}
Rules == Types \X Scopes \X (1 .. MaxGen)

ASSUME NumberingAssumption ==
    /\ IsFiniteSet(Callers) /\ None \notin Callers
    /\ Branched \subseteq Types /\ Coded \subseteq Types
    /\ Branched \cap Coded = {}
    /\ Edited \subseteq Types \ Coded
    /\ Kinds \subseteq [type : Types, mode : {"lent", "plain", "nested"}]
    /\ \A k \in Kinds : k.type \in Coded => k.mode # "nested"
    /\ MaxNested \in Nat
    /\ Connections \in Nat /\ MaxAttempts \in Nat \ {0}
    /\ MaxGen \in Nat \ {0} /\ MaxRuleChanges \in Nat
    /\ MaxImports \in Nat
    /\ Shared \in [Types -> Nat]

VARIABLES
    active,    \* by type and scope: the rule in force, 0 if none
    made,      \* by type and scope: how many rules there were
    creating,  \* by type: the transaction that inserted a rule, uncommitted
    counter,   \* by rule: the committed value, NoRow before the first number
    lock,      \* by rule: the transaction that holds the counter's row
    kind, pc, rule, got, snap, tries,  \* of each caller
    jumped,    \* of each caller: numbers its transaction skipped
    skipped,   \* by rule: numbers skipped for good (history)
    ruleChanges,
    imported   \* by type: codes inserted without a number

ruleVars == <<active, made, creating, ruleChanges>>
callerVars == <<kind, pc, rule, got, snap, tries, jumped>>
vars == <<ruleVars, counter, lock, callerVars, skipped, imported>>

NoRow == -1
NoRule == <<None, None, 0>>
NoKind == [type |-> None, mode |-> "none"]
TypeOf(c) == kind[c].type
Mode(c) == kind[c].mode
Value(v) == IF v = NoRow THEN 0 ELSE v

NumberingTypeOK ==
    /\ active \in [Types \X Scopes -> 0 .. MaxGen]
    /\ made \in [Types \X Scopes -> 0 .. MaxGen]
    /\ \A t \in Types, s \in Scopes : active[<<t, s>>] <= made[<<t, s>>]
    /\ creating \in [Types -> Callers \cup {None}]
    /\ counter \in [Rules -> Nat \cup {NoRow}]
    /\ lock \in [Rules -> Callers \cup {None}]
    /\ pc \in [Callers -> {"idle", "ensure", "begin", "resolve", "number", "insert",
                           "inner", "check", "save", "saved", "failed"}]
    /\ kind \in [Callers -> Kinds \cup {NoKind}]
    /\ \A c \in Callers : pc[c] = "idle" <=> kind[c] = NoKind
    /\ rule \in [Callers -> Rules \cup {NoRule}]
    /\ got \in [Callers -> Nat]
    /\ snap \in [Callers -> Nat \cup {NoRow}]
    /\ tries \in [Callers -> 0 .. MaxAttempts]
    /\ jumped \in [Callers -> SUBSET Nat]
    /\ skipped \in [Rules -> SUBSET Nat]
    /\ ruleChanges \in 0 .. MaxRuleChanges
    /\ imported \in [Types -> SUBSET Nat]

(* The organisation's rules of the types that were numbered before; the    *)
(* branch holds the numbers 1 .. Shared[t] of a Branched type.             *)
Init ==
    /\ active = [ts \in Types \X Scopes |->
                    IF ts[2] = "org" /\ Shared[ts[1]] > 0 THEN 1 ELSE 0]
    /\ made = active
    /\ creating = [t \in Types |-> None]
    /\ counter = [r \in Rules |-> IF r[2] = "org" /\ r[3] = 1 /\ Shared[r[1]] > 0
                                  THEN Shared[r[1]] ELSE NoRow]
    /\ lock = [r \in Rules |-> None]
    /\ pc = [c \in Callers |-> "idle"]
    /\ kind = [c \in Callers |-> NoKind]
    /\ rule = [c \in Callers |-> NoRule]
    /\ got = [c \in Callers |-> 0]
    /\ snap = [c \in Callers |-> NoRow]
    /\ tries = [c \in Callers |-> 0]
    /\ jumped = [c \in Callers |-> {}]
    /\ skipped = [r \in Rules |-> IF r[2] = "org" /\ r[3] = 1
                                  THEN 1 .. Shared[r[1]] ELSE {}]
    /\ ruleChanges = 0
    /\ imported = [t \in Types |-> {}]

-----------------------------------------------------------------------------
Ended == {"saved", "failed"}

\* Mutant of InTransaction: a transaction that failed is not released.
InTransactionLeaked ==
    {c \in Callers :
        \/ Mode(c) = "nested" /\ pc[c] \notin {"saved", "idle"}
        \/ Mode(c) = "lent" /\ pc[c] \in {"resolve", "number", "insert", "check", "save", "failed"}}

\* The callers that hold a connection for their own transaction, and those
\* that hold one for the transaction that increments the counter.
InTransaction ==
    {c \in Callers :
        \/ Mode(c) = "nested" /\ pc[c] \notin Ended \cup {"idle"}
        \/ Mode(c) = "lent" /\ pc[c] \in {"resolve", "number", "insert", "check", "save"}}
InInner == {c \in Callers : pc[c] = "inner"}

Free == Cardinality(InTransaction) + Cardinality(InInner) < Connections

Fail(c) == pc' = [pc EXCEPT ![c] = "failed"]
Goto(c, l) == pc' = [pc EXCEPT ![c] = l]

(* A call is made: a nested caller has opened its transaction.             *)
Start(c) ==
    \E k \in Kinds :
        /\ pc[c] = "idle"
        /\ k.mode = "nested" =>
              /\ Free
              /\ Cardinality({d \in InTransaction : Mode(d) = "nested"}) < MaxNested
        /\ kind' = [kind EXCEPT ![c] = k]
        /\ Goto(c, IF k.type \in Branched THEN "ensure"
                   ELSE IF k.mode = "lent" THEN "begin" ELSE "resolve")
        /\ UNCHANGED <<ruleVars, counter, lock, rule, got, snap, tries, jumped, skipped, imported>>

\* The next rule of a scope, in force from its commit on.
NewRule(t, s) == <<t, s, made[<<t, s>>] + 1>>

\* Mutant of Clone: the branch's counter starts from nothing.
CloneUnseeded(t) ==
    /\ active[<<t, "branch">>] = 0
    /\ creating[t] = None
    /\ made[<<t, "branch">>] < MaxGen
    /\ active[<<t, "org">>] # 0
    /\ active' = [active EXCEPT ![<<t, "branch">>] = made[<<t, "branch">>] + 1]
    /\ made' = [made EXCEPT ![<<t, "branch">>] = @ + 1]
    /\ counter' = [counter EXCEPT ![NewRule(t, "branch")] = 0]
    /\ UNCHANGED skipped

(* ensureBranchRule's transaction: the organisation's rule is copied to    *)
(* the branch and its counter starts where the organisation's stands.      *)
(* Without a rule to copy the default one is created first.                *)
Clone(t) ==
    LET org == IF active[<<t, "org">>] # 0 THEN active[<<t, "org">>] ELSE made[<<t, "org">>] + 1
        stand == Value(counter[<<t, "org", org>>])
    IN  /\ active[<<t, "branch">>] = 0
        /\ creating[t] = None
        /\ made[<<t, "branch">>] < MaxGen
        /\ org <= MaxGen
        /\ active' = [active EXCEPT ![<<t, "branch">>] = made[<<t, "branch">>] + 1,
                                    ![<<t, "org">>] = org]
        /\ made' = [made EXCEPT ![<<t, "branch">>] = @ + 1,
                                ![<<t, "org">>] = IF active[<<t, "org">>] # 0 THEN @ ELSE org]
        /\ counter' = [counter EXCEPT ![NewRule(t, "branch")] = stand]
        /\ skipped' = [skipped EXCEPT ![NewRule(t, "branch")] = 1 .. stand]

(* ensureBranchRule, of Branched types: nothing to do when the branch has  *)
(* its rule.  The saga does it in preflight, through preview.              *)
EnsureBranchRule(c) ==
    LET t == TypeOf(c)
    IN  /\ pc[c] = "ensure"
        /\ Free
        /\ IF active[<<t, "branch">>] = 0
           THEN Clone(t)
           ELSE UNCHANGED <<active, made, counter, skipped>>
        /\ Goto(c, IF Mode(c) = "lent" THEN "begin" ELSE "resolve")
        /\ UNCHANGED <<creating, ruleChanges, lock, kind, rule, got, snap, tries, jumped, imported>>

(* The transaction that will be lent begins.                               *)
Begin(c) ==
    /\ pc[c] = "begin"
    /\ Free
    /\ Goto(c, "resolve")
    /\ UNCHANGED <<ruleVars, counter, lock, kind, rule, got, snap, tries, jumped, skipped, imported>>

-----------------------------------------------------------------------------
\* The rule a read finds: the branch's, unless the type is organisation-wide.
Resolved(t) ==
    IF t \notin Coded /\ active[<<t, "branch">>] # 0
    THEN <<t, "branch", active[<<t, "branch">>]>>
    ELSE <<t, "org", active[<<t, "org">>]>>

HasRule(t) == Resolved(t)[3] # 0

(* resolveActiveRule; a caller that does not lend needs a connection.      *)
ResolveRule(c) ==
    /\ pc[c] = "resolve"
    /\ Mode(c) = "lent" \/ Free
    /\ HasRule(TypeOf(c))
    /\ rule' = [rule EXCEPT ![c] = Resolved(TypeOf(c))]
    /\ Goto(c, "number")
    /\ UNCHANGED <<ruleVars, counter, lock, kind, got, snap, tries, jumped, skipped, imported>>

(* ensureDefaultActiveRule.  In a lent transaction the insert stays        *)
(* uncommitted and everybody else's waits for it at the unique index; a    *)
(* lent transaction that waited and lost fails (Abort), another caller     *)
(* reads the winner's rule (ResolveRule).                                  *)
CreateDefault(c) ==
    LET t == TypeOf(c)
    IN  /\ pc[c] = "resolve"
        /\ IF Mode(c) = "lent" THEN t \notin Branched ELSE Free
        /\ ~HasRule(t)
        /\ creating[t] = None
        /\ made[<<t, "org">>] < MaxGen
        /\ rule' = [rule EXCEPT ![c] = NewRule(t, "org")]
        /\ IF Mode(c) = "lent"
           THEN creating' = [creating EXCEPT ![t] = c] /\ UNCHANGED <<active, made>>
           ELSE /\ active' = [active EXCEPT ![<<t, "org">>] = made[<<t, "org">>] + 1]
                /\ made' = [made EXCEPT ![<<t, "org">>] = @ + 1]
                /\ UNCHANGED creating
        /\ Goto(c, "number")
        /\ UNCHANGED <<ruleChanges, counter, lock, kind, got, snap, tries, jumped, skipped, imported>>

(* mintDocumentNumber does not create a rule for an invoice: the rule of   *)
(* the preflight is gone, the transaction fails.                           *)
MintRefused(c) ==
    /\ pc[c] = "resolve"
    /\ Mode(c) = "lent"
    /\ TypeOf(c) \in Branched
    /\ ~HasRule(TypeOf(c))
    /\ Goto(c, "failed")
    /\ UNCHANGED <<ruleVars, counter, lock, kind, rule, got, snap, tries, jumped, skipped, imported>>

-----------------------------------------------------------------------------
\* Where a caller goes with its number.
Numbered(c) == IF TypeOf(c) \in Coded THEN "check" ELSE "save"

(* atomicIncrement without a lent transaction: one of its own,             *)
(* SERIALIZABLE, whose snapshot is taken with its first statement.         *)
OwnBegin(c) ==
    /\ pc[c] = "number"
    /\ Mode(c) # "lent"
    /\ Free
    /\ snap' = [snap EXCEPT ![c] = counter[rule[c]]]
    /\ Goto(c, "inner")
    /\ UNCHANGED <<ruleVars, counter, lock, kind, rule, got, tries, jumped, skipped, imported>>

\* Mutant of OwnIncrement: it tries again without an end.
OwnIncrementEndless(c) ==
    /\ pc[c] = "inner"
    /\ lock[rule[c]] = None
    /\ IF counter[rule[c]] = snap[c]
       THEN /\ counter' = [counter EXCEPT ![rule[c]] = Value(@) + 1]
            /\ got' = [got EXCEPT ![c] = Value(snap[c]) + 1]
            /\ Goto(c, Numbered(c))
            /\ UNCHANGED tries
       ELSE /\ tries' = [tries EXCEPT ![c] = @ + 1]
            /\ Goto(c, "number")
            /\ UNCHANGED <<counter, got>>
    /\ UNCHANGED <<ruleVars, lock, kind, rule, snap, jumped, skipped, imported>>

(* It waits for the row's lock, increments and commits; a row that is not  *)
(* as the snapshot has it is error 40001, and it tries again, a few times. *)
OwnIncrement(c) ==
    /\ pc[c] = "inner"
    /\ lock[rule[c]] = None
    /\ IF counter[rule[c]] = snap[c]
       THEN /\ counter' = [counter EXCEPT ![rule[c]] = Value(@) + 1]
            /\ got' = [got EXCEPT ![c] = Value(snap[c]) + 1]
            /\ Goto(c, Numbered(c))
            /\ UNCHANGED tries
       ELSE /\ tries' = [tries EXCEPT ![c] = @ + 1]
            /\ Goto(c, IF tries[c] + 1 < MaxAttempts THEN "number" ELSE "failed")
            /\ UNCHANGED <<counter, got>>
    /\ UNCHANGED <<ruleVars, lock, kind, rule, snap, jumped, skipped, imported>>

\* Mutant of LentIncrement: a plain read instead of FOR UPDATE.
LentIncrementUnlocked(c) ==
    /\ pc[c] = "number"
    /\ Mode(c) = "lent"
    /\ got' = [got EXCEPT ![c] = Value(counter[rule[c]]) + 1]
    /\ lock' = [lock EXCEPT ![rule[c]] = c]
    /\ Goto(c, Numbered(c))
    /\ UNCHANGED <<ruleVars, counter, kind, rule, snap, tries, jumped, skipped, imported>>

(* lockAndIncrement in the lent transaction: FOR UPDATE waits for the row, *)
(* and a row that is not there cannot be locked.                           *)
LentIncrement(c) ==
    /\ pc[c] = "number"
    /\ Mode(c) = "lent"
    /\ \/ /\ lock[rule[c]] = c
          /\ got' = [got EXCEPT ![c] = @ + 1]
          /\ Goto(c, Numbered(c))
          /\ UNCHANGED lock
       \/ /\ lock[rule[c]] = None
          /\ counter[rule[c]] # NoRow
          /\ got' = [got EXCEPT ![c] = counter[rule[c]] + 1]
          /\ lock' = [lock EXCEPT ![rule[c]] = c]
          /\ Goto(c, Numbered(c))
       \/ /\ lock[rule[c]] # c
          /\ counter[rule[c]] = NoRow
          /\ Goto(c, "insert")
          /\ UNCHANGED <<got, lock>>
    /\ UNCHANGED <<ruleVars, counter, kind, rule, snap, tries, jumped, skipped, imported>>

(* The row is inserted: the unique index makes the second of two wait for  *)
(* the first, and fail once that has committed.                            *)
LentInsert(c) ==
    /\ pc[c] = "insert"
    /\ lock[rule[c]] = None
    /\ IF counter[rule[c]] = NoRow
       THEN /\ got' = [got EXCEPT ![c] = 1]
            /\ lock' = [lock EXCEPT ![rule[c]] = c]
            /\ Goto(c, Numbered(c))
            /\ UNCHANGED creating
       ELSE /\ Goto(c, "failed")
            /\ creating' = [t \in Types |-> IF creating[t] = c THEN None ELSE creating[t]]
            /\ UNCHANGED <<got, lock>>
    /\ UNCHANGED <<active, made, ruleChanges, counter, kind, rule, snap, tries, jumped, skipped, imported>>

-----------------------------------------------------------------------------
\* The codes the table of a Coded type holds.
Taken(t) ==
    imported[t] \cup {got[d] : d \in {e \in Callers : TypeOf(e) = t /\ pc[e] = "saved"}}

Highest(S) == CHOOSE n \in S : \A m \in S : m <= n

(* A seed or a spreadsheet writes the next code without taking a number.   *)
ImportCode(t) ==
    /\ t \in Coded
    /\ Cardinality(imported[t]) < MaxImports
    /\ imported' = [imported EXCEPT ![t] = @ \cup {Highest(Taken(t) \cup {0}) + 1}]
    /\ UNCHANGED <<ruleVars, counter, lock, callerVars, skipped>>

\* The transaction of c ends: its locks are free.
Unlock(c) ==
    /\ lock' = [r \in Rules |-> IF lock[r] = c THEN None ELSE lock[r]]
    /\ creating' = [t \in Types |-> IF creating[t] = c THEN None ELSE creating[t]]

(* CustomerCodeService.issue: a code that no row has is taken.             *)
CodeIsFree(c) ==
    /\ pc[c] = "check"
    /\ got[c] \notin Taken(TypeOf(c))
    /\ Goto(c, "save")
    /\ UNCHANGED <<ruleVars, counter, lock, kind, rule, got, snap, tries, jumped, skipped, imported>>

(* A code that exists: ensureSequenceAtLeast raises the counter to the     *)
(* highest one, in the lent transaction or in one of its own, and the next *)
(* number is tried.                                                        *)
SkipAhead(c) ==
    LET r == rule[c]
        high == Highest(Taken(TypeOf(c)))
    IN  /\ pc[c] = "check"
        /\ got[c] \in Taken(TypeOf(c))
        /\ tries[c] + 1 < MaxAttempts
        /\ tries' = [tries EXCEPT ![c] = @ + 1]
        /\ IF Mode(c) = "lent"
           THEN /\ got' = [got EXCEPT ![c] = high]
                /\ jumped' = [jumped EXCEPT ![c] = @ \cup (got[c] .. high)]
                /\ UNCHANGED <<counter, skipped>>
           ELSE /\ Free
                /\ lock[r] = None
                /\ counter' = [counter EXCEPT ![r] = IF @ < high THEN high ELSE @]
                /\ skipped' = [skipped EXCEPT ![r] =
                                  @ \cup {got[c]} \cup (counter[r] + 1 .. high)]
                /\ UNCHANGED <<got, jumped>>
        /\ Goto(c, "number")
        /\ UNCHANGED <<ruleVars, lock, kind, rule, snap, imported>>

(* No free code in MAX_ATTEMPTS, or the code was written after the check   *)
(* and the unique index of the codes refuses the row.                      *)
CodeRefused(c) ==
    /\ TypeOf(c) \in Coded
    /\ got[c] \in Taken(TypeOf(c))
    /\ \/ pc[c] = "save"
       \/ pc[c] = "check" /\ tries[c] + 1 = MaxAttempts
    /\ Fail(c)
    /\ Unlock(c)
    /\ UNCHANGED <<active, made, ruleChanges, counter, kind, rule, got, snap, tries, jumped, skipped, imported>>

(* The document is saved, and in a lent transaction its number, and maybe  *)
(* its rule, with it.                                                      *)
Save(c) ==
    LET t == TypeOf(c)
    IN  /\ pc[c] = "save"
        /\ t \in Coded => got[c] \notin Taken(t)
        /\ Goto(c, "saved")
        /\ Unlock(c)
        /\ IF Mode(c) = "lent"
           THEN /\ counter' = [counter EXCEPT ![rule[c]] = got[c]]
                /\ skipped' = [skipped EXCEPT ![rule[c]] = @ \cup jumped[c]]
           ELSE UNCHANGED <<counter, skipped>>
        /\ IF creating[t] = c
           THEN /\ active' = [active EXCEPT ![<<t, "org">>] = made[<<t, "org">>] + 1]
                /\ made' = [made EXCEPT ![<<t, "org">>] = @ + 1]
           ELSE UNCHANGED <<active, made>>
        /\ UNCHANGED <<ruleChanges, kind, rule, got, snap, tries, jumped, imported>>

\* Mutant of Abort: the number of a failed lent transaction stays taken.
AbortKeepsNumber(c) ==
    /\ pc[c] \notin Ended \cup {"idle"}
    /\ Fail(c)
    /\ Unlock(c)
    /\ IF Mode(c) = "lent" /\ got[c] > 0
       THEN counter' = [counter EXCEPT ![rule[c]] = got[c]]
       ELSE UNCHANGED counter
    /\ UNCHANGED <<active, made, ruleChanges, kind, rule, got, snap, tries, jumped, skipped, imported>>

(* A step of the caller fails, or its process dies.  A transaction that    *)
(* was lent takes everything back; a number from a transaction of its own  *)
(* is used up.                                                             *)
Abort(c) ==
    /\ pc[c] \notin Ended \cup {"idle"}
    /\ Fail(c)
    /\ Unlock(c)
    /\ UNCHANGED <<active, made, ruleChanges, counter, kind, rule, got, snap, tries, jumped, skipped, imported>>

-----------------------------------------------------------------------------
\* A change by hand, of a type in Edited.
RuleChange(t) ==
    /\ t \in Edited
    /\ ruleChanges < MaxRuleChanges
    /\ ruleChanges' = ruleChanges + 1
    /\ creating[t] = None

(* createRule: refused while the scope has an active rule.                 *)
CreateRule(t, s) ==
    /\ RuleChange(t)
    /\ active[<<t, s>>] = 0
    /\ made[<<t, s>>] < MaxGen
    /\ active' = [active EXCEPT ![<<t, s>>] = made[<<t, s>>] + 1]
    /\ made' = [made EXCEPT ![<<t, s>>] = @ + 1]
    /\ UNCHANGED <<creating, counter, lock, callerVars, skipped, imported>>

(* activateRule: the rule in force until now is deactivated with it.       *)
ActivateRule(t, s, k) ==
    /\ RuleChange(t)
    /\ k \in (1 .. made[<<t, s>>]) \ {active[<<t, s>>]}
    /\ active' = [active EXCEPT ![<<t, s>>] = k]
    /\ UNCHANGED <<creating, made, counter, lock, callerVars, skipped, imported>>

(* deactivateRule.                                                         *)
DeactivateRule(t, s) ==
    /\ RuleChange(t)
    /\ active[<<t, s>>] # 0
    /\ active' = [active EXCEPT ![<<t, s>>] = 0]
    /\ UNCHANGED <<creating, made, counter, lock, callerVars, skipped, imported>>

CallerStep(c) ==
    \/ Start(c)
    \/ EnsureBranchRule(c)
    \/ Begin(c)
    \/ ResolveRule(c)
    \/ CreateDefault(c)
    \/ MintRefused(c)
    \/ OwnBegin(c)
    \/ OwnIncrement(c)
    \/ LentIncrement(c)
    \/ LentInsert(c)
    \/ CodeIsFree(c)
    \/ SkipAhead(c)
    \/ CodeRefused(c)
    \/ Save(c)

Next ==
    \/ \E c \in Callers : CallerStep(c) \/ Abort(c)
    \/ \E t \in Types : ImportCode(t)
    \/ \E t \in Types, s \in Scopes :
          \/ CreateRule(t, s)
          \/ DeactivateRule(t, s)
          \/ \E k \in 1 .. MaxGen : ActivateRule(t, s, k)

Spec == Init /\ [][Next]_vars

-----------------------------------------------------------------------------
\* A caller with a number it may write.
Holds(c) == pc[c] \in {"check", "save", "saved"}

(* Whatever the callers lend or do not, race for the first number of a     *)
(* period, retry or fail, no two of them hold the same number of a rule.   *)
NumbersUnique ==
    \A c, d \in Callers :
        /\ c # d /\ Holds(c) /\ Holds(d) /\ rule[c] = rule[d]
        => got[c] # got[d]

(* A branch that goes over from the shared counter to its own never gets a *)
(* number twice, in whatever order its first callers meet the new rule: as *)
(* long as nobody changes the rules by hand, a type's numbers are unique   *)
(* across rules, and beyond those of the shared counter.                   *)
CutoverKeepsNumbers ==
    ruleChanges = 0 =>
        \A c \in Callers : Holds(c) =>
            /\ TypeOf(c) \in Branched => got[c] > Shared[TypeOf(c)]
            /\ \A d \in Callers \ {c} :
                  Holds(d) /\ TypeOf(c) = TypeOf(d) => got[c] # got[d]

(* A number is missing from the documents only when a caller that did not  *)
(* lend its transaction failed after it was taken, or codes were imported: *)
(* a number of a lent transaction goes back with it.                       *)
GapsAreBurned ==
    \A r \in Rules : \A n \in 1 .. counter[r] :
        \/ n \in skipped[r]
        \/ \E c \in Callers :
              /\ rule[c] = r /\ got[c] = n
              /\ pc[c] \in (IF Mode(c) = "lent" THEN {"saved"} ELSE {"check", "save"} \cup Ended)

\* The callers that hold a connection; those of them that wait for a second one.
Connected == InTransaction \cup InInner
NeedsSecond(c) == Mode(c) = "nested" /\ pc[c] \notin {"inner", "check", "save"}

\* The transaction with the row, or the uncommitted rule, c's next step waits for.
RowHolder(c) ==
    CASE pc[c] \in {"inner", "insert"} -> lock[rule[c]]
      [] pc[c] = "number" /\ Mode(c) = "lent" -> lock[rule[c]]
      [] pc[c] = "resolve" /\ Mode(c) = "lent" -> creating[TypeOf(c)]
      [] OTHER -> None

GoesOn(c) == pc[c] \notin Ended /\ ~NeedsSecond(c) /\ RowHolder(c) \in {None, c}

(* The pool comes to a standstill in one way only, the one the comment on  *)
(* generate names: every connection is held by a caller that does not lend *)
(* its transaction and waits for a second one.  Waits for rows, alone or   *)
(* together with waits for connections, never close a circle.              *)
PoolStuckOnlyByNested ==
    \/ \E c \in Connected : GoesOn(c)
    \/ \A c \in Connected : NeedsSecond(c)
=============================================================================
