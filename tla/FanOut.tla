------------------------------- MODULE FanOut -------------------------------
(***************************************************************************)
(* What the program promises wherever it fans work out: a fixed set of     *)
(* tasks is opened, at most Limit of them run at a time, each writes its   *)
(* own slot exactly once, and the results are gathered only when every     *)
(* slot is filled.  A task never stops a sibling.                          *)
(*                                                                         *)
(* This is the contract of errgroup.WithContext + SetLimit + indexed       *)
(* slots + Wait, which the code uses three times: over domains             *)
(* (internal/cli/cli.go run), over DKIM selectors                          *)
(* (internal/probe/dkim/dkim.go runOne) and over MX hosts                  *)
(* (internal/probe/mtatls/mtatls.go Run, two phases).  The detailed        *)
(* modules implement this one.                                             *)
(***************************************************************************)
EXTENDS Integers, FiniteSets

CONSTANTS
    Task,    \* every task the group may be given
    Limit,   \* SetLimit's argument: a negative number means no limit
    Value,   \* what a task may leave in its slot
    NoValue  \* the zero value an untouched slot holds

ASSUME FanOutAssumption ==
    /\ IsFiniteSet(Task)
    /\ Limit \in Int
    /\ NoValue \notin Value

VARIABLES
    phase,   \* "idle", then "open", then "gathered"
    todo,    \* the tasks of this group
    running, \* the tasks that have been started and have no result yet
    slot     \* task -> its result, or NoValue

vars == <<phase, todo, running, slot>>

Phase == {"idle", "open", "gathered"}

TypeOK ==
    /\ phase \in Phase
    /\ todo \in SUBSET Task
    /\ running \in SUBSET todo
    /\ slot \in [Task -> Value \cup {NoValue}]

\* A bug: SetLimit was not called.
Room_Unlimited(n) == TRUE

\* errgroup blocks Go while Limit tasks hold a token.
Room(n) == Limit < 0 \/ n < Limit

Filled == {t \in Task : slot[t] # NoValue}

-----------------------------------------------------------------------------

Init ==
    /\ phase = "idle"
    /\ todo = {}
    /\ running = {}
    /\ slot = [t \in Task |-> NoValue]

Open(S) ==
    /\ phase = "idle"
    /\ phase' = "open"
    /\ todo' = S
    /\ UNCHANGED <<running, slot>>

\* Bugs: a task outside the group is started; a finished one is started again.
Start_Unasked(t) ==
    /\ phase = "open"
    /\ t \notin running
    /\ slot[t] = NoValue
    /\ Room(Cardinality(running))
    /\ running' = running \cup {t}
    /\ UNCHANGED <<phase, todo, slot>>

Start_Again(t) ==
    /\ phase = "open"
    /\ t \in todo \ running
    /\ Room(Cardinality(running))
    /\ running' = running \cup {t}
    /\ UNCHANGED <<phase, todo, slot>>

Start(t) ==
    /\ phase = "open"
    /\ t \in todo \ running
    /\ slot[t] = NoValue
    /\ Room(Cardinality(running))
    /\ running' = running \cup {t}
    /\ UNCHANGED <<phase, todo, slot>>

\* A bug: a task that panics or returns early leaves its slot empty.
Finish_Empty(t) ==
    /\ t \in running
    /\ \E v \in Value \cup {NoValue} : slot' = [slot EXCEPT ![t] = v]
    /\ running' = running \ {t}
    /\ UNCHANGED <<phase, todo>>

Finish(t) ==
    /\ t \in running
    /\ \E v \in Value : slot' = [slot EXCEPT ![t] = v]
    /\ running' = running \ {t}
    /\ UNCHANGED <<phase, todo>>

\* A bug: the caller goes on once every task is started.
Gather_Early ==
    /\ phase = "open"
    /\ todo \subseteq Filled \cup running
    /\ phase' = "gathered"
    /\ UNCHANGED <<todo, running, slot>>

Gather ==
    /\ phase = "open"
    /\ todo \subseteq Filled
    /\ phase' = "gathered"
    /\ UNCHANGED <<todo, running, slot>>

Next ==
    \/ \E S \in SUBSET Task : Open(S)
    \/ \E t \in Task : Start(t) \/ Finish(t)
    \/ Gather

Spec == Init /\ [][Next]_vars

\* What errgroup and the Go scheduler owe the group: a task with room is
\* started, a started task returns, and Wait returns once all have.
Fairness ==
    /\ WF_vars(\E S \in SUBSET Task : Open(S))
    /\ WF_vars(\E t \in Task : Start(t))
    /\ \A t \in Task : WF_vars(Finish(t))
    /\ WF_vars(Gather)

FairSpec == Spec /\ Fairness

-----------------------------------------------------------------------------

\* The limit of errgroup.SetLimit: never more than Limit tasks in flight.
AtMostLimit == Limit >= 0 => Cardinality(running) <= Limit

\* Wait returns to the caller only when no task runs and every slot of the
\* group holds a result: the caller never reads a slot nobody wrote.
GatherComplete ==
    phase = "gathered" => running = {} /\ Filled = todo

\* A result, once in its slot, is never overwritten or erased.
SlotsAreFinal ==
    [][\A t \in Task : slot[t] # NoValue => slot'[t] = slot[t]]_vars

\* With at least one token (or no limit) the group is always gathered.
Gathers == Limit # 0 => <>(phase = "gathered")

=============================================================================
