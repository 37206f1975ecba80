---------------------------- MODULE Correlation ----------------------------
(***************************************************************************)
(* The correlation identifier of correlation.py: a context variable that   *)
(* scopes set and restore, requests set, and outgoing headers carry.  A    *)
(* CorrelationContext is an object with one slot for its token; nothing    *)
(* keeps it from being entered again before it is left.                    *)
(***************************************************************************)
EXTENDS Integers, Sequences, FiniteSetsExt

CONSTANTS Tasks, Contexts,   \* tasks, and CorrelationContext objects
          MaxDepth, MaxIds   \* bounds on the open scopes and the identifiers

CorrelationAssumption == Tasks # {} /\ MaxDepth \in Nat /\ MaxIds \in Nat

VARIABLES
  current,   \* _correlation_id in each task's context, 0 for None
  slot,      \* _token of each object: its task, what it replaced, whether it was used
  scopes,    \* each task's open scopes: the object, and history: the identifier
             \* before it and whether the object has been entered again since
  ids,       \* identifiers made so far
  left,      \* history: how the scope was left, if the last step left one
  started    \* history: the tasks that run

corrVars == <<current, slot, scopes, ids, left, started>>

Ids   == 0..MaxIds
Token == [task : Tasks, old : Ids, used : BOOLEAN]
Scope == [ctx : Contexts, before : Ids, again : BOOLEAN]
Exits == {"none", "restored", "altered", "raised"}
None  == [how |-> "none", again |-> FALSE]

Unused(t) == [task |-> t, old |-> 0, used |-> TRUE]

TypeOK ==
  /\ current \in [Tasks -> Ids] /\ slot \in [Contexts -> Token]
  /\ scopes \in [Tasks -> Seq(Scope)] /\ ids \in Ids
  /\ left \in [how : Exits, again : BOOLEAN] /\ started \subseteq Tasks

Init ==
  /\ current = [t \in Tasks |-> 0] /\ scopes = [t \in Tasks |-> <<>>]
  /\ ids = 0 /\ left = None
  /\ LET t == CHOOSE u \in Tasks : TRUE IN
       started = {t} /\ slot = [c \in Contexts |-> Unused(t)]

SetId(t, i) == current' = [current EXCEPT ![t] = i]

\* The object of a scope in s was entered once more.
Mark(s, c) == [i \in DOMAIN s |-> IF s[i].ctx = c THEN [s[i] EXCEPT !.again = TRUE] ELSE s[i]]
Top(t) == scopes[t][Len(scopes[t])]

\* __enter__(), with an identifier of an earlier call or a new one.
Enter(t, c) ==
  /\ t \in started /\ Len(scopes[t]) < MaxDepth
  /\ \E i \in 1..ids + 1 : i \in Ids /\ SetId(t, i) /\ ids' = Max({ids, i})
  /\ slot' = [slot EXCEPT ![c] = [task |-> t, old |-> current[t], used |-> FALSE]]
  /\ scopes' = [u \in Tasks |->
       Mark(scopes[u], c) \o IF u = t THEN <<[ctx |-> c, before |-> current[t],
                                              again |-> FALSE]>> ELSE <<>>]
  /\ left' = None /\ UNCHANGED started

\* Faulty: the variable is set to the token's value only if a request did not set it.
Reset_IfOwn(t, tok) == IF current[t] = ids THEN current[t] ELSE tok.old

Reset(t, tok) == tok.old

\* __exit__(): reset() raises for a token that was used, or in another context.
Exit(t) ==
  LET c   == Top(t).ctx
      tok == slot[c]
      bad == tok.used \/ tok.task # t
  IN
  /\ scopes[t] # <<>> /\ scopes' = [scopes EXCEPT ![t] = SubSeq(@, 1, Len(@) - 1)]
  /\ current' = IF bad THEN current ELSE [current EXCEPT ![t] = Reset(t, tok)]
  /\ slot' = IF bad THEN slot ELSE [slot EXCEPT ![c] = Unused(t)]
  /\ left' = [how   |-> IF bad THEN "raised"
                        ELSE IF current'[t] = Top(t).before THEN "restored" ELSE "altered",
              again |-> Top(t).again]
  /\ UNCHANGED <<ids, started>>

\* set_correlation_id() of a known identifier, new_correlation_id(), and
\* correlation_middleware() with a header or without one.
Receive(t) ==
  /\ t \in started /\ \E i \in 1..ids + 1 : i \in Ids /\ SetId(t, i) /\ ids' = Max({ids, i})
  /\ left' = None /\ UNCHANGED <<slot, scopes, started>>

\* inject_headers() makes an identifier if there is none, and changes nothing else.
Inject(t) ==
  /\ t \in started /\ current[t] = 0 /\ ids < MaxIds
  /\ ids' = ids + 1 /\ SetId(t, ids')
  /\ left' = None /\ UNCHANGED <<slot, scopes, started>>

\* A new task begins with a copy of its maker's context.
Start(t, u) ==
  /\ t \in started /\ u \notin started /\ started' = started \cup {u}
  /\ SetId(u, current[t])
  /\ left' = None /\ UNCHANGED <<slot, scopes, ids>>

Next == \E t \in Tasks : Exit(t) \/ Receive(t) \/ Inject(t)
          \/ (\E c \in Contexts : Enter(t, c)) \/ \E u \in Tasks : Start(t, u)

-----------------------------------------------------------------------------
\* A scope whose object was not entered again before it was left restores the
\* identifier it replaced, whatever was set within it or by other tasks, and within a
\* scope there is an identifier (correlation.py:33-45).
CorrelationInv ==
  /\ TypeOK
  /\ left.how \in {"altered", "raised"} => left.again
  /\ \A t \in Tasks : scopes[t] # <<>> => current[t] # 0
=============================================================================
