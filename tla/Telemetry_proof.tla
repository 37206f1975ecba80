--------------------------- MODULE Telemetry_proof ---------------------------
(***************************************************************************)
(* What is kept of the telemetry and learnt from it: the correlation       *)
(* identifier, the spans, the anomaly detector, the two histograms and the *)
(* parts that tune themselves keep their promises for any number of tasks, *)
(* objects, scopes, spans and readings.                                    *)
(***************************************************************************)
EXTENDS MCTelemetry, CollectionLemmas

\* A step of the composition is a step of its part and leaves the others alone.
LEMMA StepOfPart ==
  ASSUME [TelemetryNext]_<<part, keeping, learning>>
  PROVE  /\ part' = part
         /\ part = "tracer" => [Trace!Next]_tracerVars
         /\ part = "correlation" => [Corr!Next]_corrVars
         /\ part = "buffer" => [Next]_vars
         /\ part = "anomaly" => [Anomaly!Next]_detectorVars
         /\ part = "histogram" => [Simple!Next]_simpleVars
         /\ [Fast!Next]_fastVars
         /\ part = "timeout" => [Adapt!Next]_timeoutVars
         /\ part = "health" => [Health!Next]_historyVars
         /\ part = "retry" => [Retry!Next]_retryVars
  BY DEF TelemetryNext, Keep, Learn, keeping, learning

-----------------------------------------------------------------------------
\* The object of a scope holds its token until the scope is left or the object is entered
\* again; of the open scopes of a task on one object, only the innermost may be that, and
\* a token that was not used is of an open scope.
ScopesHoldTokens ==
  /\ \A t \in Tasks : \A i \in DOMAIN scopes[t] : ~scopes[t][i].again =>
       slot[scopes[t][i].ctx] = [task |-> t, old |-> scopes[t][i].before, used |-> FALSE]
  /\ \A t \in Tasks : \A i, j \in DOMAIN scopes[t] :
       i < j /\ scopes[t][i].ctx = scopes[t][j].ctx => scopes[t][i].again
  /\ \A c \in Contexts : ~slot[c].used =>
       \E i \in DOMAIN scopes[slot[c].task] :
         /\ scopes[slot[c].task][i].ctx = c
         /\ ~scopes[slot[c].task][i].again

CorrelationStrong ==
  /\ Corr!CorrelationInv /\ ScopesHoldTokens
  /\ \A t \in Tasks : \A i \in DOMAIN scopes[t] : i > 1 => scopes[t][i].before # 0
  /\ \A t \in Tasks \ running : scopes[t] = <<>>

LEMMA MaxIsOne == \A i, j \in Nat : Corr!Max({i, j}) \in {i, j}
<1> SUFFICES ASSUME NEW i \in Nat, NEW j \in Nat PROVE Corr!Max({i, j}) \in {i, j}
  OBVIOUS
<1>1. \E x \in {i, j} : \A y \in {i, j} : x >= y
  OBVIOUS
<1> QED
  BY <1>1 DEF Corr!Max

LEMMA CorrelationInitial == Corr!Init => CorrelationStrong
<1> SUFFICES ASSUME Corr!Init PROVE CorrelationStrong
  OBVIOUS
<1>1. Tasks # {} /\ MaxIds \in Nat
  BY TelemetryAssumption DEF Corr!CorrelationAssumption
<1>2. PICK t : t = CHOOSE u \in Tasks : TRUE
  OBVIOUS
<1>3. t \in Tasks
  BY <1>1, <1>2
<1>4. /\ identifier = [u \in Tasks |-> 0] /\ scopes = [u \in Tasks |-> <<>>]
      /\ ids = 0 /\ left = [how |-> "none", again |-> FALSE] /\ running = {t}
      /\ slot = [c \in Contexts |-> [task |-> t, old |-> 0, used |-> TRUE]]
  BY <1>2 DEF Corr!Init, Corr!None, Corr!Unused
<1>5. Corr!TypeOK
  <2>1. 0 \in Corr!Ids /\ <<>> \in Seq(Corr!Scope) /\ "none" \in Corr!Exits
    BY <1>1 DEF Corr!Ids, Corr!Exits
  <2>2. [task |-> t, old |-> 0, used |-> TRUE] \in Corr!Token
    BY <1>3, <2>1 DEF Corr!Token
  <2> QED
    BY <1>3, <1>4, <2>1, <2>2 DEF Corr!TypeOK
<1> QED
  BY <1>4, <1>5 DEF CorrelationStrong, Corr!CorrelationInv, ScopesHoldTokens

\* What the types say, spelled out.
LEMMA CorrelationTyped ==
  ASSUME CorrelationStrong
  PROVE  /\ MaxIds \in Nat
         /\ identifier \in [Tasks -> 0..MaxIds] /\ ids \in 0..MaxIds
         /\ slot \in [Contexts -> [task : Tasks, old : 0..MaxIds, used : BOOLEAN]]
         /\ scopes \in [Tasks -> Seq(Corr!Scope)] /\ running \subseteq Tasks
         /\ \A t \in Tasks : /\ DOMAIN scopes[t] = 1..Len(scopes[t])
                             /\ Len(scopes[t]) \in Nat
                             /\ \A i \in 1..Len(scopes[t]) : scopes[t][i] \in Corr!Scope
<1>1. Corr!TypeOK
  BY DEF CorrelationStrong, Corr!CorrelationInv
<1>2. \A t \in Tasks : scopes[t] \in Seq(Corr!Scope)
  BY <1>1 DEF Corr!TypeOK
<1>3. \A t \in Tasks : /\ DOMAIN scopes[t] = 1..Len(scopes[t])
                       /\ Len(scopes[t]) \in Nat
                       /\ \A i \in 1..Len(scopes[t]) : scopes[t][i] \in Corr!Scope
  BY <1>2, SequenceTyped
<1> QED
  BY <1>1, <1>3, TelemetryAssumption
     DEF Corr!TypeOK, Corr!CorrelationAssumption, Corr!Ids, Corr!Token

\* The token of a scope whose object was not entered again.
LEMMA TokenHeld ==
  ASSUME CorrelationStrong
  PROVE  \A t \in Tasks : \A i \in DOMAIN scopes[t] : ~scopes[t][i].again =>
           slot[scopes[t][i].ctx] =
             [task |-> t, old |-> scopes[t][i].before, used |-> FALSE]
<1>1. ScopesHoldTokens
  BY DEF CorrelationStrong
<1> QED
  BY <1>1, Zenon DEF ScopesHoldTokens

\* The scopes of an object that is entered again stay what they were otherwise.
LEMMA MarkKeeps ==
  ASSUME NEW s \in Seq(Corr!Scope), NEW c \in Contexts
  PROVE  /\ Corr!Mark(s, c) \in Seq(Corr!Scope) /\ Len(Corr!Mark(s, c)) = Len(s)
         /\ \A i \in 1..Len(s) :
              /\ Corr!Mark(s, c)[i].ctx = s[i].ctx /\ Corr!Mark(s, c)[i].before = s[i].before
              /\ Corr!Mark(s, c)[i].again <=> s[i].again \/ s[i].ctx = c
<1> DEFINE e(i) == IF s[i].ctx = c THEN [s[i] EXCEPT !.again = TRUE] ELSE s[i]
<1>1. Len(s) \in Nat /\ DOMAIN s = 1..Len(s) /\ \A i \in 1..Len(s) : s[i] \in Corr!Scope
  BY SequenceTyped
<1>2. ASSUME NEW i \in 1..Len(s)
      PROVE  /\ e(i) \in Corr!Scope /\ e(i).ctx = s[i].ctx /\ e(i).before = s[i].before
             /\ e(i).again <=> s[i].again \/ s[i].ctx = c
  <2>1. s[i] \in [ctx : Contexts, before : Corr!Ids, again : BOOLEAN]
    BY <1>1 DEF Corr!Scope
  <2>2. /\ [s[i] EXCEPT !.again = TRUE] \in Corr!Scope
        /\ [s[i] EXCEPT !.again = TRUE].ctx = s[i].ctx
        /\ [s[i] EXCEPT !.again = TRUE].before = s[i].before
        /\ [s[i] EXCEPT !.again = TRUE].again = TRUE
    BY <2>1 DEF Corr!Scope
  <2> QED
    BY <1>1, <2>1, <2>2
<1>3. Corr!Mark(s, c) = [i \in 1..Len(s) |-> e(i)]
  BY <1>1 DEF Corr!Mark
<1> HIDE DEF e
<1>4. Corr!Mark(s, c) \in Seq(Corr!Scope) /\ Len(Corr!Mark(s, c)) = Len(s)
  BY <1>1, <1>2, <1>3
<1> QED
  BY <1>2, <1>3, <1>4

LEMMA EnterKeeps ==
  ASSUME CorrelationStrong, NEW t \in Tasks, NEW c \in Contexts, Corr!Enter(t, c)
  PROVE  CorrelationStrong'
<1>t. /\ MaxIds \in Nat
      /\ identifier \in [Tasks -> 0..MaxIds] /\ ids \in 0..MaxIds
      /\ slot \in [Contexts -> [task : Tasks, old : 0..MaxIds, used : BOOLEAN]]
      /\ scopes \in [Tasks -> Seq(Corr!Scope)] /\ running \subseteq Tasks
  BY CorrelationTyped
<1>d. \A u \in Tasks : /\ DOMAIN scopes[u] = 1..Len(scopes[u])
                       /\ Len(scopes[u]) \in Nat
                       /\ \A i \in 1..Len(scopes[u]) : scopes[u][i] \in Corr!Scope
  BY CorrelationTyped
<1> DEFINE token == [task |-> t, old |-> identifier[t], used |-> FALSE]
           new   == [ctx |-> c, before |-> identifier[t], again |-> FALSE]
<1>1. PICK i \in 1..ids + 1 :
        /\ i \in 0..MaxIds /\ identifier' = [identifier EXCEPT ![t] = i]
        /\ ids' = Corr!Max({ids, i})
  BY DEF Corr!Enter, Corr!SetId, Corr!Ids
<1>2. /\ t \in running /\ running' = running
      /\ slot' = [slot EXCEPT ![c] = token]
      /\ scopes' = [u \in Tasks |->
           Corr!Mark(scopes[u], c) \o IF u = t THEN <<new>> ELSE <<>>]
      /\ left' = [how |-> "none", again |-> FALSE]
  BY DEF Corr!Enter, Corr!None
<1>3. ids' \in 0..MaxIds
  <2>1. i \in Nat /\ ids \in Nat
    BY <1>t, <1>1
  <2> QED
    BY <1>t, <1>1, <2>1, MaxIsOne
<1>4. /\ identifier' \in [Tasks -> 0..MaxIds] /\ identifier'[t] # 0
      /\ \A u \in Tasks \ {t} : identifier'[u] = identifier[u]
  BY <1>t, <1>1
<1>5. /\ slot' \in [Contexts -> [task : Tasks, old : 0..MaxIds, used : BOOLEAN]]
      /\ slot'[c] = token /\ \A d \in Contexts \ {c} : slot'[d] = slot[d]
  <2>1. token \in [task : Tasks, old : 0..MaxIds, used : BOOLEAN]
    BY <1>t
  <2> QED
    BY <1>t, <1>2, <2>1
<1>6. new \in Corr!Scope /\ new.ctx = c /\ new.before = identifier[t] /\ ~new.again
  BY <1>t DEF Corr!Scope, Corr!Ids
<1> HIDE DEF token, new
\* The scopes that were open, and the new one.
<1>7. ASSUME NEW u \in Tasks
      PROVE  /\ scopes'[u] \in Seq(Corr!Scope)
             /\ Len(scopes'[u]) = IF u = t THEN Len(scopes[u]) + 1 ELSE Len(scopes[u])
             /\ u = t => scopes'[u][Len(scopes[u]) + 1] = new
             /\ \A k \in 1..Len(scopes[u]) :
                  /\ scopes'[u][k].ctx = scopes[u][k].ctx
                  /\ scopes'[u][k].before = scopes[u][k].before
                  /\ scopes'[u][k].again <=> scopes[u][k].again \/ scopes[u][k].ctx = c
  <2> DEFINE m == Corr!Mark(scopes[u], c)
  <2>1. scopes[u] \in Seq(Corr!Scope)
    BY <1>t
  <2>2. /\ m \in Seq(Corr!Scope) /\ Len(m) = Len(scopes[u])
        /\ \A k \in 1..Len(scopes[u]) :
             /\ m[k].ctx = scopes[u][k].ctx /\ m[k].before = scopes[u][k].before
             /\ m[k].again <=> scopes[u][k].again \/ scopes[u][k].ctx = c
    BY <2>1, MarkKeeps
  <2> HIDE DEF m
  <2>3. scopes'[u] = IF u = t THEN m \o <<new>> ELSE m \o <<>>
    BY <1>2 DEF m
  <2>4. CASE u = t
    <3>1. scopes'[u] = m \o <<new>>
      BY <2>3, <2>4
    <3>2. /\ m \o <<new>> \in Seq(Corr!Scope) /\ Len(m \o <<new>>) = Len(m) + 1
          /\ (m \o <<new>>)[Len(m) + 1] = new
          /\ \A k \in 1..Len(m) : (m \o <<new>>)[k] = m[k]
      BY <1>6, <2>2
    <3> QED
      BY <2>2, <2>4, <3>1, <3>2
  <2>5. CASE u # t
    <3>1. scopes'[u] = m
      BY <2>2, <2>3, <2>5
    <3> QED
      BY <2>2, <2>5, <3>1
  <2> QED
    BY <2>4, <2>5
<1>8. \A u \in Tasks : /\ DOMAIN scopes'[u] = 1..Len(scopes'[u])
                       /\ \A k \in 1..Len(scopes'[u]) :
                            k \in 1..Len(scopes[u]) \/ (u = t /\ k = Len(scopes[u]) + 1)
  BY <1>7, <1>d
<1>9. ASSUME NEW u \in Tasks, NEW k \in DOMAIN scopes'[u], ~scopes'[u][k].again
      PROVE  slot'[scopes'[u][k].ctx] =
               [task |-> u, old |-> scopes'[u][k].before, used |-> FALSE]
  <2>1. CASE k \in 1..Len(scopes[u])
    <3>1. ~scopes[u][k].again /\ scopes[u][k].ctx # c
      BY <1>7, <1>9, <2>1
    <3>2. slot[scopes[u][k].ctx] = [task |-> u, old |-> scopes[u][k].before, used |-> FALSE]
      <4>1. k \in DOMAIN scopes[u]
        BY <1>d, <2>1
      <4> QED
        BY <3>1, <4>1, TokenHeld, Zenon
    <3>3. scopes[u][k].ctx \in Contexts
      BY <1>d, <2>1 DEF Corr!Scope
    <3>4. slot'[scopes[u][k].ctx] = slot[scopes[u][k].ctx]
      BY <1>5, <3>1, <3>3
    <3> QED
      BY <1>7, <2>1, <3>2, <3>4
  <2>2. CASE u = t /\ k = Len(scopes[u]) + 1
    <3>1. scopes'[u][k] = new
      BY <1>7, <2>2
    <3> QED
      BY <1>5, <1>6, <2>2, <3>1 DEF token
  <2> QED
    BY <1>8, <1>9, <2>1, <2>2
<1>10. ASSUME NEW u \in Tasks, NEW j \in DOMAIN scopes'[u], NEW k \in DOMAIN scopes'[u],
              j < k, scopes'[u][j].ctx = scopes'[u][k].ctx
       PROVE  scopes'[u][j].again
  <2>1. j \in 1..Len(scopes[u])
    BY <1>7, <1>8, <1>10, <1>d
  <2>2. CASE k \in 1..Len(scopes[u])
    <3>1. scopes[u][j].ctx = scopes[u][k].ctx /\ j \in DOMAIN scopes[u] /\ k \in DOMAIN scopes[u]
      BY <1>7, <1>10, <2>1, <2>2, <1>d
    <3>2. scopes[u][j].again
      BY <1>10, <3>1 DEF CorrelationStrong, ScopesHoldTokens
    <3> QED
      BY <1>7, <2>1, <3>2
  <2>3. CASE u = t /\ k = Len(scopes[u]) + 1
    <3>1. scopes'[u][k].ctx = c
      BY <1>6, <1>7, <2>3
    <3> QED
      BY <1>7, <1>10, <2>1, <3>1
  <2> QED
    BY <1>8, <1>10, <2>2, <2>3
<1>11. ASSUME NEW d \in Contexts, ~slot'[d].used
       PROVE  \E k \in DOMAIN scopes'[slot'[d].task] :
                /\ scopes'[slot'[d].task][k].ctx = d
                /\ ~scopes'[slot'[d].task][k].again
  <2>1. CASE d = c
    <3>1. slot'[d].task = t
      BY <1>5, <2>1 DEF token
    <3>2. Len(scopes[t]) + 1 \in DOMAIN scopes'[t]
      BY <1>7, <1>8, <1>d
    <3>3. scopes'[t][Len(scopes[t]) + 1] = new
      BY <1>7
    <3> QED
      BY <1>6, <2>1, <3>1, <3>2, <3>3
  <2>2. CASE d # c
    <3> DEFINE u == slot[d].task
    <3>1. slot'[d] = slot[d] /\ u \in Tasks
      BY <1>t, <1>5, <2>2
    <3>2. PICK k \in DOMAIN scopes[u] : scopes[u][k].ctx = d /\ ~scopes[u][k].again
      BY <1>11, <3>1 DEF CorrelationStrong, ScopesHoldTokens
    <3> HIDE DEF u
    <3>3. k \in 1..Len(scopes[u]) /\ k \in DOMAIN scopes'[u]
      BY <1>7, <1>8, <1>d, <3>1, <3>2
    <3>4. scopes'[u][k].ctx = d /\ ~scopes'[u][k].again
      BY <1>7, <2>2, <3>1, <3>2, <3>3
    <3> QED
      BY <3>1, <3>3, <3>4 DEF u
  <2> QED
    BY <2>1, <2>2
<1>12. ScopesHoldTokens'
  BY <1>9, <1>10, <1>11 DEF ScopesHoldTokens
<1>13. \A u \in Tasks : \A k \in DOMAIN scopes'[u] : k > 1 => scopes'[u][k].before # 0
  <2> SUFFICES ASSUME NEW u \in Tasks, NEW k \in DOMAIN scopes'[u], k > 1
               PROVE  scopes'[u][k].before # 0
    OBVIOUS
  <2>1. CASE k \in 1..Len(scopes[u])
    BY <1>7, <1>d, <2>1 DEF CorrelationStrong
  <2>2. CASE u = t /\ k = Len(scopes[u]) + 1
    <3>1. scopes'[u][k].before = identifier[t]
      BY <1>6, <1>7, <2>2
    <3>2. scopes[t] # <<>>
      BY <1>d, <2>2
    <3> QED
      BY <3>1, <3>2 DEF CorrelationStrong, Corr!CorrelationInv
  <2> QED
    BY <1>8, <2>1, <2>2
<1>14. \A u \in Tasks \ running' : scopes'[u] = <<>>
  <2> SUFFICES ASSUME NEW u \in Tasks \ running PROVE scopes'[u] = <<>>
    BY <1>2
  <2>1. scopes[u] = <<>> /\ u # t
    BY <1>2 DEF CorrelationStrong
  <2>2. Len(scopes'[u]) = 0 /\ scopes'[u] \in Seq(Corr!Scope)
    BY <1>7, <2>1
  <2> QED
    BY <2>2
<1>15. \A u \in Tasks : scopes'[u] # <<>> => identifier'[u] # 0
  <2> SUFFICES ASSUME NEW u \in Tasks, u # t, scopes'[u] # <<>> PROVE identifier[u] # 0
    BY <1>4
  <2>1. Len(scopes'[u]) # 0
    BY <1>7
  <2>2. scopes[u] # <<>>
    BY <1>7, <2>1
  <2> QED
    BY <2>2 DEF CorrelationStrong, Corr!CorrelationInv
<1>16. Corr!TypeOK'
  <2>1. scopes' \in [Tasks -> Seq(Corr!Scope)]
    BY <1>2, <1>7
  <2>2. left' \in [how : Corr!Exits, again : BOOLEAN]
    BY <1>2 DEF Corr!Exits
  <2> QED
    BY <1>t, <1>2, <1>3, <1>4, <1>5, <2>1, <2>2 DEF Corr!TypeOK, Corr!Ids, Corr!Token
<1>17. left'.how \in {"altered", "raised"} => left'.again
  BY <1>2
<1> QED
  BY <1>12, <1>13, <1>14, <1>15, <1>16, <1>17 DEF CorrelationStrong, Corr!CorrelationInv

\* A scope that is left has its token, if and only if its object was not entered again.
LEMMA TokenOfTop ==
  ASSUME CorrelationStrong, NEW t \in Tasks, scopes[t] # <<>>,
         NEW n, n = Len(scopes[t]), NEW top, top = scopes[t][n]
  PROVE  /\ n \in DOMAIN scopes[t] /\ top \in Corr!Scope
         /\ (slot[top.ctx].used \/ slot[top.ctx].task # t) <=> top.again
         /\ ~top.again => slot[top.ctx].old = top.before
<1>d. /\ DOMAIN scopes[t] = 1..n /\ n \in Nat /\ n # 0
      /\ \A i \in 1..n : scopes[t][i] \in Corr!Scope
  <2>1. scopes[t] \in Seq(Corr!Scope)
    BY CorrelationTyped
  <2> QED
    BY <2>1, SequenceTyped
<1>1. n \in DOMAIN scopes[t] /\ top \in Corr!Scope
  BY <1>d
<1>2. top.ctx \in Contexts
  BY <1>1 DEF Corr!Scope
<1>3. ASSUME ~top.again
      PROVE  slot[top.ctx] = [task |-> t, old |-> top.before, used |-> FALSE]
  BY <1>1, <1>3, TokenHeld, Zenon
<1>4. ASSUME ~slot[top.ctx].used, slot[top.ctx].task = t PROVE ~top.again
  <2>1. PICK i \in DOMAIN scopes[t] : scopes[t][i].ctx = top.ctx /\ ~scopes[t][i].again
    BY <1>2, <1>4 DEF CorrelationStrong, ScopesHoldTokens
  <2>2. ~(i < n)
    BY <1>1, <2>1 DEF CorrelationStrong, ScopesHoldTokens
  <2>3. i = n
    BY <1>d, <2>1, <2>2
  <2> QED
    BY <2>1, <2>3
<1>5. CASE top.again
  BY <1>1, <1>4, <1>5
<1>6. CASE ~top.again
  BY <1>1, <1>3, <1>6
<1> QED
  BY <1>5, <1>6

LEMMA ExitKeeps ==
  ASSUME CorrelationStrong, NEW t \in Tasks, Corr!Exit(t)
  PROVE  CorrelationStrong'
<1>t. /\ MaxIds \in Nat
      /\ identifier \in [Tasks -> 0..MaxIds] /\ ids \in 0..MaxIds
      /\ slot \in [Contexts -> [task : Tasks, old : 0..MaxIds, used : BOOLEAN]]
      /\ scopes \in [Tasks -> Seq(Corr!Scope)] /\ running \subseteq Tasks
  BY CorrelationTyped
<1>d. \A u \in Tasks : /\ DOMAIN scopes[u] = 1..Len(scopes[u])
                       /\ Len(scopes[u]) \in Nat
                       /\ \A i \in 1..Len(scopes[u]) : scopes[u][i] \in Corr!Scope
  BY CorrelationTyped
<1> DEFINE n   == Len(scopes[t])
           top == scopes[t][n]
           tok == slot[top.ctx]
           bad == tok.used \/ tok.task # t
<1>1. /\ scopes[t] # <<>> /\ Corr!Top(t) = top
      /\ scopes' = [scopes EXCEPT ![t] = SubSeq(scopes[t], 1, n - 1)]
      /\ identifier' = IF bad THEN identifier ELSE [identifier EXCEPT ![t] = tok.old]
      /\ slot' = IF bad THEN slot ELSE [slot EXCEPT ![top.ctx] = Corr!Unused(t)]
      /\ left' = [how |-> IF bad THEN "raised"
                          ELSE IF identifier'[t] = top.before THEN "restored" ELSE "altered",
                  again |-> top.again]
      /\ UNCHANGED <<ids, running>>
  BY DEF Corr!Exit, Corr!Top, Corr!Reset
<1>2. /\ n \in DOMAIN scopes[t] /\ top \in Corr!Scope
      /\ bad <=> top.again
      /\ ~top.again => tok.old = top.before
  BY <1>1, TokenOfTop
<1>3. top.ctx \in Contexts /\ top.before \in 0..MaxIds /\ top.again \in BOOLEAN
  BY <1>2 DEF Corr!Scope, Corr!Ids
<1>4. n \in Nat /\ n > 0
  BY <1>2, <1>d
<1> HIDE DEF bad, tok, top, n
<1>5. /\ scopes'[t] \in Seq(Corr!Scope) /\ Len(scopes'[t]) = n - 1
      /\ DOMAIN scopes'[t] = 1..n - 1
      /\ \A i \in 1..n - 1 : scopes'[t][i] = scopes[t][i] /\ i \in DOMAIN scopes[t]
      /\ \A u \in Tasks \ {t} : scopes'[u] = scopes[u]
  <2>1. scopes[t] \in Seq(Corr!Scope) /\ n = Len(scopes[t])
    BY <1>t DEF n
  <2>2. /\ SubSeq(scopes[t], 1, n - 1) \in Seq(Corr!Scope)
        /\ Len(SubSeq(scopes[t], 1, n - 1)) = n - 1
        /\ \A i \in 1..n - 1 : SubSeq(scopes[t], 1, n - 1)[i] = scopes[t][i]
    BY <1>4, <2>1
  <2>3. scopes'[t] = SubSeq(scopes[t], 1, n - 1) /\ \A u \in Tasks \ {t} : scopes'[u] = scopes[u]
    BY <1>t, <1>1
  <2>4. DOMAIN scopes'[t] = 1..n - 1
    BY <2>2, <2>3
  <2> QED
    BY <1>d, <1>4, <2>1, <2>2, <2>3, <2>4
\* What is open was open.
<1>6. \A u \in Tasks : \A i \in DOMAIN scopes'[u] :
        i \in DOMAIN scopes[u] /\ scopes'[u][i] = scopes[u][i] /\ (u = t => i < n)
  BY <1>4, <1>5
<1>7. \A u \in Tasks : \A i, j \in DOMAIN scopes'[u] :
        i < j /\ scopes'[u][i].ctx = scopes'[u][j].ctx => scopes'[u][i].again
  BY <1>6 DEF CorrelationStrong, ScopesHoldTokens
<1>8. \A u \in Tasks : \A i \in DOMAIN scopes'[u] : i > 1 => scopes'[u][i].before # 0
  BY <1>6 DEF CorrelationStrong
<1>9. \A u \in Tasks \ running' : scopes'[u] = <<>>
  BY <1>1, <1>5 DEF CorrelationStrong
<1>10. scopes' \in [Tasks -> Seq(Corr!Scope)]
  BY <1>t, <1>1, <1>5
\* Left for the first time: the token is used, and the identifier comes back.
<1>11. CASE ~top.again
  <2>1. ~bad /\ tok.old = top.before /\ slot' = [slot EXCEPT ![top.ctx] = Corr!Unused(t)]
        /\ identifier' = [identifier EXCEPT ![t] = top.before]
    BY <1>1, <1>2, <1>11
  <2>2. /\ slot' \in [Contexts -> [task : Tasks, old : 0..MaxIds, used : BOOLEAN]]
        /\ slot'[top.ctx].used /\ \A c \in Contexts \ {top.ctx} : slot'[c] = slot[c]
    <3>1. Corr!Unused(t) \in [task : Tasks, old : 0..MaxIds, used : BOOLEAN]
          /\ Corr!Unused(t).used
      BY <1>t DEF Corr!Unused
    <3> QED
      BY <1>t, <1>3, <2>1, <3>1
  <2>3. /\ identifier' \in [Tasks -> 0..MaxIds] /\ identifier'[t] = top.before
        /\ \A u \in Tasks \ {t} : identifier'[u] = identifier[u]
    BY <1>t, <1>3, <2>1
  <2>4. left' = [how |-> "restored", again |-> top.again]
    BY <1>1, <2>1, <2>3
  <2>5. ASSUME NEW u \in Tasks, NEW i \in DOMAIN scopes'[u], ~scopes'[u][i].again
        PROVE  slot'[scopes'[u][i].ctx] =
                 [task |-> u, old |-> scopes'[u][i].before, used |-> FALSE]
    <3>1. i \in DOMAIN scopes[u] /\ ~scopes[u][i].again /\ scopes'[u][i] = scopes[u][i]
          /\ (u = t => i < n)
      BY <1>6, <2>5
    <3>2. slot[scopes[u][i].ctx] = [task |-> u, old |-> scopes[u][i].before, used |-> FALSE]
      BY <3>1, TokenHeld, Zenon
    <3>3. slot[top.ctx] = [task |-> t, old |-> top.before, used |-> FALSE]
      BY <1>2, <1>11, TokenHeld, Zenon DEF top
    <3>4. scopes[u][i].ctx # top.ctx
      <4> SUFFICES ASSUME scopes[u][i].ctx = top.ctx PROVE FALSE
        OBVIOUS
      <4>1. u = t
        BY <3>2, <3>3
      <4>2. i \in DOMAIN scopes[t] /\ i < n /\ scopes[t][i].ctx = scopes[t][n].ctx
        BY <3>1, <4>1 DEF top
      <4>3. scopes[t][i].again
        BY <1>2, <4>2 DEF CorrelationStrong, ScopesHoldTokens
      <4> QED
        BY <3>1, <4>1, <4>3
    <3>5. scopes[u][i].ctx \in Contexts
      BY <1>d, <3>1 DEF Corr!Scope
    <3> QED
      BY <2>2, <3>1, <3>2, <3>4, <3>5
  <2>6. ASSUME NEW c \in Contexts, ~slot'[c].used
        PROVE  \E i \in DOMAIN scopes'[slot'[c].task] :
                 /\ scopes'[slot'[c].task][i].ctx = c
                 /\ ~scopes'[slot'[c].task][i].again
    <3>1. c # top.ctx /\ slot'[c] = slot[c] /\ slot[c].task \in Tasks
      BY <1>t, <2>2, <2>6
    <3>2. PICK i \in DOMAIN scopes[slot[c].task] :
            scopes[slot[c].task][i].ctx = c /\ ~scopes[slot[c].task][i].again
      BY <2>6, <3>1 DEF CorrelationStrong, ScopesHoldTokens
    <3>3. ~(slot[c].task = t /\ i = n)
      BY <3>1, <3>2 DEF top
    <3>4. i \in DOMAIN scopes'[slot[c].task]
          /\ scopes'[slot[c].task][i] = scopes[slot[c].task][i]
      <4>1. CASE slot[c].task = t
        <5>1. i \in 1..n /\ i # n
          BY <1>d, <3>2, <3>3, <4>1 DEF n
        <5>2. i \in 1..n - 1
          BY <1>4, <5>1
        <5> QED
          BY <1>5, <4>1, <5>2
      <4>2. CASE slot[c].task # t
        BY <1>5, <3>1, <3>2, <4>2
      <4> QED
        BY <4>1, <4>2
    <3> QED
      BY <3>1, <3>2, <3>4
  <2>7. ScopesHoldTokens'
    BY <1>7, <2>5, <2>6 DEF ScopesHoldTokens
  <2>8. \A u \in Tasks : scopes'[u] # <<>> => identifier'[u] # 0
    <3>1. ASSUME scopes'[t] # <<>> PROVE identifier'[t] # 0
      <4>1. n > 1
        BY <1>4, <1>5, <3>1
      <4>2. top.before # 0
        BY <1>2, <4>1 DEF CorrelationStrong, top
      <4> QED
        BY <2>3, <4>2
    <3>2. ASSUME NEW u \in Tasks \ {t}, scopes'[u] # <<>> PROVE identifier'[u] # 0
      BY <1>5, <2>3, <3>2 DEF CorrelationStrong, Corr!CorrelationInv
    <3> QED
      BY <3>1, <3>2
  <2>9. Corr!TypeOK'
    <3>1. left' \in [how : Corr!Exits, again : BOOLEAN]
      BY <1>3, <2>4 DEF Corr!Exits
    <3> QED
      BY <1>t, <1>1, <1>10, <2>2, <2>3, <3>1 DEF Corr!TypeOK, Corr!Ids, Corr!Token
  <2>10. left'.how \in {"altered", "raised"} => left'.again
    BY <2>4
  <2> QED
    BY <1>8, <1>9, <2>7, <2>8, <2>9, <2>10 DEF CorrelationStrong, Corr!CorrelationInv
\* Left before a later scope of its object: reset() raises.
<1>12. CASE top.again
  <2>1. bad /\ slot' = slot /\ identifier' = identifier
        /\ left' = [how |-> "raised", again |-> top.again]
    BY <1>1, <1>2, <1>12
  <2>2. ASSUME NEW u \in Tasks, NEW i \in DOMAIN scopes'[u], ~scopes'[u][i].again
        PROVE  slot'[scopes'[u][i].ctx] =
                 [task |-> u, old |-> scopes'[u][i].before, used |-> FALSE]
    <3>1. i \in DOMAIN scopes[u] /\ ~scopes[u][i].again /\ scopes'[u][i] = scopes[u][i]
      BY <1>6, <2>2
    <3>2. slot[scopes[u][i].ctx] = [task |-> u, old |-> scopes[u][i].before, used |-> FALSE]
      BY <3>1, TokenHeld, Zenon
    <3> QED
      BY <2>1, <3>1, <3>2
  <2>3. ASSUME NEW c \in Contexts, ~slot'[c].used
        PROVE  \E i \in DOMAIN scopes'[slot'[c].task] :
                 /\ scopes'[slot'[c].task][i].ctx = c
                 /\ ~scopes'[slot'[c].task][i].again
    <3>1. slot'[c] = slot[c] /\ slot[c].task \in Tasks
      BY <1>t, <2>1
    <3>2. PICK i \in DOMAIN scopes[slot[c].task] :
            scopes[slot[c].task][i].ctx = c /\ ~scopes[slot[c].task][i].again
      BY <2>3, <3>1 DEF CorrelationStrong, ScopesHoldTokens
    <3>3. ~(slot[c].task = t /\ i = n)
      BY <1>12, <3>1, <3>2 DEF top
    <3>4. i \in DOMAIN scopes'[slot[c].task]
          /\ scopes'[slot[c].task][i] = scopes[slot[c].task][i]
      <4>1. CASE slot[c].task = t
        <5>1. i \in 1..n /\ i # n
          BY <1>d, <3>2, <3>3, <4>1 DEF n
        <5>2. i \in 1..n - 1
          BY <1>4, <5>1
        <5> QED
          BY <1>5, <4>1, <5>2
      <4>2. CASE slot[c].task # t
        BY <1>5, <3>1, <3>2, <4>2
      <4> QED
        BY <4>1, <4>2
    <3> QED
      BY <3>1, <3>2, <3>4
  <2>4. ScopesHoldTokens'
    BY <1>7, <2>2, <2>3 DEF ScopesHoldTokens
  <2>5. \A u \in Tasks : scopes'[u] # <<>> => identifier'[u] # 0
    <3>1. \A u \in Tasks : scopes'[u] # <<>> => scopes[u] # <<>>
      BY <1>1, <1>5
    <3> QED
      BY <2>1, <3>1 DEF CorrelationStrong, Corr!CorrelationInv
  <2>6. Corr!TypeOK'
    <3>1. left' \in [how : Corr!Exits, again : BOOLEAN]
      BY <1>3, <2>1 DEF Corr!Exits
    <3> QED
      BY <1>t, <1>1, <1>10, <2>1, <3>1 DEF Corr!TypeOK, Corr!Ids, Corr!Token
  <2>7. left'.how \in {"altered", "raised"} => left'.again
    BY <1>12, <2>1
  <2> QED
    BY <1>8, <1>9, <2>4, <2>5, <2>6, <2>7 DEF CorrelationStrong, Corr!CorrelationInv
<1> QED
  BY <1>11, <1>12

\* A task's identifier is replaced and its scopes stay what they were.
LEMMA IdentifierIsSet ==
  ASSUME CorrelationStrong, NEW t \in Tasks, NEW i \in 1..MaxIds, t \in running,
         identifier' = [identifier EXCEPT ![t] = i], ids' \in 0..MaxIds,
         left' = [how |-> "none", again |-> FALSE], UNCHANGED <<slot, scopes, running>>
  PROVE  CorrelationStrong'
<1>t. /\ MaxIds \in Nat
      /\ identifier \in [Tasks -> 0..MaxIds] /\ ids \in 0..MaxIds
      /\ slot \in [Contexts -> [task : Tasks, old : 0..MaxIds, used : BOOLEAN]]
      /\ scopes \in [Tasks -> Seq(Corr!Scope)] /\ running \subseteq Tasks
  BY CorrelationTyped
<1>1. /\ identifier' \in [Tasks -> 0..MaxIds] /\ identifier'[t] # 0
      /\ \A u \in Tasks \ {t} : identifier'[u] = identifier[u]
  BY <1>t
<1>2. ScopesHoldTokens'
  BY DEF CorrelationStrong, ScopesHoldTokens
<1>3. Corr!TypeOK'
  <2>1. left' \in [how : Corr!Exits, again : BOOLEAN]
    BY DEF Corr!Exits
  <2> QED
    BY <1>t, <1>1, <2>1 DEF Corr!TypeOK, Corr!Ids, Corr!Token
<1>4. \A u \in Tasks : scopes'[u] # <<>> => identifier'[u] # 0
  BY <1>1 DEF CorrelationStrong, Corr!CorrelationInv
<1>5. left'.how \in {"altered", "raised"} => left'.again
  OBVIOUS
<1>6. /\ \A u \in Tasks : \A k \in DOMAIN scopes'[u] : k > 1 => scopes'[u][k].before # 0
      /\ \A u \in Tasks \ running' : scopes'[u] = <<>>
  BY DEF CorrelationStrong
<1> QED
  BY <1>2, <1>3, <1>4, <1>5, <1>6 DEF CorrelationStrong, Corr!CorrelationInv

LEMMA ReceiveKeeps ==
  ASSUME CorrelationStrong, NEW t \in Tasks, Corr!Receive(t)
  PROVE  CorrelationStrong'
<1>1. MaxIds \in Nat /\ ids \in 0..MaxIds
  BY CorrelationTyped
<1>2. PICK i \in 1..ids + 1 :
        /\ i \in 0..MaxIds /\ identifier' = [identifier EXCEPT ![t] = i]
        /\ ids' = Corr!Max({ids, i})
  BY DEF Corr!Receive, Corr!SetId, Corr!Ids
<1>3. i \in 1..MaxIds /\ i \in Nat /\ ids \in Nat
  BY <1>1, <1>2
<1>4. ids' \in 0..MaxIds
  BY <1>1, <1>2, <1>3, MaxIsOne
<1>5. /\ t \in running /\ left' = [how |-> "none", again |-> FALSE]
      /\ UNCHANGED <<slot, scopes, running>>
  BY DEF Corr!Receive, Corr!None
<1> QED
  BY <1>2, <1>3, <1>4, <1>5, IdentifierIsSet

LEMMA InjectKeeps ==
  ASSUME CorrelationStrong, NEW t \in Tasks, Corr!Inject(t)
  PROVE  CorrelationStrong'
<1>1. MaxIds \in Nat /\ ids \in 0..MaxIds
  BY CorrelationTyped
<1>2. /\ ids < MaxIds /\ ids' = ids + 1 /\ identifier' = [identifier EXCEPT ![t] = ids']
  BY DEF Corr!Inject, Corr!SetId
<1>3. ids' \in 1..MaxIds /\ ids' \in 0..MaxIds
  BY <1>1, <1>2
<1>4. /\ t \in running /\ left' = [how |-> "none", again |-> FALSE]
      /\ UNCHANGED <<slot, scopes, running>>
  BY DEF Corr!Inject, Corr!None
<1> QED
  BY <1>2, <1>3, <1>4, IdentifierIsSet

LEMMA StartKeeps ==
  ASSUME CorrelationStrong, NEW t \in Tasks, NEW u \in Tasks, Corr!Start(t, u)
  PROVE  CorrelationStrong'
<1>t. /\ MaxIds \in Nat
      /\ identifier \in [Tasks -> 0..MaxIds] /\ ids \in 0..MaxIds
      /\ slot \in [Contexts -> [task : Tasks, old : 0..MaxIds, used : BOOLEAN]]
      /\ scopes \in [Tasks -> Seq(Corr!Scope)] /\ running \subseteq Tasks
  BY CorrelationTyped
<1>1. /\ u \notin running /\ running' = running \cup {u}
      /\ identifier' = [identifier EXCEPT ![u] = identifier[t]]
      /\ left' = [how |-> "none", again |-> FALSE] /\ UNCHANGED <<slot, scopes, ids>>
  BY DEF Corr!Start, Corr!SetId, Corr!None
<1>2. scopes[u] = <<>>
  BY <1>1 DEF CorrelationStrong
<1>3. /\ identifier' \in [Tasks -> 0..MaxIds]
      /\ \A v \in Tasks \ {u} : identifier'[v] = identifier[v]
  BY <1>t, <1>1
<1>4. ScopesHoldTokens'
  BY <1>1 DEF CorrelationStrong, ScopesHoldTokens
<1>5. Corr!TypeOK'
  <2>1. left' \in [how : Corr!Exits, again : BOOLEAN]
    BY <1>1 DEF Corr!Exits
  <2> QED
    BY <1>t, <1>1, <1>3, <2>1 DEF Corr!TypeOK, Corr!Ids, Corr!Token
<1>6. \A v \in Tasks : scopes'[v] # <<>> => identifier'[v] # 0
  BY <1>1, <1>2, <1>3 DEF CorrelationStrong, Corr!CorrelationInv
<1>7. left'.how \in {"altered", "raised"} => left'.again
  BY <1>1
<1>8. /\ \A v \in Tasks : \A k \in DOMAIN scopes'[v] : k > 1 => scopes'[v][k].before # 0
      /\ \A v \in Tasks \ running' : scopes'[v] = <<>>
  BY <1>1 DEF CorrelationStrong
<1> QED
  BY <1>4, <1>5, <1>6, <1>7, <1>8 DEF CorrelationStrong, Corr!CorrelationInv

LEMMA CorrelationStep ==
  ASSUME CorrelationStrong, [Corr!Next]_corrVars
  PROVE  CorrelationStrong'
<1>1. CASE UNCHANGED corrVars
  BY <1>1 DEF corrVars, CorrelationStrong, Corr!CorrelationInv, Corr!TypeOK, ScopesHoldTokens
<1>2. CASE Corr!Next
  BY <1>2, EnterKeeps, ExitKeeps, ReceiveKeeps, InjectKeeps, StartKeeps DEF Corr!Next
<1> QED
  BY <1>1, <1>2

\* A scope whose object was not entered again before it was left restores the identifier
\* it replaced, whatever is set within it and by other tasks, for any number of tasks,
\* objects and scopes (correlation.py:33-45).
THEOREM ScopesRestore == TelemetrySpec => []CorrelationInv
<1> DEFINE Inv == part = "correlation" => CorrelationStrong
<1>1. TelemetryInit => Inv
  BY CorrelationInitial DEF TelemetryInit
<1>2. Inv /\ [TelemetryNext]_<<part, keeping, learning>> => Inv'
  BY CorrelationStep, StepOfPart
<1>3. Inv => CorrelationInv
  BY DEF CorrelationInv, CorrelationStrong
<1>4. TelemetrySpec => TelemetryInit /\ [][TelemetryNext]_<<part, keeping, learning>>
  BY PTL DEF TelemetrySpec
<1> HIDE DEF Inv
<1> QED
  BY <1>1, <1>2, <1>3, <1>4, PTL

-----------------------------------------------------------------------------
\* The open spans of a task are its own, each opened after the one before it and under
\* it, the first under what the task was started with, which is of another task.
SpansNest ==
  \A t \in Tasks :
    /\ \A i \in DOMAIN open[t] :
         /\ open[t][i][1] <= Trace!Opened
         /\ owner[open[t][i][1]] = t /\ parent[open[t][i][1]] = open[t][i][2]
         /\ open[t][i][2] = IF i = 1 THEN inherited[t] ELSE open[t][i - 1][1]
    /\ \A i, j \in DOMAIN open[t] : i < j => open[t][i][1] < open[t][j][1]
    /\ inherited[t] # 0 => owner[inherited[t]] # t

\* A task ends one span at a time, and what it has yet to record was opened last.
EndsOneByOne ==
  \A t \in Tasks :
    /\ ending[t] # 0 =>
         /\ owner[ending[t]] = t /\ parent[ending[t]] = current[t]
         /\ \A i \in DOMAIN open[t] : open[t][i][1] < ending[t]
    /\ ending[t] # 0 => t \notin checking
    /\ ending[t] # 0 \/ t \in checking => ~Trace!Trimming(t)
    /\ t \notin started =>
         open[t] = <<>> /\ ending[t] = 0 /\ t \notin checking /\ ~Trace!Trimming(t)

\* What is recorded has ended.
RecordedEnded ==
  /\ \A i \in DOMAIN recorded :
       /\ recorded[i] <= Trace!Opened
       /\ \A t \in Tasks : /\ recorded[i] # ending[t]
                           /\ \A k \in DOMAIN open[t] : recorded[i] # open[t][k][1]
  /\ \A s \in 1..Trace!Opened : owner[s] \in started

\* The ends of two lists of spans are the same, as far as they are kept.
SameEnd(c, r) ==
  /\ Len(c) < MaxSpans \/ Len(r) < MaxSpans => Len(c) = Len(r)
  /\ \A i \in 0..MaxSpans - 1 :
       i < Len(c) /\ i < Len(r) => c[Len(c) - i] = r[Len(r) - i]

Busy == checking \cup {t \in Tasks : Trace!Trimming(t)}

ListsAgree ==
  /\ Len(spans) <= MaxSpans + Cardinality(Busy)
  /\ \A t \in Tasks : Trace!Trimming(t) => Len(copy[t]) <= MaxSpans
  /\ ~raced => /\ SameEnd(spans, recorded)
               /\ \A t \in Tasks : Trace!Trimming(t) => SameEnd(copy[t], recorded)

TraceStrong ==
  /\ Trace!TypeOK /\ Trace!Opened <= MaxOpened
  /\ Trace!ContextIsInnermost /\ Trace!TracesAreTrees
  /\ SpansNest /\ EndsOneByOne /\ RecordedEnded /\ ListsAgree

\* What the types say, spelled out.
LEMMA TraceTyped ==
  ASSUME TraceStrong
  PROVE  /\ IsFiniteSet(Tasks) /\ Tasks # {}
         /\ MaxSpans \in Nat \ {0} /\ MaxOpened \in Nat /\ Trace!Opened = Len(parent)
         /\ Len(parent) \in Nat /\ Len(parent) <= MaxOpened
         /\ current \in [Tasks -> 0..Len(parent)] /\ ending \in [Tasks -> 0..Len(parent)]
         /\ inherited \in [Tasks -> 0..Len(parent)]
         /\ open \in [Tasks -> Seq((1..MaxOpened) \X (0..MaxOpened))]
         /\ parent \in Seq(0..MaxOpened) /\ trace \in Seq(1..MaxOpened) /\ owner \in Seq(Tasks)
         /\ Len(trace) = Len(parent) /\ Len(owner) = Len(parent)
         /\ spans \in Seq(1..MaxOpened) /\ recorded \in Seq(1..MaxOpened)
         /\ copy \in [Tasks -> Seq(1..MaxOpened) \cup {<<0>>}]
         /\ checking \subseteq Tasks /\ started \subseteq Tasks /\ raced \in BOOLEAN
<1>1. IsFiniteSet(Tasks) /\ Tasks # {} /\ MaxSpans \in Nat \ {0} /\ MaxOpened \in Nat
  BY TelemetryAssumption DEF Trace!TracerAssumption, Trace!IsFiniteSet, IsFiniteSet
<1>2. Trace!TypeOK
  BY DEF TraceStrong
<1>3. Trace!Opened = Len(parent) /\ Trace!Spans = 1..MaxOpened /\ Trace!None = <<0>>
  BY DEF Trace!Opened, Trace!Spans, Trace!None
<1>4. parent \in Seq(0..MaxOpened)
  BY <1>2 DEF Trace!TypeOK
<1>5. Len(parent) \in Nat /\ Len(parent) <= MaxOpened
  BY <1>3, <1>4 DEF TraceStrong
<1> QED
  BY <1>1, <1>2, <1>3, <1>5, Zenon DEF Trace!TypeOK

LEMMA SequencesTyped ==
  ASSUME TraceStrong
  PROVE  /\ DOMAIN parent = 1..Len(parent) /\ DOMAIN trace = 1..Len(parent)
         /\ DOMAIN owner = 1..Len(parent)
         /\ \A i \in 1..Len(parent) : /\ parent[i] \in 0..MaxOpened
                                      /\ trace[i] \in 1..MaxOpened /\ owner[i] \in Tasks
         /\ Len(spans) \in Nat /\ Len(recorded) \in Nat
         /\ DOMAIN recorded = 1..Len(recorded)
         /\ \A i \in 1..Len(recorded) : recorded[i] \in 1..MaxOpened
<1>1. /\ parent \in Seq(0..MaxOpened) /\ trace \in Seq(1..MaxOpened) /\ owner \in Seq(Tasks)
      /\ Len(trace) = Len(parent) /\ Len(owner) = Len(parent)
      /\ spans \in Seq(1..MaxOpened) /\ recorded \in Seq(1..MaxOpened)
  BY TraceTyped
<1>2. DOMAIN parent = 1..Len(parent) /\ \A i \in 1..Len(parent) : parent[i] \in 0..MaxOpened
  BY <1>1, SequenceTyped, Zenon
<1>3. DOMAIN trace = 1..Len(parent) /\ \A i \in 1..Len(parent) : trace[i] \in 1..MaxOpened
  BY <1>1, SequenceTyped, Zenon
<1>4. DOMAIN owner = 1..Len(parent) /\ \A i \in 1..Len(parent) : owner[i] \in Tasks
  BY <1>1, SequenceTyped, Zenon
<1>5. Len(spans) \in Nat
  BY <1>1
<1>6. /\ Len(recorded) \in Nat /\ DOMAIN recorded = 1..Len(recorded)
      /\ \A i \in 1..Len(recorded) : recorded[i] \in 1..MaxOpened
  BY <1>1, SequenceTyped, Zenon
<1> QED
  BY <1>2, <1>3, <1>4, <1>5, <1>6

LEMMA OpenTyped ==
  ASSUME TraceStrong, NEW t \in Tasks
  PROVE  /\ open[t] \in Seq((1..MaxOpened) \X (0..MaxOpened))
         /\ Len(open[t]) \in Nat /\ DOMAIN open[t] = 1..Len(open[t])
         /\ \A i \in 1..Len(open[t]) : /\ open[t][i][1] \in 1..MaxOpened
                                       /\ open[t][i][2] \in 0..MaxOpened
         /\ open[t] = <<>> <=> Len(open[t]) = 0
<1>1. open[t] \in Seq((1..MaxOpened) \X (0..MaxOpened))
  BY TraceTyped
<1>2. \A i \in 1..Len(open[t]) : open[t][i] \in (1..MaxOpened) \X (0..MaxOpened)
  BY <1>1
<1> QED
  BY <1>1, <1>2

LEMMA CopyTyped ==
  ASSUME TraceStrong, NEW t \in Tasks, Trace!Trimming(t)
  PROVE  copy[t] \in Seq(1..MaxOpened) /\ Len(copy[t]) \in Nat
<1>1. copy[t] \in Seq(1..MaxOpened)
  BY TraceTyped DEF Trace!Trimming, Trace!None
<1> QED
  BY <1>1

\* The end of a list, at most n of it.
LEMMA LatestIsTheEnd ==
  ASSUME NEW S, NEW s \in Seq(S), NEW n \in Nat \ {0}
  PROVE  /\ Trace!Latest(s, n) \in Seq(S)
         /\ Len(s) \in Nat
         /\ Len(Trace!Latest(s, n)) = IF Len(s) > n THEN n ELSE Len(s)
         /\ \A i \in 1..Len(Trace!Latest(s, n)) :
              Trace!Latest(s, n)[i] = s[i + (Len(s) - Len(Trace!Latest(s, n)))]
<1>1. Len(s) \in Nat
  OBVIOUS
<1>2. CASE Len(s) > n
  <2>1. Trace!Latest(s, n) = SubSeq(s, Len(s) - n + 1, Len(s))
    BY <1>2 DEF Trace!Latest
  <2>2. Len(s) - n + 1 \in 1..Len(s) /\ Len(s) - (Len(s) - n + 1) + 1 = n
    BY <1>1, <1>2
  <2> DEFINE l == SubSeq(s, Len(s) - n + 1, Len(s))
  <2>3. l \in Seq(S) /\ Len(l) = n
    BY <1>1, <2>2
  <2>4. \A i \in 1..n : l[i] = s[i + (Len(s) - n)]
    BY <1>1, <2>2
  <2> HIDE DEF l
  <2>5. Trace!Latest(s, n) = l
    BY <2>1 DEF l
  <2> QED
    BY <1>1, <1>2, <2>3, <2>4, <2>5
<1>3. CASE ~(Len(s) > n)
  <2>1. Trace!Latest(s, n) = SubSeq(s, 1, Len(s))
    BY <1>3 DEF Trace!Latest
  <2>2. SubSeq(s, 1, Len(s)) = s
    OBVIOUS
  <2>3. Trace!Latest(s, n) = s /\ \A i \in 1..Len(s) : i + (Len(s) - Len(s)) = i
    BY <1>1, <2>1, <2>2
  <2> QED
    BY <1>3, <2>3, <1>1
<1> QED
  BY <1>2, <1>3

LEMMA TraceInitial == Trace!Init => TraceStrong
<1> SUFFICES ASSUME Trace!Init PROVE TraceStrong
  OBVIOUS
<1>1. /\ Tasks # {} /\ MaxSpans \in Nat \ {0} /\ MaxOpened \in Nat
  BY TelemetryAssumption DEF Trace!TracerAssumption
<1>2. (CHOOSE t \in Tasks : TRUE) \in Tasks
  BY <1>1
<1>3. /\ current = [t \in Tasks |-> 0] /\ open = [t \in Tasks |-> <<>>]
      /\ parent = <<>> /\ trace = <<>> /\ owner = <<>> /\ spans = <<>>
      /\ ending = [t \in Tasks |-> 0] /\ copy = [t \in Tasks |-> <<0>>]
      /\ started \subseteq Tasks /\ inherited = [t \in Tasks |-> 0]
      /\ checking = {} /\ recorded = <<>> /\ raced = FALSE
  BY <1>2 DEF Trace!Init, Trace!None
<1>4. Trace!TypeOK
  <2>1. Trace!Opened = 0 /\ Trace!Spans = 1..MaxOpened /\ Trace!None = <<0>>
    BY <1>3 DEF Trace!Opened, Trace!Spans, Trace!None
  <2>2. \A S : <<>> \in Seq(S) /\ Len(<<>>) = 0
    OBVIOUS
  <2>3. \A t \in Tasks : open[t] \in Seq((1..MaxOpened) \X (0..MaxOpened))
    BY <1>3, <2>2
  <2>4. /\ current \in [Tasks -> 0..0] /\ ending \in [Tasks -> 0..0]
        /\ inherited \in [Tasks -> 0..0]
    BY <1>3
  <2>5. open \in [Tasks -> Seq((1..MaxOpened) \X (0..MaxOpened))]
    BY <1>3, <2>3
  <2> QED
    BY <1>3, <2>1, <2>2, <2>4, <2>5 DEF Trace!TypeOK
<1>5. Trace!Opened <= MaxOpened
  BY <1>1, <1>3 DEF Trace!Opened
<1>6. Trace!ContextIsInnermost /\ Trace!TracesAreTrees
  BY <1>3 DEF Trace!ContextIsInnermost, Trace!Innermost, Trace!TracesAreTrees
<1>7. SpansNest /\ EndsOneByOne /\ RecordedEnded
  BY <1>3 DEF SpansNest, EndsOneByOne, RecordedEnded, Trace!Opened, Trace!Trimming, Trace!None
<1>8. ListsAgree
  <2>1. Busy = {}
    BY <1>3 DEF Busy, Trace!Trimming, Trace!None
  <2> QED
    BY <1>1, <1>3, <2>1, FS_EmptySet
       DEF ListsAgree, SameEnd, Trace!Trimming, Trace!None
<1> QED
  BY <1>4, <1>5, <1>6, <1>7, <1>8 DEF TraceStrong

\* Outside a race the list is the end of what was recorded when nobody trims it.
LEMMA ListIsKept == TraceStrong => Trace!NewestAreKept
<1> SUFFICES ASSUME TraceStrong PROVE Trace!NewestAreKept
  OBVIOUS
<1>1. /\ MaxSpans \in Nat \ {0} /\ spans \in Seq(1..MaxOpened)
      /\ recorded \in Seq(1..MaxOpened)
  BY TraceTyped
<1>2. Len(spans) \in Nat /\ Len(recorded) \in Nat
  BY SequencesTyped
<1>3. ListsAgree
  BY DEF TraceStrong
<1>4. ASSUME ~raced, Busy = {} PROVE spans = Trace!Latest(recorded, MaxSpans)
  <2> DEFINE l == Trace!Latest(recorded, MaxSpans)
  <2>1. /\ l \in Seq(1..MaxOpened)
        /\ Len(l) = IF Len(recorded) > MaxSpans THEN MaxSpans ELSE Len(recorded)
        /\ \A i \in 1..Len(l) : l[i] = recorded[i + (Len(recorded) - Len(l))]
    BY <1>1, LatestIsTheEnd
  <2> HIDE DEF l
  <2>2. SameEnd(spans, recorded)
    BY <1>3, <1>4 DEF ListsAgree
  <2>3. Len(spans) <= MaxSpans
    BY <1>1, <1>2, <1>3, <1>4, FS_EmptySet DEF ListsAgree
  <2>4. Len(spans) = Len(l)
    BY <1>1, <1>2, <2>1, <2>2, <2>3 DEF SameEnd
  <2>5. ASSUME NEW i \in 1..Len(spans) PROVE spans[i] = l[i]
    <3> DEFINE j == Len(spans) - i
    <3>1. /\ j \in 0..MaxSpans - 1 /\ j < Len(spans) /\ j < Len(recorded)
          /\ Len(spans) - j = i /\ Len(recorded) - j = i + (Len(recorded) - Len(l))
      BY <1>1, <1>2, <2>1, <2>3, <2>4
    <3>2. spans[Len(spans) - j] = recorded[Len(recorded) - j]
      BY <2>2, <3>1 DEF SameEnd
    <3> QED
      BY <2>1, <2>4, <3>1, <3>2
  <2>6. spans = l
    BY <1>1, <2>1, <2>4, <2>5
  <2> QED
    BY <2>6 DEF l
<1>5. Busy = checking \cup {t \in Tasks : Trace!Trimming(t)}
  BY DEF Busy
<1>6. Len(spans) <= MaxSpans + Cardinality(Busy)
  BY <1>3 DEF ListsAgree
<1> QED
  BY <1>4, <1>5, <1>6 DEF Trace!NewestAreKept, Trace!Cardinality, Cardinality

LEMMA ListsUntouched ==
  ASSUME TraceStrong, UNCHANGED <<spans, checking, copy, recorded, raced>>
  PROVE  ListsAgree'
<1>1. ListsAgree /\ Busy' = Busy
  BY DEF TraceStrong, Busy, Trace!Trimming
<1> QED
  BY <1>1 DEF ListsAgree, SameEnd, Trace!Trimming

\* A task begins: what it is started with is not of its own.
LEMMA TraceStart ==
  ASSUME TraceStrong, NEW t \in Tasks, NEW u \in Tasks, Trace!Start(t, u)
  PROVE  TraceStrong'
<1>1. PICK s \in {current[t], 0} :
        /\ current' = [current EXCEPT ![u] = s] /\ inherited' = [inherited EXCEPT ![u] = s]
  BY DEF Trace!Start
<1>2. /\ t \in started /\ u \notin started /\ started' = started \cup {u}
      /\ UNCHANGED <<open, parent, trace, owner, spans, ending, checking, copy, recorded,
                     raced>>
  BY DEF Trace!Start, Trace!Runs
<1>3. /\ Len(parent) \in Nat /\ started \subseteq Tasks
      /\ current \in [Tasks -> 0..Len(parent)] /\ inherited \in [Tasks -> 0..Len(parent)]
  BY TraceTyped
<1>4. Trace!Opened = Len(parent) /\ Trace!Opened' = Len(parent)
  BY <1>2 DEF Trace!Opened
<1>5. s \in 0..Len(parent) /\ (s # 0 => owner[s] # u)
  <2>1. s \in 0..Len(parent)
    BY <1>1, <1>3
  <2>2. s # 0 => s \in 1..Trace!Opened
    BY <1>3, <1>4, <2>1
  <2> QED
    BY <1>2, <2>1, <2>2 DEF TraceStrong, RecordedEnded
<1>6. /\ current' \in [Tasks -> 0..Len(parent)] /\ inherited' \in [Tasks -> 0..Len(parent)]
      /\ current'[u] = s /\ inherited'[u] = s
      /\ \A v \in Tasks \ {u} : current'[v] = current[v] /\ inherited'[v] = inherited[v]
  BY <1>1, <1>3, <1>5
<1>7. open[u] = <<>> /\ ending[u] = 0
  BY <1>2 DEF TraceStrong, EndsOneByOne
<1>8. Trace!TypeOK'
  <2>1. Trace!TypeOK
    BY DEF TraceStrong
  <2>2. started' \subseteq Tasks
    BY <1>2, <1>3
  <2> QED
    BY <1>2, <1>4, <1>6, <2>1, <2>2 DEF Trace!TypeOK
<1>9. (Trace!Opened <= MaxOpened)'
  BY <1>4 DEF TraceStrong
<1>10. Trace!ContextIsInnermost'
  BY <1>2, <1>6, <1>7 DEF TraceStrong, Trace!ContextIsInnermost, Trace!Innermost
<1>11. Trace!TracesAreTrees'
  BY <1>2 DEF TraceStrong, Trace!TracesAreTrees
<1>12. SpansNest'
  <2>1. SpansNest
    BY DEF TraceStrong
  <2>2. \A v \in Tasks : \A i \in DOMAIN open[v] : v # u /\ inherited'[v] = inherited[v]
    <3>1. DOMAIN open[u] = {}
      BY <1>7
    <3> QED
      BY <1>6, <3>1
  <2>3. ASSUME NEW v \in Tasks, NEW i \in DOMAIN open'[v]
        PROVE  /\ open'[v][i][1] <= Trace!Opened'
               /\ owner'[open'[v][i][1]] = v /\ parent'[open'[v][i][1]] = open'[v][i][2]
               /\ open'[v][i][2] = IF i = 1 THEN inherited'[v] ELSE open'[v][i - 1][1]
    BY <1>2, <1>4, <2>1, <2>2 DEF SpansNest
  <2>4. ASSUME NEW v \in Tasks, NEW i \in DOMAIN open'[v], NEW j \in DOMAIN open'[v], i < j
        PROVE  open'[v][i][1] < open'[v][j][1]
    BY <1>2, <2>1, <2>4 DEF SpansNest
  <2>5. ASSUME NEW v \in Tasks, inherited'[v] # 0 PROVE owner'[inherited'[v]] # v
    <3>1. CASE v = u
      BY <1>2, <1>5, <1>6, <2>5, <3>1
    <3>2. CASE v # u
      BY <1>2, <1>6, <2>1, <2>5, <3>2 DEF SpansNest
    <3> QED
      BY <3>1, <3>2
  <2> QED
    BY <2>3, <2>4, <2>5, Zenon DEF SpansNest
<1>13. EndsOneByOne'
  <2>1. \A v \in Tasks : ending[v] # 0 => current'[v] = current[v]
    BY <1>6, <1>7
  <2>2. \A v \in Tasks : v \notin started' => v \notin started
    BY <1>2
  <2>3. \A v \in Tasks : Trace!Trimming(v)' <=> Trace!Trimming(v)
    BY <1>2 DEF Trace!Trimming
  <2> QED
    BY <1>2, <2>1, <2>2, <2>3 DEF TraceStrong, EndsOneByOne
<1>14. RecordedEnded'
  BY <1>2, <1>4 DEF TraceStrong, RecordedEnded
<1>15. ListsAgree'
  BY <1>2, ListsUntouched
<1> QED
  BY <1>8, <1>9, <1>10, <1>11, <1>12, <1>13, <1>14, <1>15 DEF TraceStrong

\* A span is opened under the current one of its task.
LEMMA TraceOpen ==
  ASSUME TraceStrong, NEW t \in Tasks, Trace!Open(t)
  PROVE  TraceStrong'
<1> DEFINE s == Len(parent) + 1
<1>1. /\ MaxOpened \in Nat /\ Len(parent) \in Nat /\ started \subseteq Tasks
      /\ current \in [Tasks -> 0..Len(parent)] /\ ending \in [Tasks -> 0..Len(parent)]
      /\ inherited \in [Tasks -> 0..Len(parent)]
      /\ open \in [Tasks -> Seq((1..MaxOpened) \X (0..MaxOpened))]
      /\ parent \in Seq(0..MaxOpened) /\ trace \in Seq(1..MaxOpened) /\ owner \in Seq(Tasks)
      /\ Len(trace) = Len(parent) /\ Len(owner) = Len(parent)
  BY TraceTyped
<1>2. /\ DOMAIN parent = 1..Len(parent) /\ DOMAIN owner = 1..Len(parent)
      /\ \A i \in 1..Len(parent) : trace[i] \in 1..MaxOpened
      /\ DOMAIN recorded = 1..Len(recorded)
      /\ \A i \in 1..Len(recorded) : recorded[i] \in 1..MaxOpened
  BY SequencesTyped
<1>3. /\ t \in started /\ ending[t] = 0 /\ s <= MaxOpened
      /\ parent' = Append(parent, current[t]) /\ owner' = Append(owner, t)
      /\ trace' = Append(trace, IF current[t] = 0 THEN s ELSE trace[current[t]])
      /\ open' = [open EXCEPT ![t] = Append(@, <<s, current[t]>>)]
      /\ current' = [current EXCEPT ![t] = s]
      /\ UNCHANGED <<spans, ending, checking, copy, started, inherited, recorded, raced>>
  BY DEF Trace!Open, Trace!Runs, Trace!Opened
<1>4. s \in Nat /\ s \in 1..MaxOpened /\ s # 0 /\ Len(parent) < s
  BY <1>1, <1>3
<1>5. Trace!Opened = Len(parent)
  BY DEF Trace!Opened
<1>6. current[t] \in 0..Len(parent) /\ current[t] \in 0..MaxOpened
  BY <1>1, <1>3
<1>7. /\ parent' \in Seq(0..MaxOpened) /\ Len(parent') = s /\ DOMAIN parent' = 1..s
      /\ parent'[s] = current[t] /\ \A i \in 1..Len(parent) : parent'[i] = parent[i]
  BY <1>1, <1>3, <1>6
<1>8. /\ owner' \in Seq(Tasks) /\ Len(owner') = s /\ DOMAIN owner' = 1..s
      /\ owner'[s] = t /\ \A i \in 1..Len(parent) : owner'[i] = owner[i]
  BY <1>1, <1>3
<1>9. /\ trace' \in Seq(1..MaxOpened) /\ Len(trace') = s
      /\ current[t] # 0 => trace'[s] = trace[current[t]]
      /\ \A i \in 1..Len(parent) : trace'[i] = trace[i]
  <2> DEFINE r == IF current[t] = 0 THEN s ELSE trace[current[t]]
  <2>1. r \in 1..MaxOpened /\ (current[t] # 0 => r = trace[current[t]])
    BY <1>1, <1>2, <1>4, <1>6
  <2> HIDE DEF r
  <2>2. trace' = Append(trace, r)
    BY <1>3 DEF r
  <2>3. trace \in Seq(1..MaxOpened) /\ Len(trace) = Len(parent) /\ s = Len(trace) + 1
    BY <1>1
  <2>4. /\ Append(trace, r) \in Seq(1..MaxOpened) /\ Len(Append(trace, r)) = s
        /\ Append(trace, r)[s] = r /\ \A i \in 1..Len(trace) : Append(trace, r)[i] = trace[i]
    BY <2>1, <2>3
  <2> QED
    BY <2>1, <2>2, <2>3, <2>4
<1>10. Trace!Opened' = s
  BY <1>7 DEF Trace!Opened
<1>11. \A v \in Tasks : /\ Len(open[v]) \in Nat /\ DOMAIN open[v] = 1..Len(open[v])
                        /\ \A i \in 1..Len(open[v]) : open[v][i][1] \in 1..MaxOpened
                        /\ open[v] = <<>> <=> Len(open[v]) = 0
  BY OpenTyped
<1>12. /\ open'[t] \in Seq((1..MaxOpened) \X (0..MaxOpened))
       /\ Len(open'[t]) = Len(open[t]) + 1 /\ DOMAIN open'[t] = 1..Len(open[t]) + 1
       /\ open'[t][Len(open[t]) + 1] = <<s, current[t]>>
       /\ \A i \in 1..Len(open[t]) : open'[t][i] = open[t][i]
       /\ open' \in [Tasks -> Seq((1..MaxOpened) \X (0..MaxOpened))]
       /\ \A v \in Tasks \ {t} : open'[v] = open[v]
  <2>1. <<s, current[t]>> \in (1..MaxOpened) \X (0..MaxOpened)
    BY <1>4, <1>6
  <2>2. open'[t] = Append(open[t], <<s, current[t]>>) /\ \A v \in Tasks \ {t} : open'[v] = open[v]
    BY <1>1, <1>3
  <2>3. open[t] \in Seq((1..MaxOpened) \X (0..MaxOpened))
    BY <1>1
  <2> DEFINE a == Append(open[t], <<s, current[t]>>)
  <2>4. /\ a \in Seq((1..MaxOpened) \X (0..MaxOpened)) /\ Len(a) = Len(open[t]) + 1
        /\ a[Len(open[t]) + 1] = <<s, current[t]>> /\ DOMAIN a = 1..Len(open[t]) + 1
        /\ \A i \in 1..Len(open[t]) : a[i] = open[t][i]
    BY <2>1, <2>3
  <2>5. open' \in [Tasks -> Seq((1..MaxOpened) \X (0..MaxOpened))]
    BY <1>1, <1>3, <2>4
  <2> QED
    BY <2>2, <2>4, <2>5
<1>13. /\ current' \in [Tasks -> 0..s] /\ current'[t] = s
       /\ \A v \in Tasks \ {t} : current'[v] = current[v]
  BY <1>1, <1>3
<1>p. Len(parent) \in Nat /\ \A x \in 1..s : x = s \/ x \in 1..Len(parent)
  <2>1. Len(parent) \in Nat
    BY TraceTyped
  <2> QED
    BY <2>1
<1> HIDE DEF s
\* An open span is the new one or was open.
<1>o. \A v \in Tasks : \A k \in DOMAIN open'[v] :
        \/ v = t /\ k = Len(open[t]) + 1
        \/ k \in DOMAIN open[v] /\ open'[v][k] = open[v][k]
  <2>1. ASSUME NEW v \in Tasks, NEW k \in DOMAIN open'[v], v = t, k # Len(open[t]) + 1
        PROVE  k \in DOMAIN open[v] /\ open'[v][k] = open[v][k]
    <3>1. Len(open[t]) \in Nat /\ DOMAIN open[t] = 1..Len(open[t])
      BY <1>11
    <3>2. k \in 1..Len(open[t]) + 1
      BY <1>12, <2>1
    <3>3. k \in 1..Len(open[t])
      BY <2>1, <3>1, <3>2
    <3> QED
      BY <1>12, <2>1, <3>1, <3>3
  <2>2. ASSUME NEW v \in Tasks, NEW k \in DOMAIN open'[v], v # t
        PROVE  k \in DOMAIN open[v] /\ open'[v][k] = open[v][k]
    BY <1>12, <2>2
  <2> QED
    BY <2>1, <2>2
<1>14. Trace!TypeOK'
  <2>1. Trace!TypeOK
    BY DEF TraceStrong
  <2>2. ending \in [Tasks -> 0..s] /\ inherited \in [Tasks -> 0..s]
    BY <1>1, <1>4
  <2> QED
    BY <1>3, <1>7, <1>8, <1>9, <1>10, <1>12, <1>13, <2>1, <2>2
       DEF Trace!TypeOK, Trace!Spans, Trace!None
<1>15. (Trace!Opened <= MaxOpened)'
  BY <1>3, <1>10
<1>16. Trace!ContextIsInnermost'
  <2>1. ASSUME NEW v \in Tasks
        PROVE  current'[v] = IF open'[v] = <<>> THEN inherited'[v] ELSE open'[v][Len(open'[v])][1]
    <3>1. CASE v = t
      <4>1. open'[t] # <<>>
        BY <1>11, <1>12
      <4>2. open'[t][Len(open'[t])] = <<s, current[t]>>
        BY <1>12
      <4> QED
        BY <1>13, <3>1, <4>1, <4>2
    <3>2. CASE v # t
      BY <1>3, <1>12, <1>13, <3>2 DEF TraceStrong, Trace!ContextIsInnermost, Trace!Innermost
    <3> QED
      BY <3>1, <3>2
  <2> QED
    BY <2>1, Zenon DEF Trace!ContextIsInnermost, Trace!Innermost
<1>17. RecordedEnded'
  <2>1. RecordedEnded
    BY DEF TraceStrong
  <2>2. ASSUME NEW i \in DOMAIN recorded, NEW v \in Tasks, NEW k \in DOMAIN open'[v]
        PROVE  recorded[i] # open'[v][k][1]
    <3>1. recorded[i] # s
      BY <1>4, <1>5, <1>2, <1>1, <2>1, <2>2 DEF RecordedEnded
    <3>2. CASE v = t /\ k = Len(open[t]) + 1
      BY <1>12, <3>1, <3>2
    <3>3. CASE ~(v = t /\ k = Len(open[t]) + 1)
      <4>1. k \in DOMAIN open[v] /\ open'[v][k] = open[v][k]
        BY <1>o, <3>3
      <4> QED
        BY <2>1, <4>1 DEF RecordedEnded
    <3> QED
      BY <3>2, <3>3
  <2>3. \A i \in DOMAIN recorded : /\ recorded[i] <= s
                                   /\ \A v \in Tasks : recorded[i] # ending[v]
    <3>1. \A i \in DOMAIN recorded : recorded[i] \in Nat /\ recorded[i] <= Len(parent)
      BY <1>2, <1>5, <2>1 DEF RecordedEnded
    <3> QED
      BY <1>p, <1>4, <2>1, <3>1 DEF RecordedEnded
  <2>4. \A x \in 1..s : owner'[x] \in started
    BY <1>3, <1>5, <1>8, <1>p, <2>1 DEF RecordedEnded
  <2> QED
    BY <1>3, <1>10, <2>2, <2>3, <2>4, ZenonT(60) DEF RecordedEnded
<1>18. Trace!TracesAreTrees'
  <2>1. Trace!TracesAreTrees
    BY DEF TraceStrong
  <2>2. ASSUME NEW x \in DOMAIN parent', parent'[x] # 0
        PROVE  parent'[x] < x /\ trace'[x] = trace'[parent'[x]]
    <3>1. CASE x = s
      <4>1. parent'[x] = current[t] /\ current[t] \in 1..Len(parent)
        BY <1>6, <1>7, <2>2, <3>1, <1>1
      <4>2. parent'[x] < x
        BY <1>p, <1>4, <3>1, <4>1
      <4>3. trace'[x] = trace[current[t]] /\ trace'[current[t]] = trace[current[t]]
        BY <1>9, <1>p, <3>1, <4>1
      <4> QED
        BY <4>1, <4>2, <4>3
    <3>2. CASE x # s
      <4>1. x \in 1..Len(parent)
        BY <1>7, <1>p, <3>2
      <4>2. parent'[x] = parent[x] /\ parent[x] < x /\ trace[x] = trace[parent[x]]
        BY <1>2, <1>7, <2>1, <2>2, <4>1 DEF Trace!TracesAreTrees
      <4>3. parent[x] \in 0..MaxOpened
        BY <4>1, SequencesTyped
      <4>4. parent[x] \in 1..Len(parent)
        <5>1. parent[x] # 0 /\ parent[x] \in Nat
          BY <2>2, <4>2, <4>3
        <5> QED
          BY <1>p, <4>1, <4>2, <5>1
      <4> QED
        BY <1>9, <4>1, <4>2, <4>4
    <3> QED
      BY <3>1, <3>2
  <2>3. \A i \in DOMAIN recorded : recorded[i] \in 1..Len(parent)
    BY <1>1, <1>2, <1>5 DEF TraceStrong, RecordedEnded
  <2>4. ASSUME NEW i \in DOMAIN recorded, NEW j \in DOMAIN recorded, i < j
        PROVE  /\ recorded[i] # recorded[j]
               /\ ~ /\ parent'[recorded[j]] = recorded[i]
                    /\ owner'[recorded[j]] = owner'[recorded[i]]
    BY <1>7, <1>8, <2>1, <2>3, <2>4 DEF Trace!TracesAreTrees
  <2> QED
    BY <1>3, <2>2, <2>4, ZenonT(60) DEF Trace!TracesAreTrees
<1>19. SpansNest'
  <2>1. SpansNest
    BY DEF TraceStrong
  <2>2. \A v \in Tasks : \A i \in DOMAIN open[v] :
          open[v][i][1] \in 1..Len(parent) /\ open[v][i][1] < s
    BY <1>1, <1>4, <1>5, <1>11, <2>1, SMTT(40) DEF SpansNest
  <2>3. ASSUME NEW v \in Tasks, NEW i \in DOMAIN open'[v]
        PROVE  /\ open'[v][i][1] <= Trace!Opened'
               /\ owner'[open'[v][i][1]] = v /\ parent'[open'[v][i][1]] = open'[v][i][2]
               /\ open'[v][i][2] = IF i = 1 THEN inherited'[v] ELSE open'[v][i - 1][1]
    <3>0. Trace!Opened' = s /\ inherited'[v] = inherited[v]
      BY <1>3, <1>10
    <3>1. CASE v = t /\ i = Len(open[t]) + 1
      <4>1. open'[v][i] = <<s, current[t]>>
        BY <1>12, <3>1
      <4>2. CASE i = 1
        <5>1. current[t] = inherited[t]
          BY <1>11, <3>1, <4>2 DEF TraceStrong, Trace!ContextIsInnermost, Trace!Innermost
        <5> QED
          BY <1>4, <1>7, <1>8, <3>0, <3>1, <4>1, <4>2, <5>1
      <4>3. CASE i # 1
        <5>1. current[t] = open[t][Len(open[t])][1]
          BY <1>11, <3>1, <4>3 DEF TraceStrong, Trace!ContextIsInnermost, Trace!Innermost
        <5>2. i - 1 = Len(open[t]) /\ i - 1 \in 1..Len(open[t])
          BY <1>11, <3>1, <4>3
        <5>3. open'[t][i - 1] = open[t][Len(open[t])]
          BY <1>12, <5>2
        <5> QED
          BY <1>4, <1>7, <1>8, <3>0, <3>1, <4>1, <4>3, <5>1, <5>3
      <4> QED
        BY <4>2, <4>3
    <3>2. CASE ~(v = t /\ i = Len(open[t]) + 1)
      <4>1. i \in DOMAIN open[v] /\ open'[v][i] = open[v][i]
        BY <1>o, <3>2
      <4>2. i # 1 => open'[v][i - 1] = open[v][i - 1]
        <5>1. i # 1 => i - 1 \in 1..Len(open[v])
          BY <1>11, <4>1
        <5> QED
          BY <1>12, <5>1
      <4>3. /\ open[v][i][1] \in 1..Len(parent) /\ open[v][i][1] <= s
            /\ owner[open[v][i][1]] = v /\ parent[open[v][i][1]] = open[v][i][2]
            /\ open[v][i][2] = IF i = 1 THEN inherited[v] ELSE open[v][i - 1][1]
        BY <1>1, <1>4, <2>1, <2>2, <4>1, SMTT(40) DEF SpansNest
      <4> QED
        BY <1>7, <1>8, <3>0, <4>1, <4>2, <4>3
    <3> QED
      BY <3>1, <3>2
  <2>4. ASSUME NEW v \in Tasks, NEW i \in DOMAIN open'[v], NEW j \in DOMAIN open'[v], i < j
        PROVE  open'[v][i][1] < open'[v][j][1]
    <3>1. i \in DOMAIN open[v] /\ open'[v][i] = open[v][i]
      <4>1. ~(v = t /\ i = Len(open[t]) + 1)
        BY <1>11, <1>12, <2>4, SMTT(40)
      <4> QED
        BY <1>o, <4>1
    <3>2. CASE v = t /\ j = Len(open[t]) + 1
      BY <1>12, <2>2, <3>1, <3>2
    <3>3. CASE ~(v = t /\ j = Len(open[t]) + 1)
      <4>1. j \in DOMAIN open[v] /\ open'[v][j] = open[v][j]
        BY <1>o, <3>3
      <4> QED
        BY <2>1, <2>4, <3>1, <4>1 DEF SpansNest
    <3> QED
      BY <3>2, <3>3
  <2>5. ASSUME NEW v \in Tasks, inherited'[v] # 0 PROVE owner'[inherited'[v]] # v
    <3>1. inherited'[v] = inherited[v] /\ inherited[v] \in 0..Len(parent)
      BY <1>1, <1>3
    <3>2. inherited[v] \in 1..Len(parent)
      BY <2>5, <3>1, <1>p
    <3> QED
      BY <1>8, <2>1, <2>5, <3>1, <3>2 DEF SpansNest
  <2> QED
    BY <2>3, <2>4, <2>5, Zenon DEF SpansNest
<1>20. EndsOneByOne'
  <2>1. EndsOneByOne
    BY DEF TraceStrong
  <2>2. ASSUME NEW v \in Tasks, ending[v] # 0
        PROVE  /\ owner'[ending[v]] = v /\ parent'[ending[v]] = current'[v]
               /\ \A i \in DOMAIN open'[v] : open'[v][i][1] < ending[v]
    <3>0. ending[v] \in 0..Len(parent)
      BY <1>1
    <3>1. v # t /\ ending[v] \in 1..Len(parent)
      BY <1>p, <1>3, <2>2, <3>0
    <3> QED
      BY <1>7, <1>8, <1>12, <1>13, <2>1, <2>2, <3>1, ZenonT(60) DEF EndsOneByOne
  <2>3. \A v \in Tasks : v \notin started => open'[v] = <<>>
    BY <1>3, <1>12, <2>1 DEF EndsOneByOne
  <2>4. \A v \in Tasks : Trace!Trimming(v)' <=> Trace!Trimming(v)
    BY <1>3 DEF Trace!Trimming
  <2> QED
    BY <1>3, <2>1, <2>2, <2>3, <2>4 DEF EndsOneByOne
<1>21. ListsAgree'
  BY <1>3, ListsUntouched
<1> QED
  BY <1>14, <1>15, <1>16, <1>17, <1>18, <1>19, <1>20, <1>21 DEF TraceStrong

\* The innermost span of a task ends, and what it replaced is current again.
LEMMA TraceEnd ==
  ASSUME TraceStrong, NEW t \in Tasks, Trace!End(t)
  PROVE  TraceStrong'
<1> DEFINE n    == Len(open[t])
           last == open[t][n]
<1>1. /\ t \in started /\ ending[t] = 0 /\ t \notin checking /\ ~Trace!Trimming(t)
      /\ open[t] # <<>>
      /\ ending' = [ending EXCEPT ![t] = last[1]]
      /\ current' = [current EXCEPT ![t] = last[2]]
      /\ open' = [open EXCEPT ![t] = SubSeq(open[t], 1, n - 1)]
      /\ UNCHANGED <<parent, trace, owner, spans, checking, copy, started, inherited,
                     recorded, raced>>
  BY DEF Trace!End, Trace!Runs, Trace!Restored, Trace!Innermost, Trace!Trimming
<1>2. \A v \in Tasks : /\ Len(open[v]) \in Nat /\ DOMAIN open[v] = 1..Len(open[v])
                       /\ \A i \in 1..Len(open[v]) : open[v][i][1] \in 1..MaxOpened
                       /\ open[v] = <<>> <=> Len(open[v]) = 0
  BY OpenTyped
<1>3. /\ Len(parent) \in Nat /\ open \in [Tasks -> Seq((1..MaxOpened) \X (0..MaxOpened))]
      /\ current \in [Tasks -> 0..Len(parent)] /\ ending \in [Tasks -> 0..Len(parent)]
      /\ inherited \in [Tasks -> 0..Len(parent)]
  BY TraceTyped
<1>4. n \in Nat /\ n > 0 /\ n \in DOMAIN open[t]
  BY <1>1, <1>2
<1>5. Trace!Opened = Len(parent) /\ Trace!Opened' = Len(parent)
  BY <1>1 DEF Trace!Opened
<1>6. SpansNest /\ EndsOneByOne /\ RecordedEnded
  BY DEF TraceStrong
<1>7. \A v \in Tasks : \A i \in DOMAIN open[v] : open[v][i][1] \in 1..Len(parent)
  BY <1>2, <1>3, <1>5, <1>6, SMTT(40) DEF SpansNest
<1>8. /\ last[1] \in 1..Len(parent) /\ last[1] # 0 /\ owner[last[1]] = t
      /\ parent[last[1]] = last[2]
      /\ last[2] = IF n = 1 THEN inherited[t] ELSE open[t][n - 1][1]
      /\ \A i \in DOMAIN open[t] : i < n => open[t][i][1] < last[1]
  <2>1. last[1] \in 1..Len(parent) /\ last[1] # 0
    BY <1>3, <1>4, <1>7
  <2>2. /\ owner[last[1]] = t /\ parent[last[1]] = last[2]
        /\ last[2] = IF n = 1 THEN inherited[t] ELSE open[t][n - 1][1]
    BY <1>4, <1>6, ZenonT(60) DEF SpansNest
  <2>3. \A i \in DOMAIN open[t] : i < n => open[t][i][1] < last[1]
    BY <1>4, <1>6, Zenon DEF SpansNest
  <2> QED
    BY <2>1, <2>2, <2>3
<1>9. last[2] \in 0..Len(parent)
  <2>1. CASE n = 1
    BY <1>3, <1>8, <2>1
  <2>2. CASE n # 1
    <3>1. n - 1 \in DOMAIN open[t]
      <4>1. \A m \in Nat : m > 0 /\ m # 1 => m - 1 \in 1..m
        OBVIOUS
      <4>2. DOMAIN open[t] = 1..n
        BY <1>2
      <4> QED
        BY <1>4, <2>2, <4>1, <4>2, Zenon
    <3> QED
      BY <1>7, <1>8, <2>2, <3>1
  <2> QED
    BY <2>1, <2>2
<1>10. /\ open'[t] \in Seq((1..MaxOpened) \X (0..MaxOpened))
       /\ Len(open'[t]) = n - 1 /\ DOMAIN open'[t] = 1..n - 1
       /\ \A i \in 1..n - 1 : open'[t][i] = open[t][i] /\ i \in DOMAIN open[t]
       /\ \A v \in Tasks \ {t} : open'[v] = open[v]
       /\ open' \in [Tasks -> Seq((1..MaxOpened) \X (0..MaxOpened))]
  <2> DEFINE f == SubSeq(open[t], 1, n - 1)
  <2>1. open[t] \in Seq((1..MaxOpened) \X (0..MaxOpened))
    BY <1>3
  <2>2. /\ f \in Seq((1..MaxOpened) \X (0..MaxOpened)) /\ Len(f) = n - 1
        /\ DOMAIN f = 1..n - 1 /\ \A i \in 1..n - 1 : f[i] = open[t][i]
    BY <1>4, <2>1
  <2>3. open'[t] = f /\ \A v \in Tasks \ {t} : open'[v] = open[v]
    BY <1>1, <1>3
  <2>4. \A i \in 1..n - 1 : i \in DOMAIN open[t]
    BY <1>2, <1>4
  <2>5. open' \in [Tasks -> Seq((1..MaxOpened) \X (0..MaxOpened))]
    BY <1>1, <1>3, <2>2
  <2> QED
    BY <2>2, <2>3, <2>4, <2>5
<1>11. /\ current' \in [Tasks -> 0..Len(parent)] /\ current'[t] = last[2]
       /\ ending' \in [Tasks -> 0..Len(parent)] /\ ending'[t] = last[1]
       /\ \A v \in Tasks \ {t} : current'[v] = current[v] /\ ending'[v] = ending[v]
  BY <1>1, <1>3, <1>8, <1>9
<1> HIDE DEF n, last
\* What is open was open.
<1>12. \A v \in Tasks : \A i \in DOMAIN open'[v] :
         i \in DOMAIN open[v] /\ open'[v][i] = open[v][i] /\ (v = t => i < n)
  <2>1. \A i \in DOMAIN open'[t] :
          i \in DOMAIN open[t] /\ open'[t][i] = open[t][i] /\ i < n
    BY <1>4, <1>10
  <2>2. \A v \in Tasks : v # t => open'[v] = open[v]
    BY <1>10
  <2> QED
    BY <2>1, <2>2
<1>13. Trace!TypeOK'
  <2>1. Trace!TypeOK
    BY DEF TraceStrong
  <2> QED
    BY <1>1, <1>5, <1>10, <1>11, <2>1 DEF Trace!TypeOK, Trace!Spans, Trace!None
<1>14. (Trace!Opened <= MaxOpened)'
  BY <1>5 DEF TraceStrong
<1>15. Trace!ContextIsInnermost'
  <2>1. ASSUME NEW v \in Tasks
        PROVE  current'[v] = IF open'[v] = <<>> THEN inherited'[v] ELSE open'[v][Len(open'[v])][1]
    <3>1. CASE v = t /\ n = 1
      <4>1. open'[t] = <<>>
        BY <1>10, <3>1
      <4> QED
        BY <1>1, <1>8, <1>11, <3>1, <4>1
    <3>2. CASE v = t /\ n # 1
      <4>1. n - 1 \in 1..n - 1 /\ n - 1 # 0
        BY <1>4, <3>2
      <4>2. open'[t] # <<>> /\ open'[t][n - 1] = open[t][n - 1]
        BY <1>10, <4>1
      <4>3. open'[t][Len(open'[t])] = open[t][n - 1]
        BY <1>10, <4>2
      <4> QED
        BY <1>8, <1>11, <3>2, <4>2, <4>3
    <3>3. CASE v # t
      BY <1>1, <1>10, <1>11, <3>3 DEF TraceStrong, Trace!ContextIsInnermost, Trace!Innermost
    <3> QED
      BY <3>1, <3>2, <3>3
  <2> QED
    BY <2>1, Zenon DEF Trace!ContextIsInnermost, Trace!Innermost
<1>16. Trace!TracesAreTrees'
  BY <1>1 DEF TraceStrong, Trace!TracesAreTrees
<1>17. SpansNest'
  <2>1. ASSUME NEW v \in Tasks, NEW i \in DOMAIN open'[v]
        PROVE  /\ open'[v][i][1] <= Trace!Opened'
               /\ owner'[open'[v][i][1]] = v /\ parent'[open'[v][i][1]] = open'[v][i][2]
               /\ open'[v][i][2] = IF i = 1 THEN inherited'[v] ELSE open'[v][i - 1][1]
    <3>1. i \in DOMAIN open[v] /\ open'[v][i] = open[v][i]
      BY <1>12
    <3>2. i # 1 => open'[v][i - 1] = open[v][i - 1]
      <4>1. CASE v = t
        <5>1. i # 1 => i - 1 \in 1..n - 1
          BY <1>4, <1>10, <4>1
        <5> QED
          BY <1>10, <4>1, <5>1
      <4>2. CASE v # t
        BY <1>10, <4>2
      <4> QED
        BY <4>1, <4>2
    <3>3. /\ open[v][i][1] <= Trace!Opened
          /\ owner[open[v][i][1]] = v /\ parent[open[v][i][1]] = open[v][i][2]
          /\ open[v][i][2] = IF i = 1 THEN inherited[v] ELSE open[v][i - 1][1]
      BY <1>6, <3>1, ZenonT(60) DEF SpansNest
    <3>4. parent' = parent /\ owner' = owner /\ inherited' = inherited
          /\ Trace!Opened' = Trace!Opened
      BY <1>1, <1>5
    <3> QED
      BY <3>1, <3>2, <3>3, <3>4
  <2>2. ASSUME NEW v \in Tasks, NEW i \in DOMAIN open'[v], NEW j \in DOMAIN open'[v], i < j
        PROVE  open'[v][i][1] < open'[v][j][1]
    BY <1>6, <1>12, <2>2 DEF SpansNest
  <2>3. ASSUME NEW v \in Tasks, inherited'[v] # 0 PROVE owner'[inherited'[v]] # v
    BY <1>1, <1>6, <2>3 DEF SpansNest
  <2> QED
    BY <2>1, <2>2, <2>3, Zenon DEF SpansNest
<1>18. EndsOneByOne'
  <2>1. ASSUME NEW v \in Tasks, ending'[v] # 0
        PROVE  /\ owner'[ending'[v]] = v /\ parent'[ending'[v]] = current'[v]
               /\ \A i \in DOMAIN open'[v] : open'[v][i][1] < ending'[v]
    <3>1. CASE v = t
      <4>1. \A i \in DOMAIN open'[t] : open'[t][i][1] < last[1]
        BY <1>8, <1>12
      <4>2. owner[last[1]] = t /\ parent[last[1]] = last[2] /\ parent' = parent /\ owner' = owner
        BY <1>1, <1>8
      <4> QED
        BY <1>11, <3>1, <4>1, <4>2
    <3>2. CASE v # t
      <4>1. ending'[v] = ending[v] /\ current'[v] = current[v] /\ open'[v] = open[v]
        BY <1>10, <1>11, <3>2
      <4>2. /\ owner[ending[v]] = v /\ parent[ending[v]] = current[v]
            /\ \A i \in DOMAIN open[v] : open[v][i][1] < ending[v]
        BY <1>6, <2>1, <4>1, Zenon DEF EndsOneByOne
      <4>3. parent' = parent /\ owner' = owner
        BY <1>1
      <4> QED
        BY <4>1, <4>2, <4>3
    <3> QED
      BY <3>1, <3>2
  <2>2. \A v \in Tasks : Trace!Trimming(v)' <=> Trace!Trimming(v)
    BY <1>1 DEF Trace!Trimming
  <2>3. ASSUME NEW v \in Tasks
        PROVE  /\ ending'[v] # 0 => v \notin checking'
               /\ ending'[v] # 0 \/ v \in checking' => ~Trace!Trimming(v)'
               /\ v \notin started' =>
                    /\ open'[v] = <<>> /\ ending'[v] = 0 /\ v \notin checking'
                    /\ ~Trace!Trimming(v)'
    <3>1. CASE v = t
      BY <1>1, <2>2, <3>1
    <3>2. CASE v # t
      BY <1>1, <1>6, <1>10, <1>11, <2>2, <3>2 DEF EndsOneByOne
    <3> QED
      BY <3>1, <3>2
  <2> QED
    BY <2>1, <2>3, Zenon DEF EndsOneByOne
<1>19. RecordedEnded'
  <2>1. ASSUME NEW i \in DOMAIN recorded
        PROVE  /\ recorded[i] <= Len(parent)
               /\ \A v \in Tasks : recorded[i] # ending'[v]
               /\ \A v \in Tasks : \A k \in DOMAIN open'[v] : recorded[i] # open'[v][k][1]
    <3>1. recorded[i] # last[1]
      BY <1>4, <1>6, Zenon DEF RecordedEnded, last
    <3>2. /\ recorded[i] <= Trace!Opened
          /\ \A v \in Tasks : recorded[i] # ending[v]
          /\ \A v \in Tasks : \A k \in DOMAIN open[v] : recorded[i] # open[v][k][1]
      BY <1>6, Zenon DEF RecordedEnded
    <3>3. \A v \in Tasks : ending'[v] = ending[v] \/ ending'[v] = last[1]
      BY <1>11
    <3> QED
      BY <1>5, <1>12, <3>1, <3>2, <3>3
  <2>2. \A x \in 1..Trace!Opened : owner[x] \in started
    BY <1>6 DEF RecordedEnded
  <2>3. /\ recorded' = recorded /\ owner' = owner /\ started' = started
        /\ Trace!Opened' = Len(parent) /\ Trace!Opened = Len(parent)
    BY <1>1, <1>5
  <2> QED
    BY <2>1, <2>2, <2>3, Zenon DEF RecordedEnded
<1>20. ListsAgree'
  BY <1>1, ListsUntouched
<1> QED
  BY <1>13, <1>14, <1>15, <1>16, <1>17, <1>18, <1>19, <1>20 DEF TraceStrong

\* Nothing but the lists and who is busy with them changes.
LEMMA TreeUntouched ==
  ASSUME TraceStrong,
         UNCHANGED <<current, open, parent, trace, owner, started, inherited>>
  PROVE  /\ Trace!Opened' = Trace!Opened /\ (Trace!Opened <= MaxOpened)'
         /\ Trace!ContextIsInnermost' /\ SpansNest'
<1>1. Trace!Opened' = Trace!Opened
  BY DEF Trace!Opened
<1>2. Trace!ContextIsInnermost'
  BY DEF TraceStrong, Trace!ContextIsInnermost, Trace!Innermost
<1>3. SpansNest'
  BY <1>1 DEF TraceStrong, SpansNest
<1> QED
  BY <1>1, <1>2, <1>3 DEF TraceStrong

LEMMA BusyIsFinite ==
  ASSUME TraceStrong
  PROVE  IsFiniteSet(Busy) /\ Cardinality(Busy) \in Nat
<1>1. Busy \subseteq Tasks /\ IsFiniteSet(Tasks)
  BY TraceTyped DEF Busy
<1> QED
  BY <1>1, FS_Subset, FS_CardinalityType

\* Lists with the same end have it after both gain a span or one is cut to its end.
LEMMA SameEndAppended ==
  ASSUME NEW S, NEW c \in Seq(S), NEW r \in Seq(S), NEW x \in S, MaxSpans \in Nat,
         SameEnd(c, r)
  PROVE  SameEnd(Append(c, x), Append(r, x))
<1> DEFINE d == Append(c, x)
           q == Append(r, x)
<1>1. Len(c) \in Nat /\ Len(r) \in Nat
  OBVIOUS
<1>2. Len(d) = Len(c) + 1 /\ d[Len(c) + 1] = x /\ \A i \in 1..Len(c) : d[i] = c[i]
  OBVIOUS
<1>3. Len(q) = Len(r) + 1 /\ q[Len(r) + 1] = x /\ \A i \in 1..Len(r) : q[i] = r[i]
  OBVIOUS
<1> HIDE DEF d, q
<1>4. Len(d) < MaxSpans \/ Len(q) < MaxSpans => Len(d) = Len(q)
  BY <1>1, <1>2, <1>3 DEF SameEnd
<1>5. ASSUME NEW i \in 0..MaxSpans - 1, i < Len(d), i < Len(q)
      PROVE  d[Len(d) - i] = q[Len(q) - i]
  <2>1. CASE i = 0
    <3>1. Len(d) - i = Len(c) + 1 /\ Len(q) - i = Len(r) + 1
      BY <1>1, <1>2, <1>3, <2>1
    <3> QED
      BY <1>2, <1>3, <3>1
  <2>2. CASE i # 0
    <3> DEFINE j == i - 1
    <3>1. /\ j \in 0..MaxSpans - 1 /\ j < Len(c) /\ j < Len(r)
          /\ Len(d) - i = Len(c) - j /\ Len(q) - i = Len(r) - j
          /\ Len(c) - j \in 1..Len(c) /\ Len(r) - j \in 1..Len(r)
      BY <1>1, <1>2, <1>3, <1>5, <2>2
    <3> HIDE DEF j
    <3>2. c[Len(c) - j] = r[Len(r) - j]
      BY <3>1 DEF SameEnd
    <3> QED
      BY <1>2, <1>3, <3>1, <3>2
  <2> QED
    BY <2>1, <2>2
<1>6. SameEnd(d, q)
  BY <1>4, <1>5 DEF SameEnd
<1> QED
  BY <1>6 DEF d, q

LEMMA SameEndCut ==
  ASSUME NEW S, NEW c \in Seq(S), NEW r \in Seq(S), MaxSpans \in Nat \ {0},
         Len(c) > MaxSpans, SameEnd(c, r)
  PROVE  SameEnd(Trace!Latest(c, MaxSpans), r)
<1> DEFINE l == Trace!Latest(c, MaxSpans)
<1>1. Len(c) \in Nat /\ Len(r) \in Nat
  OBVIOUS
<1>2. Len(l) = MaxSpans /\ \A i \in 1..MaxSpans : l[i] = c[i + (Len(c) - MaxSpans)]
  BY LatestIsTheEnd
<1> HIDE DEF l
<1>3. Len(l) < MaxSpans \/ Len(r) < MaxSpans => Len(l) = Len(r)
  BY <1>1, <1>2 DEF SameEnd
<1>4. ASSUME NEW i \in 0..MaxSpans - 1, i < Len(l), i < Len(r)
      PROVE  l[Len(l) - i] = r[Len(r) - i]
  <2>1. MaxSpans - i \in 1..MaxSpans /\ MaxSpans - i + (Len(c) - MaxSpans) = Len(c) - i
        /\ i < Len(c)
    BY <1>1, <1>4
  <2>2. c[Len(c) - i] = r[Len(r) - i]
    BY <1>4, <2>1 DEF SameEnd
  <2>3. l[MaxSpans - i] = c[Len(c) - i]
    BY <1>2, <2>1
  <2> QED
    BY <1>2, <2>2, <2>3
<1>5. SameEnd(l, r)
  BY <1>3, <1>4 DEF SameEnd
<1> QED
  BY <1>5 DEF l

\* What a task has ended is appended to the list.
LEMMA TraceRecord ==
  ASSUME TraceStrong, NEW t \in Tasks, Trace!Record(t)
  PROVE  TraceStrong'
<1> DEFINE e == ending[t]
<1>1. /\ e # 0 /\ ending' = [ending EXCEPT ![t] = 0]
      /\ spans' = Append(spans, e) /\ recorded' = Append(recorded, e)
      /\ checking' = checking \cup {t}
      /\ raced' = (raced \/ \E u \in Tasks : Trace!Trimming(u))
      /\ UNCHANGED <<current, open, parent, trace, owner, copy, started, inherited>>
  BY DEF Trace!Record
<1>2. /\ MaxSpans \in Nat \ {0} /\ MaxOpened \in Nat
      /\ Len(parent) \in Nat /\ Len(parent) <= MaxOpened
      /\ ending \in [Tasks -> 0..Len(parent)] /\ inherited \in [Tasks -> 0..Len(parent)]
      /\ spans \in Seq(1..MaxOpened) /\ recorded \in Seq(1..MaxOpened)
      /\ copy \in [Tasks -> Seq(1..MaxOpened) \cup {<<0>>}] /\ checking \subseteq Tasks
      /\ raced \in BOOLEAN
  BY TraceTyped
<1>3. e \in 1..Len(parent) /\ e \in 1..MaxOpened
  <2>1. e \in 0..Len(parent)
    BY <1>2
  <2> QED
    BY <1>1, <1>2, <2>1
<1>4. /\ SpansNest /\ EndsOneByOne /\ RecordedEnded /\ ListsAgree
      /\ Trace!ContextIsInnermost /\ Trace!TracesAreTrees /\ Trace!TypeOK
  BY DEF TraceStrong
<1>5. Trace!Opened = Len(parent) /\ Trace!Opened' = Len(parent)
  BY <1>1 DEF Trace!Opened
<1>6. /\ owner[e] = t /\ parent[e] = current[t]
      /\ \A i \in DOMAIN open[t] : open[t][i][1] < e
      /\ t \notin checking /\ ~Trace!Trimming(t) /\ t \in started
  BY <1>1, <1>4 DEF EndsOneByOne
<1>7. /\ Len(recorded) \in Nat /\ DOMAIN recorded = 1..Len(recorded) /\ Len(spans) \in Nat
      /\ \A i \in 1..Len(recorded) : recorded[i] \in 1..MaxOpened
  BY SequencesTyped
<1>8. /\ recorded' \in Seq(1..MaxOpened) /\ DOMAIN recorded' = 1..Len(recorded) + 1
      /\ recorded'[Len(recorded) + 1] = e
      /\ \A i \in 1..Len(recorded) : recorded'[i] = recorded[i]
  BY <1>1, <1>2, <1>3
<1>9. spans' \in Seq(1..MaxOpened) /\ Len(spans') = Len(spans) + 1
  BY <1>1, <1>2, <1>3
<1>10. /\ ending' \in [Tasks -> 0..Len(parent)] /\ ending'[t] = 0
       /\ \A v \in Tasks \ {t} : ending'[v] = ending[v]
  BY <1>1, <1>2
<1>11. \A i \in DOMAIN recorded' :
         \/ i = Len(recorded) + 1 /\ recorded'[i] = e
         \/ i \in DOMAIN recorded /\ i <= Len(recorded) /\ recorded'[i] = recorded[i]
  BY <1>7, <1>8
<1> HIDE DEF e
<1>12. Trace!TypeOK'
  <2>1. checking' \subseteq Tasks /\ raced' \in BOOLEAN
    BY <1>1, <1>2
  <2> QED
    BY <1>1, <1>4, <1>5, <1>8, <1>9, <1>10, <2>1, Zenon DEF Trace!TypeOK, Trace!Spans, Trace!None
<1>13. (Trace!Opened <= MaxOpened)' /\ Trace!ContextIsInnermost' /\ SpansNest'
  BY <1>1, TreeUntouched
\* The parent is another task's, or is open still.
<1>14. ASSUME NEW i \in DOMAIN recorded
       PROVE  recorded[i] # e /\ ~(parent[e] = recorded[i] /\ owner[recorded[i]] = t)
  <2>1. recorded[i] # e /\ recorded[i] # 0
    BY <1>4, <1>7 DEF RecordedEnded, e
  <2> SUFFICES ASSUME current[t] = recorded[i], owner[recorded[i]] = t PROVE FALSE
    BY <1>6, <2>1
  <2>2. CASE open[t] = <<>>
    <3>1. inherited[t] = recorded[i]
      BY <1>4, <2>2 DEF Trace!ContextIsInnermost, Trace!Innermost
    <3> QED
      BY <1>4, <2>1, <3>1 DEF SpansNest
  <2>3. CASE open[t] # <<>>
    <3>1. Len(open[t]) \in DOMAIN open[t]
      <4>1. DOMAIN open[t] = 1..Len(open[t]) /\ Len(open[t]) \in Nat /\ Len(open[t]) # 0
        BY <2>3, OpenTyped
      <4> QED
        BY <4>1
    <3>2. open[t][Len(open[t])][1] = recorded[i]
      BY <1>4, <2>3 DEF Trace!ContextIsInnermost, Trace!Innermost
    <3> QED
      BY <1>4, <3>1, <3>2 DEF RecordedEnded
  <2> QED
    BY <2>2, <2>3
<1>15. Trace!TracesAreTrees'
  <2>1. ASSUME NEW x \in DOMAIN parent', parent'[x] # 0
        PROVE  parent'[x] < x /\ trace'[x] = trace'[parent'[x]]
    BY <1>1, <1>4, <2>1 DEF Trace!TracesAreTrees
  <2>2. ASSUME NEW i \in DOMAIN recorded', NEW j \in DOMAIN recorded', i < j
        PROVE  /\ recorded'[i] # recorded'[j]
               /\ ~ /\ parent'[recorded'[j]] = recorded'[i]
                    /\ owner'[recorded'[j]] = owner'[recorded'[i]]
    <3>1. i \in DOMAIN recorded /\ recorded'[i] = recorded[i]
      <4>1. i # Len(recorded) + 1
        BY <1>7, <1>8, <2>2
      <4> QED
        BY <1>11, <4>1
    <3>2. CASE recorded'[j] = e
      BY <1>1, <1>6, <1>14, <3>1, <3>2
    <3>3. CASE j \in DOMAIN recorded /\ recorded'[j] = recorded[j]
      BY <1>1, <1>4, <2>2, <3>1, <3>3 DEF Trace!TracesAreTrees
    <3> QED
      BY <1>11, <3>2, <3>3
  <2> QED
    BY <2>1, <2>2, Zenon DEF Trace!TracesAreTrees
<1>16. EndsOneByOne'
  <2>1. \A v \in Tasks : Trace!Trimming(v)' <=> Trace!Trimming(v)
    BY <1>1 DEF Trace!Trimming
  <2>2. ASSUME NEW v \in Tasks, ending'[v] # 0
        PROVE  /\ owner'[ending'[v]] = v /\ parent'[ending'[v]] = current'[v]
               /\ \A i \in DOMAIN open'[v] : open'[v][i][1] < ending'[v]
    <3>1. v # t /\ ending'[v] = ending[v]
      BY <1>10, <2>2
    <3> QED
      BY <1>1, <1>4, <2>2, <3>1 DEF EndsOneByOne
  <2>3. ASSUME NEW v \in Tasks
        PROVE  /\ ending'[v] # 0 => v \notin checking'
               /\ ending'[v] # 0 \/ v \in checking' => ~Trace!Trimming(v)'
               /\ v \notin started' =>
                    /\ open'[v] = <<>> /\ ending'[v] = 0 /\ v \notin checking'
                    /\ ~Trace!Trimming(v)'
    <3>1. CASE v = t
      BY <1>1, <1>6, <1>10, <2>1, <3>1
    <3>2. CASE v # t
      BY <1>1, <1>4, <1>10, <2>1, <3>2 DEF EndsOneByOne
    <3> QED
      BY <3>1, <3>2
  <2> QED
    BY <2>2, <2>3, Zenon DEF EndsOneByOne
<1>17. RecordedEnded'
  <2>1. /\ e <= Len(parent)
        /\ \A v \in Tasks : e # ending'[v]
        /\ \A v \in Tasks : \A k \in DOMAIN open[v] : e # open[v][k][1]
    <3>1. e <= Len(parent)
      BY <1>2, <1>3
    <3>2. ASSUME NEW v \in Tasks PROVE e # ending'[v]
      <4>1. CASE v = t
        BY <1>1, <1>10, <4>1 DEF e
      <4>2. CASE v # t
        <5>1. ending'[v] # 0 => owner[ending'[v]] = v
          BY <1>4, <1>10, <4>2 DEF EndsOneByOne
        <5> QED
          BY <1>3, <1>6, <4>2, <5>1
      <4> QED
        BY <4>1, <4>2
    <3>3. ASSUME NEW v \in Tasks, NEW k \in DOMAIN open[v] PROVE e # open[v][k][1]
      <4>1. CASE v = t
        <5>1. open[t][k][1] < e /\ e \in Nat
          BY <1>3, <1>6, <4>1
        <5> QED
          BY <4>1, <5>1
      <4>2. CASE v # t
        BY <1>4, <1>6, <4>2 DEF SpansNest
      <4> QED
        BY <4>1, <4>2
    <3> QED
      BY <3>1, <3>2, <3>3
  <2>2. ASSUME NEW i \in DOMAIN recorded
        PROVE  /\ recorded[i] <= Len(parent)
               /\ \A v \in Tasks : recorded[i] # ending'[v]
               /\ \A v \in Tasks : \A k \in DOMAIN open[v] : recorded[i] # open[v][k][1]
    <3>1. /\ recorded[i] <= Trace!Opened
          /\ \A v \in Tasks : recorded[i] # ending[v]
          /\ \A v \in Tasks : \A k \in DOMAIN open[v] : recorded[i] # open[v][k][1]
      BY <1>4, Zenon DEF RecordedEnded
    <3>2. recorded[i] # 0
      BY <1>7
    <3>3. \A v \in Tasks : ending'[v] = ending[v] \/ ending'[v] = 0
      BY <1>10
    <3> QED
      BY <1>5, <3>1, <3>2, <3>3
  <2>3. \A i \in DOMAIN recorded' :
          /\ recorded'[i] <= Len(parent)
          /\ \A v \in Tasks : recorded'[i] # ending'[v]
          /\ \A v \in Tasks : \A k \in DOMAIN open[v] : recorded'[i] # open[v][k][1]
    BY <1>11, <2>1, <2>2
  <2>4. \A x \in 1..Trace!Opened : owner[x] \in started
    BY <1>4 DEF RecordedEnded
  <2>5. /\ open' = open /\ owner' = owner /\ started' = started
        /\ Trace!Opened' = Len(parent) /\ Trace!Opened = Len(parent)
    BY <1>1, <1>5
  <2> QED
    BY <2>3, <2>4, <2>5, Zenon DEF RecordedEnded
<1>18. ListsAgree'
  <2>1. Len(spans') <= MaxSpans + Cardinality(Busy')
    <3>1. Busy' = Busy \cup {t} /\ t \notin Busy
      BY <1>1, <1>6 DEF Busy, Trace!Trimming
    <3>2. IsFiniteSet(Busy) /\ Cardinality(Busy) \in Nat
      BY BusyIsFinite
    <3>3. Cardinality(Busy') = Cardinality(Busy) + 1
      BY <3>1, <3>2, OneMore
    <3> QED
      BY <1>2, <1>4, <1>7, <1>9, <3>2, <3>3 DEF ListsAgree
  <2>2. \A v \in Tasks : Trace!Trimming(v)' => Len(copy'[v]) <= MaxSpans
    BY <1>1, <1>4 DEF ListsAgree, Trace!Trimming
  <2>3. ASSUME ~raced' PROVE SameEnd(spans', recorded')
    <3>1. ~raced
      BY <1>1, <2>3
    <3>2. SameEnd(spans, recorded)
      BY <1>4, <3>1 DEF ListsAgree
    <3> QED
      BY <1>1, <1>2, <1>3, <3>2, SameEndAppended
  <2>4. ASSUME ~raced', NEW v \in Tasks, Trace!Trimming(v)' PROVE FALSE
    BY <1>1, <2>4 DEF Trace!Trimming
  <2> QED
    BY <2>1, <2>2, <2>3, <2>4, Zenon DEF ListsAgree, SameEnd
<1> QED
  BY <1>12, <1>13, <1>15, <1>16, <1>17, <1>18 DEF TraceStrong

\* What is recorded only loses spans, and who is about to append changes nothing else.
LEMMA EndedUntouched ==
  ASSUME TraceStrong,
         UNCHANGED <<current, open, parent, trace, owner, started, inherited, ending>>,
         \/ recorded' = recorded
         \/ recorded' = <<>>
  PROVE  /\ (Trace!Opened <= MaxOpened)' /\ Trace!ContextIsInnermost' /\ SpansNest'
         /\ Trace!TracesAreTrees' /\ RecordedEnded'
<1>1. Trace!Opened' = Trace!Opened
  BY TreeUntouched
<1>2. /\ Trace!TracesAreTrees /\ RecordedEnded
      /\ DOMAIN recorded' = DOMAIN recorded \/ DOMAIN recorded' = {}
      /\ \A i \in DOMAIN recorded' : i \in DOMAIN recorded /\ recorded'[i] = recorded[i]
  BY DEF TraceStrong
<1>3. Trace!TracesAreTrees'
  BY <1>2 DEF Trace!TracesAreTrees
<1>4. RecordedEnded'
  BY <1>1, <1>2 DEF RecordedEnded
<1> QED
  BY <1>3, <1>4, TreeUntouched

\* A list that is too long is copied, its end only.
LEMMA TraceCheck ==
  ASSUME TraceStrong, NEW t \in Tasks, Trace!Check(t)
  PROVE  TraceStrong'
<1> DEFINE l == Trace!Latest(spans, MaxSpans)
<1>1. /\ t \in checking /\ checking' = checking \ {t}
      /\ copy' = [copy EXCEPT ![t] = IF Len(spans) > MaxSpans THEN l ELSE <<0>>]
      /\ UNCHANGED <<current, open, parent, trace, owner, spans, ending, started, inherited,
                     recorded, raced>>
  BY DEF Trace!Check, Trace!None
<1>2. /\ MaxSpans \in Nat \ {0} /\ MaxOpened \in Nat /\ checking \subseteq Tasks
      /\ spans \in Seq(1..MaxOpened) /\ recorded \in Seq(1..MaxOpened)
      /\ copy \in [Tasks -> Seq(1..MaxOpened) \cup {<<0>>}]
  BY TraceTyped
<1>3. Len(spans) \in Nat
  BY SequencesTyped
<1>4. /\ EndsOneByOne /\ ListsAgree /\ Trace!TypeOK
  BY DEF TraceStrong
<1>5. /\ l \in Seq(1..MaxOpened)
      /\ Len(spans) > MaxSpans => Len(l) = MaxSpans
  BY <1>2, LatestIsTheEnd
<1>6. Len(spans) > MaxSpans => l # <<0>>
  <2> SUFFICES ASSUME Len(spans) > MaxSpans PROVE l # <<0>>
    OBVIOUS
  <2>1. l = <<0>> => <<0>>[1] \in 1..MaxOpened
    BY <1>5
  <2> QED
    BY <1>2, <2>1
<1> HIDE DEF l
<1>7. /\ copy' \in [Tasks -> Seq(1..MaxOpened) \cup {<<0>>}]
      /\ copy'[t] = IF Len(spans) > MaxSpans THEN l ELSE <<0>>
      /\ \A v \in Tasks \ {t} : copy'[v] = copy[v]
  BY <1>1, <1>2, <1>5
<1>8. /\ Trace!Trimming(t)' <=> Len(spans) > MaxSpans
      /\ \A v \in Tasks \ {t} : Trace!Trimming(v)' <=> Trace!Trimming(v)
  BY <1>6, <1>7 DEF Trace!Trimming, Trace!None
<1>9. ending[t] = 0 /\ ~Trace!Trimming(t) /\ t \in started
  BY <1>1, <1>4 DEF EndsOneByOne
<1>10. Trace!TypeOK'
  <2>1. Trace!Opened' = Trace!Opened /\ checking' \subseteq Tasks
    BY <1>1, <1>2 DEF Trace!Opened
  <2> QED
    BY <1>1, <1>4, <1>7, <2>1, Zenon DEF Trace!TypeOK, Trace!Spans, Trace!None
<1>11. EndsOneByOne'
  <2>1. ASSUME NEW v \in Tasks, ending'[v] # 0
        PROVE  /\ owner'[ending'[v]] = v /\ parent'[ending'[v]] = current'[v]
               /\ \A i \in DOMAIN open'[v] : open'[v][i][1] < ending'[v]
    BY <1>1, <1>4, <2>1 DEF EndsOneByOne
  <2>2. ASSUME NEW v \in Tasks
        PROVE  /\ ending'[v] # 0 => v \notin checking'
               /\ ending'[v] # 0 \/ v \in checking' => ~Trace!Trimming(v)'
               /\ v \notin started' =>
                    /\ open'[v] = <<>> /\ ending'[v] = 0 /\ v \notin checking'
                    /\ ~Trace!Trimming(v)'
    <3>1. CASE v = t
      BY <1>1, <1>9, <3>1
    <3>2. CASE v # t
      BY <1>1, <1>4, <1>8, <3>2 DEF EndsOneByOne
    <3> QED
      BY <3>1, <3>2
  <2> QED
    BY <2>1, <2>2, Zenon DEF EndsOneByOne
<1>12. ListsAgree'
  <2>1. Len(spans') <= MaxSpans + Cardinality(Busy')
    <3>1. IsFiniteSet(Busy) /\ Cardinality(Busy) \in Nat
      BY BusyIsFinite
    <3>2. CASE Len(spans) > MaxSpans
      <4>1. Busy' = Busy
        BY <1>1, <1>2, <1>8, <3>2 DEF Busy
      <4> QED
        BY <1>1, <1>4, <4>1 DEF ListsAgree
    <3>3. CASE ~(Len(spans) > MaxSpans)
      <4>1. Busy' \subseteq Busy
        BY <1>1, <1>8, <3>3 DEF Busy
      <4>2. Cardinality(Busy') \in Nat
        BY <3>1, <4>1, FS_Subset, FS_CardinalityType
      <4> QED
        BY <1>1, <1>2, <1>3, <3>3, <4>2
    <3> QED
      BY <3>2, <3>3
  <2>2. ASSUME NEW v \in Tasks, Trace!Trimming(v)'
        PROVE  /\ Len(copy'[v]) <= MaxSpans
               /\ ~raced => SameEnd(copy'[v], recorded)
    <3>1. CASE v = t
      <4>1. Len(spans) > MaxSpans /\ copy'[t] = l /\ Len(l) <= MaxSpans
        BY <1>2, <1>5, <1>7, <1>8, <2>2, <3>1
      <4>2. ~raced => SameEnd(l, recorded)
        <5>1. ~raced => SameEnd(spans, recorded)
          BY <1>4 DEF ListsAgree
        <5> QED
          BY <1>2, <4>1, <5>1, SameEndCut DEF l
      <4> QED
        BY <3>1, <4>1, <4>2
    <3>2. CASE v # t
      BY <1>4, <1>7, <1>8, <2>2, <3>2 DEF ListsAgree
    <3> QED
      BY <3>1, <3>2
  <2>3. ~raced => SameEnd(spans, recorded)
    BY <1>4 DEF ListsAgree
  <2>4. spans' = spans /\ recorded' = recorded /\ raced' = raced
    BY <1>1
  <2> QED
    BY <2>1, <2>2, <2>3, <2>4, Zenon DEF ListsAgree, SameEnd
<1> QED
  BY <1>1, <1>10, <1>11, <1>12, EndedUntouched DEF TraceStrong

\* The copy takes the place of the list.
LEMMA TraceTrim ==
  ASSUME TraceStrong, NEW t \in Tasks, Trace!Trim(t)
  PROVE  TraceStrong'
<1>1. /\ Trace!Trimming(t) /\ spans' = copy[t] /\ copy' = [copy EXCEPT ![t] = <<0>>]
      /\ UNCHANGED <<current, open, parent, trace, owner, ending, checking, started,
                     inherited, recorded, raced>>
  BY DEF Trace!Trim, Trace!None
<1>2. /\ MaxSpans \in Nat \ {0}
      /\ copy \in [Tasks -> Seq(1..MaxOpened) \cup {<<0>>}]
  BY TraceTyped
<1>3. copy[t] \in Seq(1..MaxOpened) /\ Len(copy[t]) \in Nat
  BY <1>1, CopyTyped
<1>4. /\ EndsOneByOne /\ ListsAgree /\ Trace!TypeOK
  BY DEF TraceStrong
<1>5. /\ copy' \in [Tasks -> Seq(1..MaxOpened) \cup {<<0>>}] /\ copy'[t] = <<0>>
      /\ \A v \in Tasks \ {t} : copy'[v] = copy[v]
  BY <1>1, <1>2
<1>6. /\ ~Trace!Trimming(t)'
      /\ \A v \in Tasks \ {t} : Trace!Trimming(v)' <=> Trace!Trimming(v)
  BY <1>5 DEF Trace!Trimming, Trace!None
<1>7. Trace!TypeOK'
  <2>1. Trace!Opened' = Trace!Opened
    BY <1>1 DEF Trace!Opened
  <2> QED
    BY <1>1, <1>3, <1>4, <1>5, <2>1, Zenon DEF Trace!TypeOK, Trace!Spans, Trace!None
<1>8. EndsOneByOne'
  BY <1>1, <1>4, <1>6 DEF EndsOneByOne
<1>9. ListsAgree'
  <2>1. Len(spans') <= MaxSpans + Cardinality(Busy')
    <3>1. IsFiniteSet(Busy)
      BY BusyIsFinite
    <3>2. Busy' \subseteq Busy
      BY <1>1, <1>6 DEF Busy
    <3>3. Cardinality(Busy') \in Nat
      BY <3>1, <3>2, FS_Subset, FS_CardinalityType
    <3>4. Len(spans') <= MaxSpans
      BY <1>1, <1>4 DEF ListsAgree
    <3> QED
      BY <1>1, <1>2, <1>3, <3>3, <3>4
  <2>2. \A v \in Tasks : Trace!Trimming(v)' =>
          /\ v # t /\ Trace!Trimming(v) /\ copy'[v] = copy[v]
    BY <1>5, <1>6
  <2>3. ~raced => SameEnd(copy[t], recorded)
    BY <1>1, <1>4 DEF ListsAgree
  <2>4. \A v \in Tasks : Trace!Trimming(v) =>
          /\ Len(copy[v]) <= MaxSpans /\ (~raced => SameEnd(copy[v], recorded))
    BY <1>4 DEF ListsAgree
  <2>5. spans' = copy[t] /\ recorded' = recorded /\ raced' = raced
    BY <1>1
  <2> QED
    BY <2>1, <2>2, <2>3, <2>4, <2>5, ZenonT(60) DEF ListsAgree, SameEnd
<1> QED
  BY <1>1, <1>7, <1>8, <1>9, EndedUntouched DEF TraceStrong

LEMMA TraceClear ==
  ASSUME TraceStrong, Trace!Clear
  PROVE  TraceStrong'
<1>1. /\ spans' = <<>> /\ recorded' = <<>>
      /\ raced' = (raced \/ \E u \in Tasks : Trace!Trimming(u))
      /\ UNCHANGED <<current, open, parent, trace, owner, ending, checking, copy, started,
                     inherited>>
  BY DEF Trace!Clear
<1>2. EndsOneByOne /\ ListsAgree /\ Trace!TypeOK /\ MaxSpans \in Nat /\ raced \in BOOLEAN
  BY TraceTyped DEF TraceStrong
<1>3. Trace!TypeOK'
  <2>1. Trace!Opened' = Trace!Opened /\ raced' \in BOOLEAN /\ \A S : <<>> \in Seq(S)
    BY <1>1, <1>2 DEF Trace!Opened
  <2> QED
    BY <1>1, <1>2, <2>1, Zenon DEF Trace!TypeOK, Trace!Spans, Trace!None
<1>4. EndsOneByOne'
  BY <1>1, <1>2 DEF EndsOneByOne, Trace!Trimming
<1>5. ListsAgree'
  <2>1. Busy' = Busy /\ Cardinality(Busy) \in Nat
    BY <1>1, BusyIsFinite DEF Busy, Trace!Trimming
  <2>2. Len(spans') <= MaxSpans + Cardinality(Busy')
    BY <1>1, <1>2, <2>1
  <2>3. SameEnd(spans', recorded')
    BY <1>1 DEF SameEnd
  <2>4. \A v \in Tasks : Trace!Trimming(v)' => Len(copy'[v]) <= MaxSpans /\ raced'
    BY <1>1, <1>2 DEF ListsAgree, Trace!Trimming
  <2> QED
    BY <2>2, <2>3, <2>4, Zenon DEF ListsAgree, SameEnd
<1> QED
  BY <1>1, <1>3, <1>4, <1>5, EndedUntouched DEF TraceStrong

LEMMA TraceStep ==
  ASSUME TraceStrong, [Trace!Next]_tracerVars
  PROVE  TraceStrong'
<1>1. CASE UNCHANGED tracerVars
  <2>1. UNCHANGED <<current, open, parent, trace, owner, spans, ending, checking, copy,
                    started, inherited, recorded, raced>>
    BY <1>1 DEF tracerVars
  <2>2. Trace!TypeOK' /\ EndsOneByOne'
    BY <2>1 DEF TraceStrong, Trace!TypeOK, Trace!Opened, EndsOneByOne, Trace!Trimming
  <2> QED
    BY <2>1, <2>2, EndedUntouched, ListsUntouched DEF TraceStrong
<1>2. CASE Trace!Next
  BY <1>2, TraceStart, TraceOpen, TraceEnd, TraceRecord, TraceCheck, TraceTrim, TraceClear
     DEF Trace!Next
<1> QED
  BY <1>1, <1>2

\* The current span of a task is its innermost open one, spans form trees that are
\* recorded from the leaves, and unless one task trims the list while another appends to
\* it or clears it, it holds the latest, for any number of tasks and spans
\* (tracing.py:87-146).
THEOREM SpansFormTrees == TelemetrySpec => []TraceInv
<1> DEFINE Inv == part = "tracer" => TraceStrong
<1>1. TelemetryInit => Inv
  BY TraceInitial DEF TelemetryInit
<1>2. Inv /\ [TelemetryNext]_<<part, keeping, learning>> => Inv'
  BY TraceStep, StepOfPart
<1>3. Inv => TraceInv
  BY ListIsKept DEF TraceInv, Trace!TraceInv, TraceStrong
<1>4. TelemetrySpec => TelemetryInit /\ [][TelemetryNext]_<<part, keeping, learning>>
  BY PTL DEF TelemetrySpec
<1> HIDE DEF Inv
<1> QED
  BY <1>1, <1>2, <1>3, <1>4, PTL
-----------------------------------------------------------------------------
\* A window's running sums are those of the values in it (anomaly_detector.py:88-137),
\* so the test against them is the test against its mean and variance.
Fits(w) ==
  /\ w \in Anomaly!Window /\ w.count = Len(w.values)
  /\ w.sum = Total(w.values) /\ w.sumSq = Total(Square(w.values))

AnomalyStrong ==
  /\ Anomaly!TypeOK /\ anomalies \in Seq(Names \X Readings \X Anomaly!Severities)
  /\ \A n \in DOMAIN windows : Fits(windows[n]) /\ windows[n].count <= WindowSize
  /\ Anomaly!VerdictFitsWindow

LEMMA DetectorConstants ==
  /\ Readings \subseteq Int /\ WindowSize \in Nat \ {0} /\ MinSamples \in Nat \ {0}
  /\ MaxAnomalies \in Nat \ {0}
  BY TelemetryAssumption DEF Anomaly!DetectorAssumption

\* The sums of the detector are those of the lemmas.
LEMMA SumIsTotal == \A s : Anomaly!Sum(s) = Total(s)
<1> SUFFICES ASSUME NEW s PROVE Anomaly!Sum(s) = Total(s)
  OBVIOUS
<1>1. Anomaly!Sum(s) = SumsOf(s, DOMAIN s)[DOMAIN s]
  BY DEF Anomaly!Sum, Anomaly!SumFunction, Anomaly!SumFunctionOnSet, Anomaly!FoldFunctionOnSet,
         Anomaly!MapThenFoldSet, Pick, Sums, SumsOf
<1> QED
  BY <1>1, SumIs DEF Total

LEMMA SquaresAre == \A s : Anomaly!Squares(s) = Square(s)
  BY DEF Anomaly!Squares, Square

LEMMA ReadingsAreNumbers ==
  ASSUME NEW s \in Seq(Readings)
  PROVE  s \in Seq(Int)
<1>1. Len(s) \in Nat /\ s \in [1..Len(s) -> Readings]
  OBVIOUS
<1>2. s \in [1..Len(s) -> Int]
  BY <1>1, DetectorConstants
<1> QED
  BY <1>1, <1>2

LEMMA EvictFits ==
  ASSUME NEW w, Fits(w), w.count <= WindowSize
  PROVE  Fits(Anomaly!Evict(w)) /\ Anomaly!Evict(w).count < WindowSize
<1>1. w.values \in Seq(Readings) /\ w.values \in Seq(Int) /\ w.count = Len(w.values)
  BY ReadingsAreNumbers DEF Fits, Anomaly!Window
<1>2. CASE Len(w.values) < WindowSize
  BY <1>1, <1>2 DEF Anomaly!Evict
<1>3. CASE ~(Len(w.values) < WindowSize)
  <2> DEFINE e == Anomaly!Evict(w)
             s == w.values
  <2>1. e = [values |-> Tail(s), sum |-> w.sum - Head(s),
             sumSq |-> w.sumSq - Head(s) * Head(s), count |-> w.count - 1]
    BY <1>3 DEF Anomaly!Evict
  <2>2. s # <<>> /\ Len(s) = WindowSize
    BY <1>1, <1>3, DetectorConstants
  <2>3. Tail(s) \in Seq(Readings) /\ Len(Tail(s)) = Len(s) - 1 /\ Head(s) \in Readings
    BY <1>1, <2>2
  <2>4. Total(s) = Head(s) + Total(Tail(s)) /\ Total(Tail(s)) \in Int
    BY <1>1, <2>2, TotalTail, TotalTyped
  <2>5. PICK h \in Int : h = Head(s) * Head(s)
    <3>1. \A x \in Readings : x * x \in Int
      BY DetectorConstants
    <3> QED
      BY <2>3, <3>1
  <2>6. Total(Square(s)) = h + Total(Square(Tail(s))) /\ Total(Square(Tail(s))) \in Int
    <3>1. /\ Square(s) \in Seq(Int) /\ Square(s) # <<>> /\ Head(Square(s)) = h
          /\ Square(Tail(s)) = Tail(Square(s))
      BY <1>1, <2>2, <2>5, SquareFacts
    <3> QED
      BY <3>1, TotalTail, TotalTyped
  <2>7. w.sum = Total(s) /\ w.sumSq = Total(Square(s)) /\ w.count = Len(s)
    BY DEF Fits
  <2>8. Head(s) \in Int
    BY <2>3, DetectorConstants
  <2>9. /\ e.values = Tail(s) /\ e.sum = Total(Tail(s)) /\ e.sumSq = Total(Square(Tail(s)))
        /\ e.count = Len(Tail(s)) /\ e.count \in Nat /\ e.count < WindowSize
        /\ e = [values |-> e.values, sum |-> e.sum, sumSq |-> e.sumSq, count |-> e.count]
    <3> HIDE DEF s
    <3>1. /\ e.values = Tail(s) /\ e.sum = w.sum - Head(s) /\ e.sumSq = w.sumSq - h
          /\ e.count = w.count - 1
          /\ e = [values |-> e.values, sum |-> e.sum, sumSq |-> e.sumSq, count |-> e.count]
      BY <2>1, <2>5
    <3>2. Len(s) \in Nat \ {0} /\ Len(s) = WindowSize
      BY <1>3, <2>2, DetectorConstants
    <3> HIDE DEF e
    <3> QED
      BY <2>3, <2>4, <2>6, <2>7, <2>8, <3>1, <3>2
  <2> HIDE DEF e, s
  <2>10. e \in Anomaly!Window
    BY <2>3, <2>4, <2>6, <2>9 DEF Anomaly!Window
  <2>11. Fits(e) /\ e.count < WindowSize
    BY <2>9, <2>10 DEF Fits
  <2> QED
    BY <2>11 DEF e
<1> QED
  BY <1>2, <1>3

LEMMA PushFits ==
  ASSUME NEW w, NEW v \in Readings, Fits(w)
  PROVE  Fits(Anomaly!Push(w, v)) /\ Anomaly!Push(w, v).count = w.count + 1
<1> DEFINE p == Anomaly!Push(w, v)
           s == w.values
<1>1. s \in Seq(Readings) /\ s \in Seq(Int) /\ v \in Int /\ w.count = Len(s) /\ Len(s) \in Nat
  BY ReadingsAreNumbers, DetectorConstants DEF Fits, Anomaly!Window
<1>2. p = [values |-> Append(s, v), sum |-> w.sum + v, sumSq |-> w.sumSq + v * v,
           count |-> w.count + 1]
  BY DEF Anomaly!Push
<1>3. w.sum = Total(s) /\ w.sumSq = Total(Square(s)) /\ Total(s) \in Int
  BY <1>1, TotalTyped DEF Fits
<1>4. PICK q \in Int : q = v * v
  BY <1>1
<1>5. Append(s, v) \in Seq(Readings) /\ Len(Append(s, v)) = Len(s) + 1
  BY <1>1
<1>6. Total(Append(s, v)) = Total(s) + v
  BY <1>1, TotalAppend
<1>7. Total(Square(Append(s, v))) = Total(Square(s)) + q /\ Total(Square(s)) \in Int
  <2>1. Square(s) \in Seq(Int) /\ Square(Append(s, v)) = Append(Square(s), q)
    BY <1>1, <1>4, SquareFacts
  <2> QED
    BY <2>1, TotalAppend, TotalTyped
<1> HIDE DEF s
<1>8. /\ p.values = Append(s, v) /\ p.sum = w.sum + v /\ p.sumSq = w.sumSq + q
      /\ p.count = w.count + 1
      /\ p = [values |-> p.values, sum |-> p.sum, sumSq |-> p.sumSq, count |-> p.count]
  BY <1>2, <1>4
<1> HIDE DEF p
<1>9. p.sum \in Int /\ p.sumSq \in Int /\ p.count \in Nat /\ p.values \in Seq(Readings)
  <2>1. p.sum \in Int
    BY <1>1, <1>3, <1>8
  <2>2. p.sumSq \in Int
    BY <1>3, <1>4, <1>7, <1>8
  <2>3. p.count \in Nat
    BY <1>1, <1>8
  <2>4. p.values \in Seq(Readings)
    BY <1>5, <1>8
  <2> QED
    BY <2>1, <2>2, <2>3, <2>4
<1>10. p \in Anomaly!Window
  BY <1>8, <1>9 DEF Anomaly!Window
<1>11. Fits(p)
  BY <1>1, <1>3, <1>5, <1>6, <1>7, <1>8, <1>10 DEF Fits
<1> QED
  BY <1>8, <1>11 DEF p

LEMMA FreshFits == Fits(Anomaly!Fresh) /\ Anomaly!Fresh.count = 0
<1>1. Square(<<>>) = <<>> /\ <<>> \in Seq(Int) /\ Len(<<>>) = 0 /\ <<>> \in Seq(Readings)
  BY DEF Square
<1>2. Total(<<>>) = 0
  BY <1>1, TotalTyped
<1> QED
  BY <1>1, <1>2 DEF Anomaly!Fresh, Fits, Anomaly!Window

LEMMA ClassifyFits ==
  ASSUME NEW w, NEW v \in Readings, Fits(w), before' = Append(w.values, v),
         verdict' = Anomaly!Classify(v, w)
  PROVE  Anomaly!VerdictFitsWindow' /\ verdict' \in Anomaly!Severities
<1>1. PICK s \in Seq(Int), n \in Nat : s = w.values /\ n = Len(s)
  <2>1. w.values \in Seq(Readings)
    BY DEF Fits, Anomaly!Window
  <2>2. w.values \in Seq(Int)
    BY <2>1, ReadingsAreNumbers
  <2>3. Len(w.values) \in Nat
    BY <2>2
  <2> QED
    BY <2>2, <2>3
<1>2. PICK k \in Int, q \in Int : k = Total(s) /\ q = Total(Square(s))
  BY TotalTyped, SquareFacts
<1>3. w.count = n /\ w.sum = k /\ w.sumSq = q /\ v \in Int
  BY <1>1, <1>2, DetectorConstants DEF Fits
<1>4. PICK e \in Int : e = n * q - k * k /\ e = Excess(s)
  <2>1. n * q - k * k \in Int
    OBVIOUS
  <2>2. Excess(s) = n * q - k * k
    BY <1>1, <1>2, Zenon DEF Excess
  <2> QED
    BY <2>1, <2>2
<1>5. PICK d : d = [i \in DOMAIN s |-> n * s[i] - k] /\ d = Scatter(s)
  <2>1. Scatter(s) = [i \in DOMAIN s |-> n * s[i] - k]
    BY <1>1, <1>2, Zenon DEF Scatter
  <2> QED
    BY <2>1, Zenon
<1>8. /\ Total(Square(d)) = n * e /\ n * e >= 0
      /\ n * e = 0 <=> \A i \in DOMAIN d : d[i] = 0
  <2>1. /\ Total(Square(Scatter(s))) = Len(s) * Excess(s) /\ Len(s) * Excess(s) >= 0
        /\ Len(s) * Excess(s) = 0 <=> \A i \in DOMAIN Scatter(s) : Scatter(s)[i] = 0
    BY ScatterOf, Zenon
  <2> QED
    BY ONLY <2>1, <1>1, <1>4, <1>5, Zenon
<1> DEFINE far(z) == n * (n * v - k) * (n * v - k) >= z * z * Total(Square(d))
<1>9. PICK u \in Int : u = (n * v - k) * (n * v - k)
  <2>1. (n * v - k) * (n * v - k) \in Int
    BY <1>3
  <2> QED
    BY <2>1
<1>10. \A z \in Int : Anomaly!Deviates(v, w, z) <=> u >= z * z * e
  BY <1>3, <1>4, <1>9 DEF Anomaly!Deviates
<1>11. 1 * 1 * e = e /\ 2 * 2 * e = 4 * e /\ 3 * 3 * e = 9 * e
  BY <1>4
<1>12. /\ Anomaly!Deviates(v, w, 1) <=> u >= e
       /\ Anomaly!Deviates(v, w, 2) <=> u >= 4 * e
       /\ Anomaly!Deviates(v, w, 3) <=> u >= 9 * e
  <2> HIDE DEF Anomaly!Deviates
  <2> QED
    BY <1>10, <1>11
<1>13. w.count * w.sumSq <= w.sum * w.sum <=> e <= 0
  <2>1. PICK a \in Int, b \in Int : a = n * q /\ b = k * k
    OBVIOUS
  <2> QED
    BY <1>3, <1>4, <2>1
<1>14. n * (n * v - k) * (n * v - k) = n * u
  <2>1. PICK x \in Int : x = n * v - k
    BY <1>3
  <2>2. n * x * x = n * (x * x)
    BY <2>1
  <2> QED
    BY <1>9, <2>1, <2>2
<1>15. /\ far(1) <=> n * u >= n * e
       /\ far(2) <=> n * u >= 4 * (n * e)
       /\ far(3) <=> n * u >= 9 * (n * e)
  <2>1. PICK x \in Int, y \in Int : x = n * u /\ y = n * e
    BY <1>4, <1>9
  <2>2. 1 * 1 * y = y /\ 2 * 2 * y = 4 * y /\ 3 * 3 * y = 9 * y
    BY <2>1
  <2> QED
    BY <1>8, <1>14, <2>1, <2>2
<1>16. Anomaly!VerdictFitsWindow' <=>
         IF n < MinSamples \/ \A i \in DOMAIN d : d[i] = 0 THEN verdict' = "none"
         ELSE /\ verdict' = "critical" <=> far(3)
              /\ verdict' \in {"high", "critical"} <=> far(2)
              /\ verdict' # "none" <=> far(1)
  <2>1. /\ before' # <<>> /\ Len(before') - 1 = n
        /\ before'[n + 1] = v /\ SubSeq(before', 1, n) = s
    <3>1. before' = Append(s, v) /\ Len(before') = n + 1
      BY <1>1
    <3>2. before' # <<>> /\ before'[n + 1] = v
      BY <1>1, <3>1
    <3>3. SubSeq(before', 1, n) = [i \in 1..n |-> s[i]]
      BY <1>1, <3>1
    <3>4. s = [i \in 1..n |-> s[i]]
      BY <1>1
    <3> QED
      BY <1>1, <3>1, <3>2, <3>3, <3>4
  <2>2. Anomaly!Squares(d) = Square(d) /\ Anomaly!Sum(Square(d)) = Total(Square(d))
        /\ Anomaly!Sum(s) = Total(s)
    BY SumIsTotal, SquaresAre
  <2>3. d = [i \in DOMAIN s |-> Len(s) * s[i] - Anomaly!Sum(s)]
    BY <1>1, <1>2, <1>5, <2>2
  <2>4. \A z : far(z) <=> Len(s) * (Len(s) * v - Anomaly!Sum(s)) * (Len(s) * v - Anomaly!Sum(s))
                            >= z * z * Anomaly!Sum(Anomaly!Squares(d))
    BY <1>1, <1>2, <2>2
  <2> HIDE DEF far
  <2> QED
    BY <1>1, <2>1, <2>3, <2>4, ZenonT(60) DEF Anomaly!VerdictFitsWindow
<1>17. CASE n < MinSamples \/ e <= 0
  <2>1. verdict' = "none"
    BY <1>3, <1>13, <1>17 DEF Anomaly!Classify
  <2>2. n < MinSamples \/ \A i \in DOMAIN d : d[i] = 0
    <3> SUFFICES ASSUME ~(n < MinSamples) PROVE n * e = 0
      BY <1>8
    <3>1. n > 0
      BY DetectorConstants
    <3>2. n * e <= 0 /\ n * e \in Int
      BY <1>17, <3>1, Sign
    <3> QED
      BY <1>8, <3>2
  <2> QED
    BY <1>16, <2>1, <2>2 DEF Anomaly!Severities
<1>18. CASE ~(n < MinSamples) /\ e > 0
  <2>1. verdict' = IF u >= 9 * e THEN "critical" ELSE IF u >= 4 * e THEN "high"
                   ELSE IF u >= e THEN "medium" ELSE "none"
    BY <1>3, <1>12, <1>13, <1>18 DEF Anomaly!Classify
  <2>2. n > 0 /\ n * e > 0
    <3>1. n > 0
      BY <1>1, <1>18, DetectorConstants
    <3> QED
      BY <1>18, <3>1, Sign
  <2>3. ~ \A i \in DOMAIN d : d[i] = 0
    <3>1. n * e # 0
      BY <2>2
    <3> QED
      BY <1>8, <3>1
  <2>4. /\ far(1) <=> u >= e
        /\ far(2) <=> u >= 4 * e
        /\ far(3) <=> u >= 9 * e
    <3>1. \A x, y \in Int : n * x >= n * y <=> x >= y
      BY <2>2, Scaled
    <3>2. 4 * (n * e) = n * (4 * e) /\ 9 * (n * e) = n * (9 * e) /\ 4 * e \in Int /\ 9 * e \in Int
      OBVIOUS
    <3> HIDE DEF far
    <3> QED
      BY <1>15, <3>1, <3>2
  <2>5. u >= 9 * e => u >= 4 * e
    BY <1>4, <1>9, <1>18
  <2>6. u >= 4 * e => u >= e
    BY <1>4, <1>9, <1>18
  <2> HIDE DEF far
  <2>7. /\ verdict' = "critical" <=> far(3)
        /\ verdict' \in {"high", "critical"} <=> far(2)
        /\ verdict' # "none" <=> far(1)
    BY <2>1, <2>4, <2>5, <2>6
  <2>8. verdict' \in Anomaly!Severities
    BY <2>1 DEF Anomaly!Severities
  <2> QED
    BY <1>16, <1>18, <2>3, <2>7, <2>8
<1>19. n < MinSamples \/ e <= 0 \/ e > 0
  OBVIOUS
<1> QED
  BY <1>17, <1>18, <1>19

LEMMA DetectorInitial == Anomaly!Init => AnomalyStrong
<1> SUFFICES ASSUME Anomaly!Init PROVE AnomalyStrong
  OBVIOUS
<1>1. /\ DOMAIN windows = {} /\ anomalies = <<>> /\ verdict = "none" /\ before = <<>>
      /\ readings = 0
  BY DEF Anomaly!Init
<1> QED
  BY <1>1, DetectorConstants DEF AnomalyStrong, Anomaly!TypeOK, Anomaly!VerdictFitsWindow,
     Anomaly!Severities

LEMMA RecordFits ==
  ASSUME AnomalyStrong, NEW n \in Names, NEW v \in Readings, Anomaly!Record(n, v)
  PROVE  AnomalyStrong'
<1> DEFINE w == IF n \in DOMAIN windows THEN windows[n] ELSE Anomaly!Fresh
<1>1. /\ readings' = readings + 1 /\ verdict' = Anomaly!Classify(v, w)
      /\ before' = Append(w.values, v)
      /\ windows' = [m \in DOMAIN windows \cup {n} |->
                       IF m = n THEN Anomaly!Push(Anomaly!Evict(w), v) ELSE windows[m]]
  BY DEF Anomaly!Record
<1>2. Fits(w) /\ w.count <= WindowSize
  BY FreshFits, DetectorConstants DEF AnomalyStrong
<1>3. anomalies' = IF verdict' = "none" THEN anomalies
                   ELSE LET list == Append(anomalies, <<n, v, verdict'>>)
                        IN  IF Len(list) > MaxAnomalies THEN Tail(list) ELSE list
  BY DEF Anomaly!Record
<1> HIDE DEF w
<1>4. Anomaly!VerdictFitsWindow' /\ verdict' \in Anomaly!Severities
  BY <1>1, <1>2, ClassifyFits
<1>5. PICK x : x = Anomaly!Push(Anomaly!Evict(w), v)
  OBVIOUS
<1>6. Fits(x) /\ x.count <= WindowSize
  <2>1. Fits(Anomaly!Evict(w)) /\ Anomaly!Evict(w).count < WindowSize
    BY <1>2, EvictFits
  <2>2. Anomaly!Evict(w).count \in Nat
    BY <2>1 DEF Fits, Anomaly!Window
  <2> QED
    BY <1>5, <2>1, <2>2, PushFits, DetectorConstants
<1>7. /\ DOMAIN windows' = DOMAIN windows \cup {n}
      /\ \A m \in DOMAIN windows' : windows'[m] = IF m = n THEN x ELSE windows[m]
  BY <1>1, <1>5
<1>8. \A m \in DOMAIN windows' : Fits(windows'[m]) /\ windows'[m].count <= WindowSize
  BY <1>6, <1>7 DEF AnomalyStrong
<1>9. DOMAIN windows' \subseteq Names /\ \A m \in DOMAIN windows' : windows'[m] \in Anomaly!Window
  BY <1>7, <1>8 DEF AnomalyStrong, Anomaly!TypeOK, Fits
<1>10. /\ anomalies' \in Seq(Names \X Readings \X Anomaly!Severities)
       /\ Len(anomalies') <= MaxAnomalies
  <2> DEFINE T == Names \X Readings \X Anomaly!Severities
  <2>1. PICK y \in T : y = <<n, v, verdict'>>
    BY <1>4
  <2>2. anomalies \in Seq(T) /\ Len(anomalies) <= MaxAnomalies
    BY DEF AnomalyStrong, Anomaly!TypeOK
  <2> HIDE DEF T
  <2>3. PICK list \in Seq(T) : list = Append(anomalies, y) /\ Len(list) = Len(anomalies) + 1
    <3>1. /\ Append(anomalies, y) \in Seq(T)
          /\ Len(Append(anomalies, y)) = Len(anomalies) + 1
      BY <2>1, <2>2
    <3> QED
      BY <3>1
  <2>4. Tail(list) \in Seq(T) /\ Len(Tail(list)) = Len(list) - 1
    BY <2>2, <2>3
  <2>5. anomalies' = IF verdict' = "none" THEN anomalies
                     ELSE IF Len(list) > MaxAnomalies THEN Tail(list) ELSE list
    BY <1>3, <2>1, <2>3
  <2>6. Len(anomalies) \in Nat
    BY <2>2
  <2> QED
    BY <2>2, <2>3, <2>4, <2>5, <2>6, DetectorConstants DEF T
<1>11. readings' \in Nat
  BY <1>1 DEF AnomalyStrong, Anomaly!TypeOK
<1> QED
  BY <1>4, <1>8, <1>9, <1>10, <1>11 DEF AnomalyStrong, Anomaly!TypeOK

LEMMA DetectorStep == AnomalyStrong /\ [Anomaly!Next]_detectorVars => AnomalyStrong'
<1> SUFFICES ASSUME AnomalyStrong, [Anomaly!Next]_detectorVars PROVE AnomalyStrong'
  OBVIOUS
<1>1. ASSUME NEW n \in Names, NEW v \in Readings, Anomaly!Record(n, v) PROVE AnomalyStrong'
  BY <1>1, RecordFits
<1>2. ASSUME Anomaly!Reset PROVE AnomalyStrong'
  <2>1. verdict' = "none" /\ before' = <<>> /\ readings' = readings
    BY <1>2 DEF Anomaly!Reset
  <2>2. /\ DOMAIN windows' \subseteq DOMAIN windows
        /\ \A m \in DOMAIN windows' : windows'[m] = windows[m]
    BY <1>2 DEF Anomaly!Reset
  <2>3. anomalies' = <<>> \/ anomalies' = anomalies
    BY <1>2 DEF Anomaly!Reset
  <2>4. /\ anomalies' \in Seq(Names \X Readings \X Anomaly!Severities)
        /\ Len(anomalies') <= MaxAnomalies
    <3>1. /\ anomalies \in Seq(Names \X Readings \X Anomaly!Severities)
          /\ Len(anomalies) <= MaxAnomalies
      BY DEF AnomalyStrong, Anomaly!TypeOK
    <3> DEFINE T == Names \X Readings \X Anomaly!Severities
    <3>2. <<>> \in Seq(T) /\ Len(<<>>) <= MaxAnomalies
      BY DetectorConstants
    <3> QED
      BY <2>3, <3>1, <3>2
  <2>5. Anomaly!VerdictFitsWindow'
    BY <2>1 DEF Anomaly!VerdictFitsWindow
  <2>6. Anomaly!TypeOK'
    BY <2>1, <2>2, <2>4 DEF AnomalyStrong, Anomaly!TypeOK, Anomaly!Severities
  <2> QED
    BY <2>2, <2>4, <2>5, <2>6 DEF AnomalyStrong
<1>3. CASE UNCHANGED detectorVars
  <2>1. /\ windows' = windows /\ anomalies' = anomalies /\ verdict' = verdict
        /\ before' = before /\ readings' = readings
    BY <1>3 DEF detectorVars
  <2>2. Anomaly!VerdictFitsWindow'
    BY <2>1, Zenon DEF AnomalyStrong, Anomaly!VerdictFitsWindow
  <2>3. Anomaly!TypeOK'
    BY <2>1 DEF AnomalyStrong, Anomaly!TypeOK
  <2> QED
    BY <2>1, <2>2, <2>3 DEF AnomalyStrong
<1> QED
  BY <1>1, <1>2, <1>3 DEF Anomaly!Next

LEMMA DetectorImplies == AnomalyStrong => Anomaly!AnomalyInv
<1> SUFFICES ASSUME AnomalyStrong PROVE Anomaly!SumsMatchWindow
  BY DEF AnomalyStrong, Anomaly!AnomalyInv
<1> QED
  BY SumIsTotal, SquaresAre DEF AnomalyStrong, Fits, Anomaly!SumsMatchWindow

\* The sums of a window are those of the values in it, however often it has slid, so
\* the severity of a value is what the window's mean and variance make of it
\* (anomaly_detector.py:88-157).
THEOREM VerdictsFit == TelemetrySpec => []AnomalyInv
<1>1. TelemetryInit => (part = "anomaly" => AnomalyStrong)
  BY DetectorInitial DEF TelemetryInit
<1>2. /\ part = "anomaly" => AnomalyStrong
      /\ [TelemetryNext]_<<part, keeping, learning>>
      => (part = "anomaly" => AnomalyStrong)'
  BY StepOfPart, DetectorStep
<1>3. (part = "anomaly" => AnomalyStrong) => AnomalyInv
  BY DetectorImplies DEF AnomalyInv
<1> QED
  BY <1>1, <1>2, <1>3, PTL DEF TelemetrySpec
-----------------------------------------------------------------------------
\* What a set of labels has in either histogram is of the values observed for it: the
\* total, the sum, and in each bucket the values within its bound.
Exact(e, s) ==
  /\ e.total = Len(s) /\ e.sum = Total(s)
  /\ \A b \in Bounds : e.counts[b] = Cardinality(UpTo(s, b))

FastStrong ==
  /\ DOMAIN fast \subseteq Keys
  /\ \A k \in DOMAIN fast :
       fast[k] \in [counts : [Bounds -> Nat], sum : Nat, total : Nat, min : Nat, max : Nat]
  /\ observed \in [Keys -> Seq(Values)]
  /\ \A k \in Keys \ DOMAIN fast : observed[k] = <<>>

LEMMA HistogramConstants ==
  /\ IsFiniteSet(Keys) /\ IsFiniteSet(Bounds) /\ Values \subseteq Nat /\ Bounds \subseteq Nat
  /\ MaxCardinality \in Nat /\ MaxObservations \in Nat \ {0}
  BY TelemetryAssumption
     DEF Simple!HistogramAssumption, Simple!IsFiniteSet, IsFiniteSet

\* The modules count, sum and list alike.
LEMMA HistogramsAgree ==
  /\ \A S : /\ Fast!Cardinality(S) = Cardinality(S) /\ Simple!Cardinality(S) = Cardinality(S)
            /\ Fast!Plain!Cardinality(S) = Cardinality(S)
  /\ \A s, n : /\ Simple!Latest(s, n) = LatestOf(s, n) /\ Fast!Latest(s, n) = LatestOf(s, n)
               /\ Fast!Plain!Latest(s, n) = LatestOf(s, n)
  /\ Fast!Plain!Observed = Fast!Observed
  /\ \A f : Simple!SumFunction(f) = Total(f)
<1>1. \A S : Fast!Cardinality(S) = Cardinality(S)
  BY DEF Fast!Cardinality, Cardinality
<1>2. \A S : Simple!Cardinality(S) = Cardinality(S)
  BY DEF Simple!Cardinality, Cardinality
<1>3. \A S : Fast!Plain!Cardinality(S) = Cardinality(S)
  BY DEF Fast!Plain!Cardinality, Cardinality
<1>4. \A s, n : /\ Simple!Latest(s, n) = LatestOf(s, n) /\ Fast!Latest(s, n) = LatestOf(s, n)
                /\ Fast!Plain!Latest(s, n) = LatestOf(s, n)
  BY Zenon DEF Simple!Latest, Fast!Latest, Fast!Plain!Latest, LatestOf
<1>5. \A f : Fast!Plain!SumFunction(f) = Fast!SumFunction(f)
  BY DEF Fast!Plain!SumFunction, Fast!Plain!SumFunctionOnSet, Fast!Plain!FoldFunctionOnSet,
         Fast!Plain!MapThenFoldSet, Fast!SumFunction, Fast!SumFunctionOnSet,
         Fast!FoldFunctionOnSet, Fast!MapThenFoldSet
<1>6. Fast!Plain!Observed = Fast!Observed
  BY <1>5 DEF Fast!Plain!Observed, Fast!Observed
<1>7. ASSUME NEW f PROVE Simple!SumFunction(f) = Total(f)
  <2>1. Simple!SumFunction(f) = SumsOf(f, DOMAIN f)[DOMAIN f]
    BY DEF Simple!SumFunction, Simple!SumFunctionOnSet, Simple!FoldFunctionOnSet,
           Simple!MapThenFoldSet, Pick, Sums, SumsOf
  <2> QED
    BY <2>1, SumIs DEF Total
<1> QED
  BY <1>1, <1>2, <1>3, <1>4, <1>6, <1>7

\* The search of the efficient histogram finds the buckets that the scan of the other does.
LEMMA SearchFinds ==
  ASSUME NEW v \in Int
  PROVE  {Fast!BucketList[i] : i \in (Fast!FirstBucket(v) + 1)..Len(Fast!BucketList)}
           = {b \in Bounds : v <= b}
<1>1. Bounds \in SUBSET Int /\ IsFiniteSet(Bounds)
  BY HistogramConstants
<1>2. PICK n \in Nat : n = Cardinality(Bounds)
  BY <1>1, FS_CardinalityType
<1> DEFINE Up(s) == \A i, j \in DOMAIN s : i < j => s[i] < s[j]
<1>3. \E s \in [1..n -> Bounds] : Up(s)
  BY <1>1, <1>2, Sorted
<1>4. Fast!BucketList = CHOOSE s \in [1..n -> Bounds] : Up(s)
  <2>1. Fast!BucketList = CHOOSE s \in [1..Cardinality(Bounds) -> Bounds] : Up(s)
    BY HistogramsAgree DEF Fast!BucketList
  <2> HIDE DEF Up
  <2> QED
    BY <1>2, <2>1
<1>5. PICK s \in [1..n -> Bounds] : s = Fast!BucketList /\ Up(s)
  <2> HIDE DEF Up
  <2> QED
    BY <1>3, <1>4
<1>6. \A x \in Bounds : \E i \in 1..n : s[i] = x
  BY <1>1, <1>2, <1>5, SortedHoldsAll
<1> DEFINE At(i) == \A j \in DOMAIN s : j <= i <=> s[j] < v
<1>7. \E i \in 0..n : At(i)
  <2>1. s \in [1..n -> Int]
    BY <1>1
  <2> QED
    BY <1>5, <2>1, Bisected
<1>8. Len(s) = n /\ DOMAIN s = 1..n
  OBVIOUS
<1>9. Fast!FirstBucket(v) = CHOOSE i \in 0..n : At(i)
  BY <1>5, <1>8 DEF Fast!FirstBucket, Fast!BisectLeft
<1>10. PICK m \in 0..n : m = Fast!FirstBucket(v) /\ At(m)
  <2> HIDE DEF At
  <2> QED
    BY <1>7, <1>9
<1>11. \A i \in 1..n : s[i] \in Bounds /\ s[i] \in Int /\ (i \in m + 1..n <=> v <= s[i])
  <2> SUFFICES ASSUME NEW i \in 1..n PROVE s[i] \in Bounds /\ s[i] \in Int /\ (i \in m + 1..n <=> v <= s[i])
    OBVIOUS
  <2>1. s[i] \in Bounds /\ s[i] \in Int
    BY <1>1
  <2>2. i <= m <=> s[i] < v
    BY <1>8, <1>10
  <2> QED
    BY <2>1, <2>2
<1>12. {s[i] : i \in m + 1..n} = {b \in Bounds : v <= b}
  <2>1. m + 1..n \subseteq 1..n
    OBVIOUS
  <2> QED
    BY <1>6, <1>11, <2>1
<1> QED
  BY <1>5, <1>8, <1>10, <1>12

\* The counts of the plain histogram for the entry that the efficient one has.
Plainly(e, s) ==
  [counts |-> e.counts, sum |-> e.sum, total |-> e.total,
   recent |-> Fast!Latest(s, MaxObservations)]

LEMMA CountedPlainly ==
  ASSUME NEW e, NEW s \in Seq(Values), NEW v \in Values
  PROVE  Plainly(Fast!Counted(e, v), Append(s, v)) = Fast!Plain!Counted(Plainly(e, s), v)
<1>1. v \in Int
  BY HistogramConstants
<1>2. PICK hit : /\ hit = {b \in Bounds : v <= b}
                 /\ hit = {Fast!BucketList[i] : i \in (Fast!FirstBucket(v) + 1)..Len(Fast!BucketList)}
  BY <1>1, SearchFinds
<1>3. Fast!Counted(e, v) =
        [counts |-> [b \in Bounds |-> e.counts[b] + IF b \in hit THEN 1 ELSE 0],
         sum    |-> e.sum + v,
         total  |-> e.total + 1,
         min    |-> IF v < e.min THEN v ELSE e.min,
         max    |-> IF v > e.max THEN v ELSE e.max]
  BY <1>2, Zenon DEF Fast!Counted
<1>4. \A b \in Bounds : b \in hit <=> Fast!Plain!Counts(v, b)
  BY <1>2 DEF Fast!Plain!Counts
<1>5. Fast!Latest(Append(s, v), MaxObservations)
        = Fast!Plain!Latest(Append(Fast!Latest(s, MaxObservations), v), MaxObservations)
  <2>1. \A r, n : Fast!Latest(r, n) = LatestOf(r, n) /\ Fast!Plain!Latest(r, n) = LatestOf(r, n)
    BY HistogramsAgree
  <2>2. MaxObservations \in Nat \ {0}
    BY HistogramConstants
  <2>3. LatestOf(Append(LatestOf(s, MaxObservations), v), MaxObservations)
          = LatestOf(Append(s, v), MaxObservations)
    BY <2>2, LatestAppend
  <2> QED
    BY <2>1, <2>3, Zenon
<1>6. /\ Plainly(e, s).counts = e.counts /\ Plainly(e, s).sum = e.sum
      /\ Plainly(e, s).total = e.total
      /\ Plainly(e, s).recent = Fast!Latest(s, MaxObservations)
  BY DEF Plainly
<1>7. [b \in Bounds |-> e.counts[b] + IF b \in hit THEN 1 ELSE 0]
        = [b \in Bounds |-> e.counts[b] + IF Fast!Plain!Counts(v, b) THEN 1 ELSE 0]
  BY <1>4
<1>8. Fast!Plain!Counted(Plainly(e, s), v) =
        [counts |-> [b \in Bounds |-> e.counts[b] + IF Fast!Plain!Counts(v, b) THEN 1 ELSE 0],
         sum    |-> e.sum + v,
         total  |-> e.total + 1,
         recent |-> Fast!Latest(Append(s, v), MaxObservations)]
  BY <1>5, <1>6, Zenon DEF Fast!Plain!Counted
<1> QED
  BY <1>3, <1>7, <1>8 DEF Plainly

\* The entry of a set of labels after a value is observed for it.
LEMMA FastObserve ==
  ASSUME FastStrong, NEW k \in Keys, NEW v \in Values, Fast!Observe(k, v)
  PROVE  /\ FastStrong'
         /\ DOMAIN fast' = DOMAIN fast \cup {k} /\ observed'[k] = Append(observed[k], v)
         /\ fast'[k] = Fast!Counted(IF k \in DOMAIN fast THEN fast[k] ELSE Fast!Fresh(v), v)
         /\ \A j \in DOMAIN fast : j # k => fast'[j] = fast[j] /\ observed'[j] = observed[j]
<1>1. fast' = [j \in DOMAIN fast \cup {k} |->
                 IF j = k THEN Fast!Counted(IF j \in DOMAIN fast THEN fast[j] ELSE Fast!Fresh(v), v)
                          ELSE fast[j]]
  BY DEF Fast!Observe
<1>2. observed' = [observed EXCEPT ![k] = Append(@, v)]
  BY DEF Fast!Observe
<1>3. DOMAIN fast \subseteq Keys /\ observed \in [Keys -> Seq(Values)]
  BY DEF FastStrong
<1>4. DOMAIN fast' = DOMAIN fast \cup {k}
  BY <1>1
<1>5. fast'[k] = Fast!Counted(IF k \in DOMAIN fast THEN fast[k] ELSE Fast!Fresh(v), v)
  BY <1>1
<1>6. ASSUME NEW j \in DOMAIN fast, j # k
      PROVE  fast'[j] = fast[j] /\ observed'[j] = observed[j]
  BY <1>1, <1>2, <1>3, <1>6
<1>7. observed'[k] = Append(observed[k], v) /\ observed' \in [Keys -> Seq(Values)]
  BY <1>2, <1>3
<1> DEFINE Record == [counts : [Bounds -> Nat], sum : Nat, total : Nat, min : Nat, max : Nat]
<1>8. v \in Nat
  BY HistogramConstants
<1>9. ASSUME NEW e \in Record PROVE Fast!Counted(e, v) \in Record
  <2>1. \A S : [b \in Bounds |-> e.counts[b] + IF b \in S THEN 1 ELSE 0] \in [Bounds -> Nat]
    BY <1>9
  <2>2. PICK c \in [Bounds -> Nat] :
          Fast!Counted(e, v) = [counts |-> c, sum |-> e.sum + v, total |-> e.total + 1,
                                min |-> IF v < e.min THEN v ELSE e.min,
                                max |-> IF v > e.max THEN v ELSE e.max]
    BY <2>1, Zenon DEF Fast!Counted
  <2> QED
    BY <1>8, <1>9, <2>2
<1>10. Fast!Fresh(v) \in Record
  BY <1>8 DEF Fast!Fresh
<1>11. (IF k \in DOMAIN fast THEN fast[k] ELSE Fast!Fresh(v)) \in Record
  BY <1>10 DEF FastStrong
<1>12. \A j \in DOMAIN fast' : fast'[j] \in Record
  <2> HIDE DEF Record
  <2>1. fast'[k] \in Record
    BY <1>5, <1>9, <1>11
  <2>2. \A j \in DOMAIN fast : fast[j] \in Record
    BY DEF FastStrong, Record
  <2> QED
    BY <1>4, <1>6, <2>1, <2>2
<1>13. \A j \in Keys \ DOMAIN fast' : observed'[j] = <<>>
  BY <1>2, <1>3, <1>4 DEF FastStrong
<1>14. FastStrong'
  BY <1>3, <1>4, <1>7, <1>12, <1>13 DEF FastStrong
<1> QED
  BY <1>4, <1>5, <1>6, <1>7, <1>14

LEMMA FastInitial == Fast!Init => FastStrong /\ Fast!Plain!Init
  BY DEF Fast!Init, FastStrong, Fast!Plain!Init

\* Every step is one of the plain histogram, which has room for all sets of labels.
LEMMA FastStep ==
  FastStrong /\ [Fast!Next]_fastVars
    => /\ FastStrong'
       /\ [Fast!Plain!Next]_<<[k \in DOMAIN fast |-> Plainly(fast[k], observed[k])], observed>>
<1> DEFINE view == [k \in DOMAIN fast |-> Plainly(fast[k], observed[k])]
<1> SUFFICES ASSUME FastStrong, [Fast!Next]_fastVars
             PROVE  FastStrong' /\ [Fast!Plain!Next]_<<view, observed>>
  OBVIOUS
<1>1. CASE UNCHANGED fastVars
  <2>1. fast' = fast /\ observed' = observed
    BY <1>1 DEF fastVars
  <2>2. view' = view
    BY <2>1
  <2> QED
    BY <2>1, <2>2 DEF FastStrong
<1>2. ASSUME Fast!Observed < MaxObserves,
             NEW k \in Keys, NEW v \in Values, Fast!Observe(k, v)
      PROVE  FastStrong' /\ Fast!Plain!Next
  <2>1. /\ FastStrong'
        /\ DOMAIN fast' = DOMAIN fast \cup {k} /\ observed'[k] = Append(observed[k], v)
        /\ fast'[k] = Fast!Counted(IF k \in DOMAIN fast THEN fast[k] ELSE Fast!Fresh(v), v)
        /\ \A j \in DOMAIN fast : j # k => fast'[j] = fast[j] /\ observed'[j] = observed[j]
    BY <1>2, FastObserve
  <2>2. DOMAIN view = DOMAIN fast /\ DOMAIN view' = DOMAIN fast \cup {k}
    BY <2>1
  <2>3. k \in DOMAIN view \/ Fast!Plain!Cardinality(DOMAIN view) < Fast!Cardinality(Keys)
    <3> SUFFICES ASSUME k \notin DOMAIN fast PROVE Cardinality(DOMAIN fast) < Cardinality(Keys)
      BY <2>2, HistogramsAgree
    <3>1. DOMAIN fast \subseteq Keys /\ IsFiniteSet(Keys)
      BY HistogramConstants DEF FastStrong
    <3>2. /\ IsFiniteSet(DOMAIN fast) /\ Cardinality(DOMAIN fast) <= Cardinality(Keys)
          /\ Cardinality(DOMAIN fast) = Cardinality(Keys) => DOMAIN fast = Keys
      BY <3>1, FS_Subset
    <3>3. Cardinality(DOMAIN fast) \in Nat /\ Cardinality(Keys) \in Nat
      BY <3>1, <3>2, FS_CardinalityType
    <3> QED
      BY <3>2, <3>3
  <2>4. \A j \in DOMAIN view : j # k => view'[j] = view[j]
    BY <2>1, <2>2
  <2>5. view'[k] = Fast!Plain!Counted(IF k \in DOMAIN view THEN view[k]
                                      ELSE Fast!Plain!NewEntry, v)
    <3>1. view'[k] = Plainly(fast'[k], observed'[k])
      BY <2>1
    <3>2. observed[k] \in Seq(Values)
      BY DEF FastStrong
    <3>3. CASE k \in DOMAIN fast
      <4>1. view[k] = Plainly(fast[k], observed[k])
        BY <3>3
      <4>2. Plainly(Fast!Counted(fast[k], v), Append(observed[k], v))
              = Fast!Plain!Counted(view[k], v)
        BY <3>2, <4>1, CountedPlainly
      <4> QED
        BY <2>1, <2>2, <3>1, <3>3, <4>2
    <3>4. CASE k \notin DOMAIN fast
      <4>1. observed[k] = <<>>
        BY <3>4 DEF FastStrong
      <4>2. Plainly(Fast!Fresh(v), <<>>) = Fast!Plain!NewEntry
        <5>1. Fast!Latest(<<>>, MaxObservations) = <<>>
          <6>1. PICK s \in Seq(Values) : s = <<>> /\ Len(s) = 0
            <7>1. <<>> \in Seq(Values) /\ Len(<<>>) = 0
              OBVIOUS
            <7> QED
              BY <7>1
          <6>2. MaxObservations \in Nat \ {0}
            BY HistogramConstants
          <6>3. LatestOf(s, MaxObservations) \in Seq(Values) /\ Len(LatestOf(s, MaxObservations)) = 0
            <7>1. LatestOf(s, MaxObservations) \in Seq(Values)
              BY <6>2, LatestEnds
            <7>2. Len(LatestOf(s, MaxObservations))
                    = IF Len(s) > MaxObservations THEN MaxObservations ELSE Len(s)
              BY <6>2, LatestEnds
            <7> QED
              BY <6>1, <6>2, <7>1, <7>2
          <6>4. LatestOf(s, MaxObservations) = <<>>
            BY <6>3
          <6> QED
            BY <6>1, <6>4, HistogramsAgree
        <5> QED
          BY <5>1 DEF Plainly, Fast!Fresh, Fast!Plain!NewEntry
      <4>3. Plainly(Fast!Counted(Fast!Fresh(v), v), Append(<<>>, v))
              = Fast!Plain!Counted(Plainly(Fast!Fresh(v), <<>>), v)
        BY <3>2, <4>1, CountedPlainly
      <4> QED
        BY <2>1, <2>2, <3>1, <3>4, <4>1, <4>2, <4>3
    <3> QED
      BY <3>3, <3>4
  <2>6. observed' = [observed EXCEPT ![k] = Append(@, v)]
    BY <1>2 DEF Fast!Observe
  <2>7. view' = [j \in DOMAIN view \cup {k} |->
                   IF j = k THEN Fast!Plain!Counted(IF k \in DOMAIN view THEN view[k]
                                                    ELSE Fast!Plain!NewEntry, v)
                            ELSE view[j]]
    <3> DEFINE e == Fast!Plain!Counted(IF k \in DOMAIN view THEN view[k]
                                       ELSE Fast!Plain!NewEntry, v)
    <3>1. view' = [j \in DOMAIN view \cup {k} |-> view'[j]]
      BY <2>2
    <3> HIDE DEF e, view
    <3> QED
      BY <2>4, <2>5, <3>1 DEF e
  <2>8. Fast!Plain!Observe(k, v)
    BY <2>3, <2>6, <2>7 DEF Fast!Plain!Observe, Fast!Plain!Known, Plainly
  <2>9. Fast!Plain!Next
    BY <1>2, <2>8, HistogramsAgree DEF Fast!Plain!Next
  <2> QED
    BY <2>1, <2>9
<1> QED
  BY <1>1, <1>2 DEF Fast!Next

\* To a caller the efficient histogram is a histogram that never reaches its cardinality
\* limit: the binary search counts a value in the buckets that the scan would
\* (efficient_histogram.py:21-95).
THEOREM EfficientIsHistogram == TelemetrySpec => RefinesHistogram
<1> DEFINE view == [k \in DOMAIN fast |-> Plainly(fast[k], observed[k])]
<1>1. TelemetryInit => FastStrong /\ Fast!Plain!Init
  BY FastInitial DEF TelemetryInit
<1>2. FastStrong /\ [TelemetryNext]_<<part, keeping, learning>>
        => FastStrong' /\ [Fast!Plain!Next]_<<view, observed>>
  BY StepOfPart, FastStep
<1>3. TelemetrySpec => TelemetryInit /\ [][TelemetryNext]_<<part, keeping, learning>>
  BY PTL DEF TelemetrySpec
<1>4. Fast!Plain!Init /\ [][Fast!Plain!Next]_<<view, observed>> => RefinesHistogram
  BY PTL DEF RefinesHistogram, Fast!RefinesHistogram, Fast!Plain!Spec, Plainly
<1> QED
  BY <1>1, <1>2, <1>3, <1>4, PTL

-----------------------------------------------------------------------------
LEMMA ValuesAreNumbers ==
  ASSUME NEW s \in Seq(Values)
  PROVE  s \in Seq(Int)
<1>1. Len(s) \in Nat /\ s \in [1..Len(s) -> Values]
  OBVIOUS
<1>2. Values \subseteq Int
  BY HistogramConstants
<1>3. s \in [1..Len(s) -> Int]
  BY <1>1, <1>2
<1> QED
  BY <1>1, <1>3

\* A value counts in the buckets that reach it.
LEMMA ExactAppend ==
  ASSUME NEW e, NEW s \in Seq(Values), Exact(e, s), NEW v \in Values,
         NEW d, d.total = e.total + 1, d.sum = e.sum + v,
         \A b \in Bounds : d.counts[b] = e.counts[b] + IF v <= b THEN 1 ELSE 0
  PROVE  Exact(d, Append(s, v))
<1>1. s \in Seq(Int) /\ v \in Int /\ Bounds \subseteq Int /\ Len(Append(s, v)) = Len(s) + 1
  BY HistogramConstants, ValuesAreNumbers
<1>2. Total(Append(s, v)) = Total(s) + v
  BY <1>1, TotalAppend
<1>3. ASSUME NEW b \in Bounds
      PROVE  d.counts[b] = Cardinality(UpTo(Append(s, v), b))
  <2>1. Cardinality(UpTo(Append(s, v), b))
          = Cardinality(UpTo(s, b)) + IF v <= b THEN 1 ELSE 0
    BY <1>1, UpToAppend
  <2>2. e.counts[b] = Cardinality(UpTo(s, b))
    BY DEF Exact
  <2> QED
    BY <2>1, <2>2
<1> QED
  BY <1>1, <1>2, <1>3 DEF Exact

LEMMA NothingExact ==
  ASSUME NEW e, e.total = 0, e.sum = 0, \A b \in Bounds : e.counts[b] = 0
  PROVE  Exact(e, <<>>)
<1>1. <<>> \in Seq(Int) /\ Len(<<>>) = 0
  OBVIOUS
<1>2. Total(<<>>) = 0
  BY <1>1, TotalTyped
<1>3. \A b \in Bounds : UpTo(<<>>, b) = {}
  BY DEF UpTo
<1>4. Cardinality({}) = 0
  BY FS_EmptySet
<1> QED
  BY <1>1, <1>2, <1>3, <1>4 DEF Exact

\* The percentile formulas of the model are those of the lemmas.
LEMMA FormulasAgree ==
  ASSUME NEW s \in Seq(Int), NEW p
  PROVE  /\ Simple!Interpolated(s, p) = Interpolation(s, p)
         /\ Simple!Weighted(s, p) = Weighing(s, p)
<1>1. Simple!Ascending(s) = Ranked(s)
  <2>1. \A x : /\ Simple!Below(s, x) = Cardinality(Under(s, x))
              /\ Simple!NoMore(s, x) = Cardinality(UpTo(s, x))
    BY HistogramsAgree DEF Simple!Below, Simple!NoMore, Under, UpTo
  <2>2. Simple!Range(s) = Members(s)
    BY DEF Simple!Range, Members
  <2> QED
    BY <2>1, <2>2 DEF Simple!Ascending, Ranked
<1>2. PICK r, n, k : r = Ranked(s) /\ n = Len(s) /\ k = p * (n - 1)
  OBVIOUS
<1>3. Simple!Ascending(s) = r /\ Len(r) = n
  BY <1>1, <1>2, RankedTyped
<1>4. Simple!Interpolated(s, p) = Interpolates(r, n, k)
  BY ONLY <1>2, <1>3 DEF Simple!Interpolated, Simple!Position, Interpolates
<1>5. Simple!Weighted(s, p) = Weighs(r, k)
  BY ONLY <1>2, <1>3 DEF Simple!Weighted, Weighs, WeighsAt
<1> QED
  BY <1>2, <1>4, <1>5 DEF Interpolation, Weighing

LEMMA PercentilesOfValues ==
  ASSUME NEW s \in Seq(Values), s # <<>>
  PROVE  Simple!PercentilesAgree(s, {0, 50, 95, 100})
<1>1. s \in Seq(Int)
  BY ValuesAreNumbers
<1>2. ASSUME NEW p \in 0..100
      PROVE  /\ Simple!Weighted(s, p) = Simple!Interpolated(s, p)
             /\ Simple!AtMost(s, Simple!Interpolated(s, p)) > (p * (Len(s) - 1)) \div 100
             /\ Simple!AtLeast(s, Simple!Interpolated(s, p)) > ((100 - p) * (Len(s) - 1)) \div 100
             /\ \A q \in 0..100 : p <= q => Simple!Interpolated(s, p) <= Simple!Interpolated(s, q)
  <2>1. PICK x : x = Simple!Interpolated(s, p) /\ x = Interpolation(s, p)
    BY <1>1, FormulasAgree
  <2>2. /\ Weighing(s, p) = x
        /\ Cardinality({i \in DOMAIN s : 100 * s[i] <= x}) > (p * (Len(s) - 1)) \div 100
        /\ Cardinality({i \in DOMAIN s : 100 * s[i] >= x}) > ((100 - p) * (Len(s) - 1)) \div 100
        /\ \A q \in 0..100 : p <= q => x <= Interpolation(s, q)
    <3>1. /\ Weighing(s, p) = Interpolation(s, p)
          /\ Cardinality({i \in DOMAIN s : 100 * s[i] <= Interpolation(s, p)})
               > (p * (Len(s) - 1)) \div 100
          /\ Cardinality({i \in DOMAIN s : 100 * s[i] >= Interpolation(s, p)})
               > ((100 - p) * (Len(s) - 1)) \div 100
          /\ \A q \in 0..100 : p <= q => Interpolation(s, p) <= Interpolation(s, q)
      BY <1>1, <1>2, PercentileFacts, ZenonT(60)
    <3> QED
      BY <2>1, <3>1, Zenon
  <2>3. /\ Simple!AtMost(s, x) = Cardinality({i \in DOMAIN s : 100 * s[i] <= x})
        /\ Simple!AtLeast(s, x) = Cardinality({i \in DOMAIN s : 100 * s[i] >= x})
    BY HistogramsAgree DEF Simple!AtMost, Simple!AtLeast
  <2> QED
    BY <1>1, <2>1, <2>2, <2>3, FormulasAgree
<1>3. {0, 50, 95, 100} \subseteq 0..100
  OBVIOUS
<1> QED
  BY <1>2, <1>3, ZenonT(60) DEF Simple!PercentilesAgree

\* Every known set of labels has values; an unknown one, whose values were dropped at the
\* limit or that no one observed, has none.
SimpleStrong ==
  /\ Simple!TypeOK /\ IsFiniteSet(DOMAIN hist)
  /\ \A k \in DOMAIN hist : /\ Exact(hist[k], seen[k]) /\ seen[k] # <<>>
                            /\ hist[k].recent = LatestOf(seen[k], MaxObservations)
  /\ \A k \in Keys \ DOMAIN hist : seen[k] = <<>>

LEMMA SimpleEmpty ==
  ASSUME NEW h, NEW o, h = [k \in {} |-> Simple!NewEntry], o = [k \in Keys |-> <<>>]
  PROVE  /\ DOMAIN h = {} /\ IsFiniteSet(DOMAIN h) /\ Cardinality(DOMAIN h) = 0
         /\ o \in [Keys -> Seq(Values)] /\ \A k \in Keys : o[k] = <<>>
  BY FS_EmptySet

LEMMA SimpleInitial == Simple!Init => SimpleStrong
<1> SUFFICES ASSUME Simple!Init PROVE SimpleStrong
  OBVIOUS
<1>1. /\ DOMAIN hist = {} /\ IsFiniteSet(DOMAIN hist) /\ Cardinality(DOMAIN hist) = 0
      /\ seen \in [Keys -> Seq(Values)] /\ \A k \in Keys : seen[k] = <<>>
  BY SimpleEmpty DEF Simple!Init
<1>2. 0 <= MaxCardinality
  BY HistogramConstants
<1> QED
  BY <1>1, <1>2, HistogramsAgree DEF SimpleStrong, Simple!TypeOK

LEMMA SimpleObserve ==
  ASSUME SimpleStrong, NEW k \in Keys, NEW v \in Values, Simple!Observe(k, v)
  PROVE  SimpleStrong'
<1> DEFINE e == IF Simple!Known(k) THEN hist[k] ELSE Simple!NewEntry
           o == seen[k]
<1>1. /\ DOMAIN hist \subseteq Keys /\ Cardinality(DOMAIN hist) <= MaxCardinality
      /\ \A j \in DOMAIN hist : hist[j] \in Simple!Entry
      /\ seen \in [Keys -> Seq(Values)] /\ IsFiniteSet(DOMAIN hist)
  BY HistogramsAgree DEF SimpleStrong, Simple!TypeOK
<1>2. /\ Simple!Known(k) \/ Cardinality(DOMAIN hist) < MaxCardinality
      /\ hist' = [j \in DOMAIN hist \cup {k} |-> IF j = k THEN Simple!Counted(e, v) ELSE hist[j]]
      /\ seen' = [seen EXCEPT ![k] = Append(@, v)]
  BY HistogramsAgree DEF Simple!Observe
<1>3. v \in Int /\ v \in Nat /\ MaxObservations \in Nat \ {0} /\ MaxCardinality \in Nat
  BY HistogramConstants
<1>4. o \in Seq(Values)
  BY <1>1
<1>5. /\ e \in Simple!Entry /\ Exact(e, o) /\ e.recent = LatestOf(o, MaxObservations)
  <2>1. CASE k \in DOMAIN hist
    BY <1>1, <2>1 DEF SimpleStrong, Simple!Known
  <2>2. CASE k \notin DOMAIN hist
    <3>1. o = <<>> /\ e = Simple!NewEntry
      BY <2>2 DEF SimpleStrong, Simple!Known
    <3>2. /\ e = [counts |-> [b \in Bounds |-> 0], sum |-> 0, total |-> 0, recent |-> <<>>]
      BY <3>1 DEF Simple!NewEntry
    <3>3. e \in Simple!Entry
      <4>1. [b \in Bounds |-> 0] \in [Bounds -> Nat] /\ <<>> \in Seq(Values)
        OBVIOUS
      <4> HIDE DEF e
      <4> QED
        BY <3>2, <4>1 DEF Simple!Entry
    <3>4. Exact(e, <<>>)
      <4>1. e.total = 0 /\ e.sum = 0 /\ \A b \in Bounds : e.counts[b] = 0
        BY <3>2
      <4> HIDE DEF e
      <4> QED
        BY <4>1, NothingExact
    <3>5. LatestOf(o, MaxObservations) = <<>>
      <4>1. Len(o) = 0
        BY <3>1
      <4>2. LatestOf(o, MaxObservations) \in Seq(Values)
        BY <1>3, <1>4, LatestEnds
      <4>3. Len(LatestOf(o, MaxObservations))
              = IF Len(o) > MaxObservations THEN MaxObservations ELSE Len(o)
        BY <1>3, <1>4, LatestEnds
      <4> QED
        BY <1>3, <4>1, <4>2, <4>3
    <3> QED
      BY <3>1, <3>2, <3>3, <3>4, <3>5
  <2> QED
    BY <2>1, <2>2
<1> HIDE DEF e, o
<1> DEFINE c == [b \in Bounds |-> e.counts[b] + IF Simple!Counts(v, b) THEN 1 ELSE 0]
<1>6. Simple!Counted(e, v) =
        [counts |-> c, sum |-> e.sum + v, total |-> e.total + 1,
         recent |-> LatestOf(Append(e.recent, v), MaxObservations)]
  BY HistogramsAgree DEF Simple!Counted
<1>7. \A b \in Bounds : c[b] = e.counts[b] + IF v <= b THEN 1 ELSE 0
  BY DEF Simple!Counts
<1>8. PICK d : /\ d = Simple!Counted(e, v) /\ d.counts = c /\ d.sum = e.sum + v
               /\ d.total = e.total + 1
               /\ d.recent = LatestOf(Append(e.recent, v), MaxObservations)
               /\ d = [counts |-> d.counts, sum |-> d.sum, total |-> d.total, recent |-> d.recent]
  BY <1>6
<1>9. Exact(d, Append(o, v))
  <2> HIDE DEF c
  <2> QED
    BY <1>4, <1>5, <1>7, <1>8, ExactAppend
<1>10. d.recent = LatestOf(Append(o, v), MaxObservations)
  BY <1>3, <1>4, <1>5, <1>8, LatestAppend
<1>11. Append(o, v) \in Seq(Values) /\ Append(o, v) # <<>>
  <2>1. Append(o, v) \in Seq(Values) /\ Len(Append(o, v)) = Len(o) + 1 /\ Len(o) \in Nat
    BY <1>4
  <2> QED
    BY <2>1
<1>12. d \in Simple!Entry
  <2>1. c \in [Bounds -> Nat] /\ e.sum \in Nat /\ e.total \in Nat
    BY <1>5 DEF Simple!Entry
  <2>2. LatestOf(Append(o, v), MaxObservations) \in Seq(Values)
    BY <1>3, <1>11, LatestEnds
  <2> HIDE DEF c
  <2> QED
    BY <1>3, <1>8, <1>10, <2>1, <2>2, SMTT(40) DEF Simple!Entry
<1> HIDE DEF c
<1>13. /\ DOMAIN hist' = DOMAIN hist \cup {k} /\ hist'[k] = d
       /\ \A j \in DOMAIN hist : j # k => hist'[j] = hist[j]
       /\ seen' \in [Keys -> Seq(Values)] /\ seen'[k] = Append(o, v)
       /\ \A j \in Keys : j # k => seen'[j] = seen[j]
  BY <1>1, <1>2, <1>8, <1>11 DEF o
<1>14. IsFiniteSet(DOMAIN hist') /\ Cardinality(DOMAIN hist') <= MaxCardinality
  <2>1. CASE k \in DOMAIN hist
    <3>1. DOMAIN hist' = DOMAIN hist
      BY <1>13, <2>1
    <3> QED
      BY <1>1, <3>1
  <2>2. CASE k \notin DOMAIN hist
    <3>1. Cardinality(DOMAIN hist) < MaxCardinality /\ Cardinality(DOMAIN hist) \in Nat
      BY <1>1, <1>2, <2>2, FS_CardinalityType DEF Simple!Known
    <3>2. /\ IsFiniteSet(DOMAIN hist \cup {k})
          /\ Cardinality(DOMAIN hist \cup {k}) = Cardinality(DOMAIN hist) + 1
      BY <1>1, <2>2, OneMore
    <3> QED
      BY <1>3, <1>13, <3>1, <3>2
  <2> QED
    BY <2>1, <2>2
<1>15. Simple!TypeOK'
  BY <1>1, <1>12, <1>13, <1>14, HistogramsAgree DEF Simple!TypeOK
<1>16. \A j \in DOMAIN hist' :
         /\ Exact(hist'[j], seen'[j]) /\ seen'[j] # <<>>
         /\ hist'[j].recent = LatestOf(seen'[j], MaxObservations)
  BY <1>1, <1>9, <1>10, <1>11, <1>13 DEF SimpleStrong
<1>17. \A j \in Keys \ DOMAIN hist' : seen'[j] = <<>>
  BY <1>13 DEF SimpleStrong
<1> QED
  BY <1>14, <1>15, <1>16, <1>17 DEF SimpleStrong, Exact

LEMMA SimpleStep == SimpleStrong /\ [Simple!Next]_simpleVars => SimpleStrong'
<1> SUFFICES ASSUME SimpleStrong, [Simple!Next]_simpleVars PROVE SimpleStrong'
  OBVIOUS
<1>1. ASSUME NEW k \in Keys, NEW v \in Values, Simple!Observe(k, v) PROVE SimpleStrong'
  BY <1>1, SimpleObserve
<1>2. ASSUME Simple!Reset PROVE SimpleStrong'
  <2>1. /\ DOMAIN hist' = {} /\ IsFiniteSet(DOMAIN hist') /\ Cardinality(DOMAIN hist') = 0
        /\ seen' \in [Keys -> Seq(Values)] /\ \A k \in Keys : seen'[k] = <<>>
    BY <1>2, SimpleEmpty DEF Simple!Reset
  <2>2. 0 <= MaxCardinality
    BY HistogramConstants
  <2> QED
    BY <2>1, <2>2, HistogramsAgree DEF SimpleStrong, Simple!TypeOK
<1>3. CASE UNCHANGED simpleVars
  <2>1. hist' = hist /\ seen' = seen
    BY <1>3 DEF simpleVars
  <2> QED
    BY <2>1 DEF SimpleStrong, Simple!TypeOK, Exact
<1> QED
  BY <1>1, <1>2, <1>3 DEF Simple!Next

LEMMA SimpleImplies == SimpleStrong => Simple!HistogramInv
<1> SUFFICES ASSUME SimpleStrong, NEW k \in DOMAIN hist
             PROVE  /\ hist[k].total = Len(seen[k]) /\ hist[k].sum = Simple!SumFunction(seen[k])
                    /\ \A b \in Bounds : hist[k].counts[b] = Simple!Within(seen[k], b)
                    /\ hist[k].recent = Simple!Latest(seen[k], MaxObservations)
                    /\ Simple!PercentilesAgree(hist[k].recent, {0, 50, 95, 100})
  BY DEF SimpleStrong, Simple!HistogramInv, Simple!CountsAreExact
<1>1. /\ Exact(hist[k], seen[k]) /\ seen[k] # <<>> /\ seen[k] \in Seq(Values)
      /\ hist[k].recent = LatestOf(seen[k], MaxObservations)
  BY DEF SimpleStrong, Simple!TypeOK
<1>2. /\ hist[k].total = Len(seen[k]) /\ hist[k].sum = Simple!SumFunction(seen[k])
      /\ \A b \in Bounds : hist[k].counts[b] = Simple!Within(seen[k], b)
  BY <1>1, HistogramsAgree DEF Exact, Simple!Within, UpTo
<1>3. hist[k].recent \in Seq(Values) /\ hist[k].recent # <<>>
  <2>1. PICK s \in Seq(Values) : s = seen[k] /\ s # <<>>
    BY <1>1
  <2>2. MaxObservations \in Nat \ {0}
    BY HistogramConstants
  <2>3. LatestOf(s, MaxObservations) \in Seq(Values)
    BY <2>2, LatestEnds
  <2>4. Len(LatestOf(s, MaxObservations))
          = IF Len(s) > MaxObservations THEN MaxObservations ELSE Len(s)
    BY <2>2, LatestEnds
  <2>5. Len(s) \in Nat \ {0}
    BY <2>1
  <2>6. LatestOf(s, MaxObservations) # <<>>
    BY <2>2, <2>4, <2>5
  <2> QED
    BY <1>1, <2>1, <2>3, <2>6
<1> QED
  BY <1>1, <1>2, <1>3, HistogramsAgree, PercentilesOfValues

-----------------------------------------------------------------------------
\* The efficient histogram keeps the extremes of the values.
Spans(e, s) ==
  /\ e.min \in Members(s) /\ e.max \in Members(s)
  /\ \A x \in Members(s) : e.min <= x /\ x <= e.max

FastExact == \A k \in DOMAIN fast : Exact(fast[k], observed[k]) /\ Spans(fast[k], observed[k])

LEMMA FastExactStep ==
  FastStrong /\ FastExact /\ [Fast!Next]_fastVars => FastExact'
<1> SUFFICES ASSUME FastStrong, FastExact, [Fast!Next]_fastVars PROVE FastExact'
  OBVIOUS
<1>1. CASE UNCHANGED fastVars
  <2>1. fast' = fast /\ observed' = observed
    BY <1>1 DEF fastVars
  <2> QED
    BY <2>1 DEF FastExact, Exact, Spans
<1>2. ASSUME NEW k \in Keys, NEW v \in Values, Fast!Observe(k, v) PROVE FastExact'
  <2> DEFINE e == IF k \in DOMAIN fast THEN fast[k] ELSE Fast!Fresh(v)
             s == observed[k]
  <2>1. /\ DOMAIN fast' = DOMAIN fast \cup {k} /\ observed'[k] = Append(s, v)
        /\ fast'[k] = Fast!Counted(e, v)
        /\ \A j \in DOMAIN fast : j # k => fast'[j] = fast[j] /\ observed'[j] = observed[j]
    BY <1>2, FastObserve
  <2>2. s \in Seq(Values) /\ v \in Int /\ Members(s) \subseteq Int
    <3>1. s \in Seq(Values) /\ Values \subseteq Int
      BY HistogramConstants DEF FastStrong
    <3> HIDE DEF s
    <3> QED
      BY <3>1, PlacesIn
  <2>3. Exact(e, s) /\ (s = <<>> => e.min = v /\ e.max = v) /\ (s # <<>> => Spans(e, s))
    <3>1. CASE k \in DOMAIN fast
      <4>1. Exact(fast[k], s) /\ Spans(fast[k], s)
        BY <3>1 DEF FastExact
      <4>2. s # <<>>
        BY <4>1 DEF Spans, Members
      <4> QED
        BY <3>1, <4>1, <4>2
    <3>2. CASE k \notin DOMAIN fast
      <4>1. s = <<>> /\ e = Fast!Fresh(v)
        BY <3>2 DEF FastStrong
      <4>2. e = [counts |-> [b \in Bounds |-> 0], sum |-> 0, total |-> 0, min |-> v, max |-> v]
        BY <4>1 DEF Fast!Fresh
      <4>3. /\ e.total = 0 /\ e.sum = 0 /\ e.min = v /\ e.max = v
            /\ \A b \in Bounds : e.counts[b] = 0
        BY <4>2
      <4> HIDE DEF e
      <4> QED
        BY <4>1, <4>3, NothingExact
    <3> QED
      BY <3>1, <3>2
  <2> HIDE DEF e, s
  <2>4. PICK hit : /\ hit = {b \in Bounds : v <= b}
                   /\ hit = {Fast!BucketList[i] : i \in (Fast!FirstBucket(v) + 1)..Len(Fast!BucketList)}
    BY <2>2, SearchFinds
  <2>5. Fast!Counted(e, v) =
          [counts |-> [b \in Bounds |-> e.counts[b] + IF b \in hit THEN 1 ELSE 0],
           sum    |-> e.sum + v,
           total  |-> e.total + 1,
           min    |-> IF v < e.min THEN v ELSE e.min,
           max    |-> IF v > e.max THEN v ELSE e.max]
    BY <2>4, Zenon DEF Fast!Counted
  <2>6. PICK d : /\ d = Fast!Counted(e, v) /\ d.total = e.total + 1 /\ d.sum = e.sum + v
                 /\ \A b \in Bounds : d.counts[b] = e.counts[b] + IF v <= b THEN 1 ELSE 0
                 /\ d.min = (IF v < e.min THEN v ELSE e.min)
                 /\ d.max = (IF v > e.max THEN v ELSE e.max)
    BY <2>4, <2>5
  <2>7. Exact(d, Append(s, v))
    BY <1>2, <2>2, <2>3, <2>6, ExactAppend
  <2>8. Spans(d, Append(s, v))
    <3>1. Members(Append(s, v)) = Members(s) \cup {v}
      BY <2>2, MembersAppend
    <3>2. CASE s = <<>>
      <4>1. Members(s) = {}
        BY <3>2 DEF Members
      <4> QED
        BY <2>2, <2>3, <2>6, <3>1, <3>2, <4>1 DEF Spans
    <3>3. CASE s # <<>>
      BY <2>2, <2>3, <2>6, <3>1, <3>3 DEF Spans
    <3> QED
      BY <3>2, <3>3
  <2>9. \A j \in DOMAIN fast' : Exact(fast'[j], observed'[j]) /\ Spans(fast'[j], observed'[j])
    <3> SUFFICES ASSUME NEW j \in DOMAIN fast'
                 PROVE  Exact(fast'[j], observed'[j]) /\ Spans(fast'[j], observed'[j])
      OBVIOUS
    <3>1. CASE j = k
      BY <2>1, <2>6, <2>7, <2>8, <3>1
    <3>2. CASE j # k
      BY <2>1, <3>2 DEF FastExact
    <3> QED
      BY <3>1, <3>2
  <2> QED
    BY <2>9 DEF FastExact, Exact, Spans
<1> QED
  BY <1>1, <1>2 DEF Fast!Next

LEMMA FastImplies == FastStrong /\ FastExact => Fast!ExportIsCumulative
<1> SUFFICES ASSUME FastStrong, FastExact, NEW k \in DOMAIN fast
             PROVE  /\ \A a, b \in Bounds : a <= b => fast[k].counts[a] <= fast[k].counts[b]
                    /\ \A b \in Bounds : fast[k].counts[b] <= fast[k].total
                    /\ fast[k].min = Fast!Min(Fast!Range(observed[k]))
                    /\ fast[k].max = Fast!Max(Fast!Range(observed[k]))
  BY DEF Fast!ExportIsCumulative, Fast!BucketLine
<1>0. PICK e : e = fast[k]
  OBVIOUS
<1>1. PICK s \in Seq(Values) : e = fast[k] /\ s = observed[k] /\ Exact(e, s) /\ Spans(e, s)
  BY <1>0 DEF FastStrong, FastExact
<1>2. s \in Seq(Int) /\ Bounds \subseteq Int /\ \A i \in DOMAIN s : s[i] \in Int
  <2>1. s \in Seq(Int) /\ Bounds \subseteq Int
    BY ValuesAreNumbers, HistogramConstants
  <2> QED
    BY <2>1, Numbers
<1>3. ASSUME NEW a \in Bounds, NEW b \in Bounds, a <= b PROVE e.counts[a] <= e.counts[b]
  <2>1. UpTo(s, a) \subseteq UpTo(s, b)
    BY <1>2, <1>3 DEF UpTo
  <2>2. IsFiniteSet(UpTo(s, b))
    BY <1>2, PlacesFinite DEF UpTo
  <2>3. Cardinality(UpTo(s, a)) <= Cardinality(UpTo(s, b))
    BY <2>1, <2>2, FS_Subset
  <2> QED
    BY <1>1, <2>3 DEF Exact
<1>4. ASSUME NEW b \in Bounds PROVE e.counts[b] <= e.total
  <2>1. Cardinality(UpTo(s, b)) \in 0..Len(s) /\ Len(s) \in Nat
    <3>1. s \in Seq(Int) /\ b \in Int
      BY <1>2
    <3> QED
      BY <3>1, PlacesFinite DEF UpTo
  <2> QED
    BY <1>1, <2>1 DEF Exact
<1>5. Fast!Range(s) = Members(s) /\ Members(s) \subseteq Int
  BY <1>2 DEF Fast!Range, Members
<1>6. e.min = Fast!Min(Members(s)) /\ e.max = Fast!Max(Members(s))
  <2> DEFINE Least(x) == \A y \in Members(s) : x <= y
             Most(x) == \A y \in Members(s) : x >= y
  <2>1. e.min \in Members(s) /\ Least(e.min) /\ e.max \in Members(s) /\ Most(e.max)
    BY <1>1, <1>5 DEF Spans
  <2>2. Fast!Min(Members(s)) = CHOOSE x \in Members(s) : Least(x)
    BY DEF Fast!Min
  <2>3. Fast!Max(Members(s)) = CHOOSE x \in Members(s) : Most(x)
    BY DEF Fast!Max
  <2>4. /\ \A x \in Members(s) : Least(x) => x = e.min
        /\ \A x \in Members(s) : Most(x) => x = e.max
    BY <1>5, <2>1
  <2> HIDE DEF Least, Most
  <2> QED
    BY <2>1, <2>2, <2>3, <2>4
<1> QED
  BY <1>1, <1>3, <1>4, <1>5, <1>6

\* A bucket counts the values at or below its bound, out of all that were observed, and
\* every percentile splits the latest values; the efficient histogram exports the same
\* counts, with the extremes of all the values (metrics.py:154-206,
\* efficient_histogram.py:62-113).
THEOREM HistogramsAreExact == TelemetrySpec => []HistogramInv
<1> DEFINE Inv == (part = "histogram" => SimpleStrong) /\ FastStrong /\ FastExact
<1>1. TelemetryInit => Inv
  <2>1. Fast!Init => FastExact
    BY DEF Fast!Init, FastExact
  <2> QED
    BY <2>1, SimpleInitial, FastInitial DEF TelemetryInit
<1>2. Inv /\ [TelemetryNext]_<<part, keeping, learning>> => Inv'
  BY StepOfPart, SimpleStep, FastStep, FastExactStep
<1>3. Inv => HistogramInv
  BY SimpleImplies, FastImplies DEF HistogramInv
<1> HIDE DEF Inv
<1> QED
  BY <1>1, <1>2, <1>3, PTL DEF TelemetrySpec

-----------------------------------------------------------------------------
\* What the tuners' constants are, and the library's operators in each of them.
LEMMA TunerConstants ==
  /\ Latencies \subseteq Nat /\ WindowSize \in Nat \ {0} /\ MinSamples \in Nat \ {0}
  /\ MaxSamples \in Nat /\ MaxTime \in Nat
  /\ Durations \subseteq Nat /\ HistorySize \in Nat \ {0} /\ MaxReadings \in Nat
  /\ Attempts \subseteq Nat
  BY TelemetryAssumption
     DEF Adapt!TimeoutAssumption, Health!TunerAssumption, Retry!OptimizerAssumption

LEMMA SizesAgree ==
  /\ \A S : /\ Adapt!Cardinality(S) = Cardinality(S) /\ Health!Cardinality(S) = Cardinality(S)
            /\ Retry!Cardinality(S) = Cardinality(S)
  /\ \A s, S : /\ Adapt!Keeping(s, S) = KeptOf(s, S, Len(s))[Len(s)]
               /\ Retry!Keeping(s, S) = KeptOf(s, S, Len(s))[Len(s)]
<1>1. \A S : Adapt!Cardinality(S) = Cardinality(S)
  BY DEF Adapt!Cardinality, Cardinality
<1>2. \A S : Health!Cardinality(S) = Cardinality(S)
  BY DEF Health!Cardinality, Cardinality
<1>3. \A S : Retry!Cardinality(S) = Cardinality(S)
  BY DEF Retry!Cardinality, Cardinality
<1>4. \A s, S : Adapt!Keeping(s, S) = KeptOf(s, S, Len(s))[Len(s)]
  BY DEF Adapt!Keeping, KeptOf, Kept
<1>5. \A s, S : Retry!Keeping(s, S) = KeptOf(s, S, Len(s))[Len(s)]
  BY DEF Retry!Keeping, KeptOf, Kept
<1> QED
  BY <1>1, <1>2, <1>3, <1>4, <1>5

\* The sorted numbers, and the formulas of the percentiles, are those of the lemmas.
LEMMA RanksAgree ==
  ASSUME NEW s
  PROVE  /\ Adapt!Ascending(s) = Ranked(s) /\ Health!Ascending(s) = Ranked(s)
         /\ Retry!Ascending(s) = Ranked(s)
<1>1. Adapt!Ascending(s) = Ranked(s)
  <2>1. \A x : /\ Adapt!Below(s, x) = Cardinality(Under(s, x))
              /\ Adapt!NoMore(s, x) = Cardinality(UpTo(s, x))
    BY SizesAgree DEF Adapt!Below, Adapt!NoMore, Under, UpTo
  <2>2. Adapt!Range(s) = Members(s)
    BY DEF Adapt!Range, Members
  <2> QED
    BY <2>1, <2>2 DEF Adapt!Ascending, Ranked
<1>2. Health!Ascending(s) = Ranked(s)
  <2>1. \A x : /\ Health!Below(s, x) = Cardinality(Under(s, x))
              /\ Health!NoMore(s, x) = Cardinality(UpTo(s, x))
    BY SizesAgree DEF Health!Below, Health!NoMore, Under, UpTo
  <2>2. Health!Range(s) = Members(s)
    BY DEF Health!Range, Members
  <2> QED
    BY <2>1, <2>2 DEF Health!Ascending, Ranked
<1>3. Retry!Ascending(s) = Ranked(s)
  <2>1. \A x : /\ Retry!Below(s, x) = Cardinality(Under(s, x))
              /\ Retry!NoMore(s, x) = Cardinality(UpTo(s, x))
    BY SizesAgree DEF Retry!Below, Retry!NoMore, Under, UpTo
  <2>2. Retry!Range(s) = Members(s)
    BY DEF Retry!Range, Members
  <2> QED
    BY <2>1, <2>2 DEF Retry!Ascending, Ranked
<1> QED
  BY <1>1, <1>2, <1>3

LEMMA TunersFormulas ==
  ASSUME NEW s \in Seq(Int), NEW p
  PROVE  /\ Adapt!Interpolated(s, p) = Interpolation(s, p)
         /\ Adapt!Weighted(s, p) = Weighing(s, p) /\ Health!Weighted(s, p) = Weighing(s, p)
<1>1. PICK r, n, k : r = Ranked(s) /\ n = Len(s) /\ k = p * (n - 1)
  OBVIOUS
<1>2. Adapt!Ascending(s) = r /\ Health!Ascending(s) = r /\ Len(r) = n
  BY <1>1, RanksAgree, RankedTyped
<1>3. Adapt!Interpolated(s, p) = Interpolates(r, n, k)
  BY ONLY <1>1, <1>2 DEF Adapt!Interpolated, Adapt!Position, Interpolates
<1>4. Adapt!Weighted(s, p) = Weighs(r, k)
  BY ONLY <1>1, <1>2 DEF Adapt!Weighted, Weighs, WeighsAt
<1>5. Health!Weighted(s, p) = Weighs(r, k)
  BY ONLY <1>1, <1>2 DEF Health!Weighted, Weighs, WeighsAt
<1> QED
  BY <1>1, <1>3, <1>4, <1>5 DEF Interpolation, Weighing

\* The greater and the less of two numbers.
LEMMA LimitsAre ==
  ASSUME NEW i \in Int, NEW j \in Int
  PROVE  /\ Health!Max({i, j}) = IF i >= j THEN i ELSE j
         /\ Adapt!Max({i, j}) = IF i >= j THEN i ELSE j
         /\ Retry!Max({i, j}) = IF i >= j THEN i ELSE j
         /\ Adapt!Min({i, j}) = IF i <= j THEN i ELSE j
         /\ Retry!Min({i, j}) = IF i <= j THEN i ELSE j
<1> DEFINE Most(x) == \A y \in {i, j} : x >= y
           Least(x) == \A y \in {i, j} : x <= y
           m == IF i >= j THEN i ELSE j
           l == IF i <= j THEN i ELSE j
<1>1. /\ m \in {i, j} /\ Most(m) /\ \A x \in {i, j} : Most(x) => x = m
      /\ l \in {i, j} /\ Least(l) /\ \A x \in {i, j} : Least(x) => x = l
  OBVIOUS
<1>2. /\ Health!Max({i, j}) = CHOOSE x \in {i, j} : Most(x)
      /\ Adapt!Max({i, j}) = CHOOSE x \in {i, j} : Most(x)
      /\ Retry!Max({i, j}) = CHOOSE x \in {i, j} : Most(x)
  BY DEF Health!Max, Adapt!Max, Retry!Max
<1>3. /\ Adapt!Min({i, j}) = CHOOSE x \in {i, j} : Least(x)
      /\ Retry!Min({i, j}) = CHOOSE x \in {i, j} : Least(x)
  BY DEF Adapt!Min, Retry!Min
<1>4. (CHOOSE x \in {i, j} : Most(x)) = m /\ (CHOOSE x \in {i, j} : Least(x)) = l
  <2> HIDE DEF Most, Least, m, l
  <2> QED
    BY <1>1
<1> QED
  BY <1>2, <1>3, <1>4

-----------------------------------------------------------------------------
\* The threshold tuner: its thresholds follow from the window alone.
LEMMA HealthTyped == Health!Init => Health!TypeOK
  BY TunerConstants DEF Health!Init, Health!TypeOK

LEMMA HealthStep == Health!TypeOK /\ [Health!Next]_historyVars => Health!TypeOK'
<1> SUFFICES ASSUME Health!TypeOK, [Health!Next]_historyVars PROVE Health!TypeOK'
  OBVIOUS
<1>1. /\ durations \in Seq(Durations) /\ Len(durations) <= HistorySize
      /\ successes \in Nat /\ failures \in Nat /\ HistorySize \in Nat \ {0}
  BY TunerConstants DEF Health!TypeOK
<1>2. ASSUME NEW d \in Durations, NEW ok \in BOOLEAN, Health!RecordCheck(d, ok)
      PROVE  Health!TypeOK'
  <2>1. durations' \in Seq(Durations) /\ Len(durations') <= HistorySize
    <3>1. durations' = LET s == Append(durations, d)
                       IN  IF Len(s) > HistorySize THEN Tail(s) ELSE s
      BY <1>2 DEF Health!RecordCheck
    <3> QED
      BY <1>1, <3>1, WindowIs
  <2>2. successes' \in Nat /\ failures' \in Nat
    BY <1>1, <1>2 DEF Health!RecordCheck
  <2> QED
    BY <2>1, <2>2 DEF Health!TypeOK
<1>3. CASE Health!Reset
  BY <1>1, <1>3 DEF Health!Reset, Health!TypeOK
<1>4. CASE UNCHANGED historyVars
  BY <1>1, <1>4 DEF historyVars, Health!TypeOK
<1> QED
  BY <1>2, <1>3, <1>4 DEF Health!Next

LEMMA ThresholdsFit == Health!TypeOK => Health!ThresholdsInv
<1> SUFFICES ASSUME Health!TypeOK PROVE Health!ThresholdsInv
  OBVIOUS
<1> DEFINE w(p) == Weighing(durations, p)
<1>1. durations \in Seq(Int) /\ \A i \in DOMAIN durations : durations[i] >= 0
  <2>1. durations \in Seq(Durations) /\ Durations \subseteq Nat
    BY TunerConstants DEF Health!TypeOK
  <2>2. \A i \in DOMAIN durations : durations[i] \in Nat
    <3>1. \A i \in DOMAIN durations : durations[i] \in Durations
      BY <2>1
    <3> QED
      BY <2>1, <3>1
  <2>3. durations \in Seq(Int)
    <3>1. durations \in [1..Len(durations) -> Int] /\ Len(durations) \in Nat
      BY <2>1, <2>2
    <3> QED
      BY <3>1, FunctionIsSeq
  <2> QED
    BY <2>2, <2>3
<1>2. CASE ~Health!Learnt
  <2>1. Health!DegradedAt = 1000 /\ Health!UnhealthyAt = 5000
    BY <1>2 DEF Health!DegradedAt, Health!UnhealthyAt
  <2> QED
    BY <1>2, <2>1 DEF Health!ThresholdsInv
<1>3. CASE Health!Learnt
  <2>1. durations # <<>>
    <3>1. Len(durations) > 0
      BY <1>1, <1>3, TunerConstants DEF Health!Learnt
    <3> QED
      BY <3>1
  <2>2. /\ w(90) \in Int /\ w(99) \in Int /\ w(50) \in Int
        /\ w(90) <= w(99) /\ w(90) >= 0 /\ w(50) >= 0
    <3>1. \A p \in 0..100 : /\ Weighing(durations, p) = Interpolation(durations, p)
                            /\ Interpolation(durations, p) \in Int
                            /\ Interpolation(durations, p) >= 0
      BY <1>1, <2>1, PercentileFacts, PercentileBounds, ZenonT(60)
    <3>2. Interpolation(durations, 90) <= Interpolation(durations, 99)
      <4>1. 90 \in 0..100 /\ 99 \in 0..100 /\ 90 <= 99
        OBVIOUS
      <4> QED
        BY <1>1, <2>1, <4>1, PercentileFacts, ZenonT(60)
    <3>3. 50 \in 0..100 /\ 90 \in 0..100 /\ 99 \in 0..100
      OBVIOUS
    <3> QED
      BY <3>1, <3>2, <3>3, SMTT(40)
  <2>3. \A p : Health!Weighted(durations, p) = w(p)
    BY <1>1, TunersFormulas
  <2> HIDE DEF w
  <2>4. /\ Health!DegradedAt = Health!Max({w(90) * 2, w(50) * 3})
        /\ Health!UnhealthyAt = Health!Max({w(99) * 5, w(50) * 10})
    BY <1>3, <2>3 DEF Health!DegradedAt, Health!UnhealthyAt, Health!Threshold
  <2>5. /\ Health!DegradedAt = IF w(90) * 2 >= w(50) * 3 THEN w(90) * 2 ELSE w(50) * 3
        /\ Health!UnhealthyAt = IF w(99) * 5 >= w(50) * 10 THEN w(99) * 5 ELSE w(50) * 10
    <3>1. w(90) * 2 \in Int /\ w(50) * 3 \in Int /\ w(99) * 5 \in Int /\ w(50) * 10 \in Int
      BY <2>2
    <3> QED
      BY <2>4, <3>1, LimitsAre
  <2>6. Health!DegradedAt <= Health!UnhealthyAt
    BY <2>2, <2>5
  <2>7. ASSUME NEW d \in Durations \ {0}, 100 * d <= Health!Weighted(durations, 90)
        PROVE  100 * d < Health!DegradedAt
    <3>1. d \in Nat \ {0} /\ 100 * d <= w(90)
      BY <2>3, <2>7, TunerConstants
    <3> QED
      BY <2>2, <2>5, <3>1
  <2> QED
    BY <2>6, <2>7 DEF Health!ThresholdsInv
<1> QED
  BY <1>2, <1>3

-----------------------------------------------------------------------------
\* The retry optimizer: so does the number of retries.
LEMMA RetryTyped ==
  /\ Retry!Init => Retry!TypeOK
  /\ Retry!TypeOK /\ [Retry!Next]_retryVars => Retry!TypeOK'
<1>1. Retry!Init => Retry!TypeOK
  BY TunerConstants DEF Retry!Init, Retry!TypeOK
<1>2. ASSUME Retry!TypeOK, [Retry!Next]_retryVars PROVE Retry!TypeOK'
  <2>1. /\ outcomes \in Seq(Retry!Outcome) /\ Len(outcomes) <= HistorySize
        /\ told \in 0..MaxReadings /\ HistorySize \in Nat \ {0} /\ MaxReadings \in Nat
    BY <1>2, TunerConstants DEF Retry!TypeOK
  <2>2. ASSUME NEW o \in Retry!Outcome, Retry!RecordOutcome(o) PROVE Retry!TypeOK'
    <3>1. outcomes' \in Seq(Retry!Outcome) /\ Len(outcomes') <= HistorySize
      <4>1. outcomes' = LET s == Append(outcomes, o)
                        IN  IF Len(s) > HistorySize THEN Tail(s) ELSE s
        BY <2>2 DEF Retry!RecordOutcome
      <4> QED
        BY <2>1, <4>1, WindowIs
    <3>2. told' \in 0..MaxReadings
      BY <2>1, <2>2 DEF Retry!RecordOutcome
    <3> QED
      BY <3>1, <3>2 DEF Retry!TypeOK
  <2>3. CASE UNCHANGED retryVars
    BY <2>1, <2>3 DEF retryVars, Retry!TypeOK
  <2> QED
    BY <1>2, <2>2, <2>3 DEF Retry!Next
<1> QED
  BY <1>1, <1>2

\* Of n numbers, nine in ten are at or below the one that the index picks.
LEMMA NineInTen ==
  ASSUME NEW a \in Seq(Int), a # <<>>
  PROVE  LET x == Ranked(a)[Retry!NinetyPercentIndex(Len(a)) + 1]
         IN  /\ x \in Members(a) /\ x \in Int
             /\ 10 * Cardinality({i \in DOMAIN a : a[i] <= x}) >= 9 * Len(a)
<1>1. PICK n \in Nat \ {0} : n = Len(a)
  BY Numbers
<1>2. PICK k : k = Retry!NinetyPercentIndex(n)
  OBVIOUS
<1>3. k = IF (9 * n) \div 10 <= n - 1 THEN (9 * n) \div 10 ELSE n - 1
  <2>1. (9 * n) \div 10 \in Int /\ n - 1 \in Int
    BY <1>1
  <2> QED
    BY <1>2, <2>1, LimitsAre DEF Retry!NinetyPercentIndex
<1>4. k + 1 \in 1..n /\ 10 * (k + 1) >= 9 * n
  BY <1>1, <1>3
<1>5. PICK x : x = Ranked(a)[k + 1]
  OBVIOUS
<1>6. /\ x \in Members(a) /\ x \in Int /\ k + 1 <= Cardinality(UpTo(a, x))
  BY <1>1, <1>4, <1>5, RankedFacts
<1>7. Cardinality(UpTo(a, x)) \in Nat
  BY PlacesFinite DEF UpTo
<1>8. UpTo(a, x) = {i \in DOMAIN a : a[i] <= x}
  BY DEF UpTo
<1>9. 10 * Cardinality(UpTo(a, x)) >= 9 * n
  BY <1>4, <1>6, <1>7
<1> QED
  BY <1>1, <1>2, <1>5, <1>6, <1>8, <1>9

\* As many of the successes are kept as there are numbers of attempts in the range.
LEMMA SuccessesAre ==
  ASSUME Retry!TypeOK
  PROVE  LET a == [i \in DOMAIN Retry!Successes |-> Retry!Successes[i].attempts]
         IN  /\ Retry!Successes \in Seq(Retry!Outcome)
             /\ a \in Seq(Int) /\ Len(a) = Len(Retry!Successes)
             /\ \A i \in DOMAIN a : a[i] \in Nat
             /\ \A x \in Int :
                  Len(Retry!Keeping(Retry!Successes, {o \in Retry!Outcome : o.attempts <= x}))
                    = Cardinality({i \in DOMAIN a : a[i] <= x})
             /\ Retry!RetrySuccesses = <<>> => \A i \in DOMAIN a : a[i] <= 1
<1> DEFINE s == Retry!Successes
           a == [i \in DOMAIN s |-> s[i].attempts]
<1>1. s \in Seq(Retry!Outcome)
  <2>1. outcomes \in Seq(Retry!Outcome)
    BY DEF Retry!TypeOK
  <2> QED
    BY <2>1, SizesAgree, KeptOfAny DEF Retry!Successes
<1> HIDE DEF s
<1>2. Len(s) \in Nat /\ DOMAIN s = 1..Len(s) /\ \A i \in 1..Len(s) : s[i] \in Retry!Outcome
  BY <1>1
<1>3. \A i \in DOMAIN s : s[i].attempts \in Nat
  BY <1>2, TunerConstants DEF Retry!Outcome
<1>4. DOMAIN a = DOMAIN s /\ \A i \in DOMAIN s : a[i] = s[i].attempts
  OBVIOUS
<1>5. a \in Seq(Int) /\ Len(a) = Len(s) /\ \A i \in DOMAIN a : a[i] \in Nat
  <2>1. a \in [1..Len(s) -> Int]
    BY <1>2, <1>3
  <2> QED
    BY <1>2, <1>3, <2>1, FunctionIsSeq
<1> HIDE DEF a
<1>6. ASSUME NEW x \in Int
      PROVE  Len(Retry!Keeping(s, {o \in Retry!Outcome : o.attempts <= x}))
               = Cardinality({i \in DOMAIN a : a[i] <= x})
  <2> DEFINE S == {o \in Retry!Outcome : o.attempts <= x}
  <2>1. Len(Retry!Keeping(s, S)) = Cardinality({i \in DOMAIN s : s[i] \in S})
    <3> HIDE DEF S
    <3> QED
      BY <1>1, SizesAgree, KeptOfAny
  <2>2. {i \in DOMAIN s : s[i] \in S} = {i \in DOMAIN a : a[i] <= x}
    BY <1>2, <1>4
  <2> QED
    BY <2>1, <2>2
<1>7. ASSUME Retry!RetrySuccesses = <<>>, NEW i \in DOMAIN a PROVE a[i] <= 1
  <2> DEFINE S == {o \in Retry!Outcome : o.attempts > 1}
  <2>1. Retry!RetrySuccesses = Retry!Keeping(s, S)
    BY DEF Retry!RetrySuccesses, s
  <2>2. Members(<<>>) = Members(s) \cap S
    <3>1. Members(KeptOf(s, S, Len(s))[Len(s)]) = Members(s) \cap S
      BY <1>1, KeptOfAny
    <3> HIDE DEF S
    <3> QED
      BY <1>7, <2>1, <3>1, SizesAgree
  <2>3. s[i] \in Members(s) /\ Members(<<>>) = {}
    BY <1>4, <1>7 DEF Members
  <2>4. s[i] \notin S /\ s[i] \in Retry!Outcome
    BY <1>2, <1>4, <1>7, <2>2, <2>3
  <2> QED
    BY <1>3, <1>4, <1>7, <2>4
<1> QED
  BY <1>1, <1>4, <1>5, <1>6, <1>7 DEF s, a

LEMMA RetriesCover == Retry!TypeOK => Retry!OptimizerInv
<1> SUFFICES ASSUME Retry!TypeOK, Len(outcomes) >= MinSamples
             PROVE  /\ Retry!Successes = <<>> => Retry!MaxRetries = 1
                    /\ ~Retry!RetriesRare =>
                         10 * Len(Retry!Keeping(Retry!Successes,
                                    {o \in Retry!Outcome : o.attempts <= Retry!MaxRetries}))
                           >= 9 * Len(Retry!Successes)
  BY DEF Retry!OptimizerInv, Retry!RetriesCoverSuccesses
<1> DEFINE s == Retry!Successes
           a == [i \in DOMAIN s |-> s[i].attempts]
           m == Retry!MaxRetries
           p == Retry!P90Attempts
           u == IF s = <<>> THEN 1 ELSE Retry!Max({1, p})
           none == Retry!RetrySuccesses = <<>>
           rare == Retry!RetriesRare
           many == Len(outcomes) > MinSamples
           H(x) == Cardinality({i \in DOMAIN a : a[i] <= x})
<1>1. /\ s \in Seq(Retry!Outcome) /\ a \in Seq(Int) /\ Len(a) = Len(s)
      /\ \A i \in DOMAIN a : a[i] \in Nat
      /\ \A x \in Int :
           Len(Retry!Keeping(s, {o \in Retry!Outcome : o.attempts <= x})) = H(x)
      /\ none => \A i \in DOMAIN a : a[i] <= 1
  BY SuccessesAre
<1>2. m = IF rare THEN 1 ELSE IF none /\ many THEN Retry!Max({1, u - 1}) ELSE u
  <2>1. ~(Len(outcomes) < MinSamples)
    <3>1. Len(outcomes) \in Nat /\ MinSamples \in Nat
      BY TunerConstants DEF Retry!TypeOK
    <3> QED
      BY <3>1
  <2> QED
    BY <2>1 DEF Retry!MaxRetries
<1>3. p = Ranked(a)[Retry!NinetyPercentIndex(Len(a)) + 1]
  <2>1. Retry!Ascending(a) = Ranked(a) /\ Len(Ranked(a)) = Len(a)
    BY <1>1, RanksAgree, RankedTyped
  <2> QED
    BY <2>1 DEF Retry!P90Attempts
<1>4. rare => ~none
  BY DEF Retry!RetriesRare
<1>5. s = <<>> => none
  <2>1. Retry!RetrySuccesses = KeptOf(s, {o \in Retry!Outcome : o.attempts > 1}, Len(s))[Len(s)]
    BY SizesAgree DEF Retry!RetrySuccesses
  <2>2. \A S : KeptOf(<<>>, S, 0)[0] = <<>>
    <3>1. \A S : Kept(KeptOf(<<>>, S, 0), <<>>, S, 0)
      BY KeptExists
    <3>2. \A f, S : Kept(f, <<>>, S, 0) => f[0] = <<>>
      BY DEF Kept
    <3> QED
      BY <3>1, <3>2
  <2> QED
    BY <2>1, <2>2
<1>8. (s = <<>> => u = 1) /\ (s # <<>> => u = Retry!Max({1, p}))
  OBVIOUS
<1>9. s = <<>> => Len(s) = 0 /\ a = <<>> /\ DOMAIN a = {}
  OBVIOUS
<1>10. s # <<>> => Len(a) \in Nat \ {0} /\ a # <<>>
  <2>1. s # <<>> => Len(s) \in Nat \ {0}
    <3>1. s \in Seq(Retry!Outcome)
      BY <1>1
    <3> HIDE DEF s
    <3> QED
      BY <3>1
  <2> QED
    BY <1>1, <2>1
<1> HIDE DEF s, a, u, m, p, none, rare, many
<1>11. \A x \in Int : /\ {i \in DOMAIN a : a[i] <= x} \in SUBSET DOMAIN a
                      /\ H(x) \in Nat /\ IsFiniteSet({i \in DOMAIN a : a[i] <= x})
  <2>1. \A x \in Int : {i \in DOMAIN a : a[i] <= x} \in SUBSET DOMAIN a
    OBVIOUS
  <2> QED
    BY <1>1, <2>1, PlacesFinite
<1>6. CASE s = <<>>
  <2>1. u = 1 /\ ~rare /\ none /\ u - 1 = 0 /\ Retry!Max({1, 0}) = 1
    BY <1>4, <1>5, <1>6, <1>8, LimitsAre
  <2>2. m = 1
    BY <1>2, <2>1
  <2>3. Len(s) = 0 /\ H(1) \in Nat
    BY <1>6, <1>9, <1>11
  <2>4. Len(Retry!Keeping(s, {o \in Retry!Outcome : o.attempts <= m})) = H(1)
    BY <1>1, <2>2
  <2>5. 10 * Len(Retry!Keeping(s, {o \in Retry!Outcome : o.attempts <= m})) >= 9 * Len(s)
    BY <2>3, <2>4
  <2> QED
    BY <2>2, <2>5 DEF s, m, rare
<1>7. CASE s # <<>>
  <2>1. a # <<>> /\ Len(a) \in Nat \ {0}
    BY <1>7, <1>10
  <2>2. p \in Members(a) /\ p \in Int /\ 10 * H(p) >= 9 * Len(a)
    BY <1>1, <1>3, <2>1, NineInTen
  <2>3. u = IF 1 >= p THEN 1 ELSE p
    <3>1. 1 \in Int /\ p \in Int
      BY <2>2
    <3>2. Retry!Max({1, p}) = IF 1 >= p THEN 1 ELSE p
      BY ONLY <3>1, LimitsAre
    <3> QED
      BY <1>7, <1>8, <3>2
  <2>4. ASSUME ~rare PROVE m \in Int /\ 10 * H(m) >= 9 * Len(a)
    <3>1. CASE none
      <4>1. m \in Int /\ m >= 1
        <5>1. u \in Int /\ u >= 1
          BY <2>2, <2>3
        <5>2. Retry!Max({1, u - 1}) \in Int /\ Retry!Max({1, u - 1}) >= 1
          <6>1. 1 \in Int /\ u - 1 \in Int
            BY <5>1
          <6>2. Retry!Max({1, u - 1}) = IF 1 >= u - 1 THEN 1 ELSE u - 1
            BY ONLY <6>1, LimitsAre
          <6> QED
            BY <6>1, <6>2
        <5> QED
          BY <1>2, <2>4, <5>1, <5>2
      <4>2. {i \in DOMAIN a : a[i] <= m} = DOMAIN a
        <5>1. \A i \in DOMAIN a : a[i] <= 1 /\ a[i] \in Int
          BY <1>1, <3>1
        <5>2. \A i \in DOMAIN a : a[i] <= m
          BY <4>1, <5>1
        <5> QED
          BY <5>2
      <4>3. H(m) = Len(a)
        BY <1>1, <4>2, PlacesFinite
      <4> QED
        BY <2>1, <4>1, <4>3
    <3>2. CASE ~none
      <4>1. m = u
        BY <1>2, <2>4, <3>2
      <4>2. m \in Int /\ p <= m
        BY <2>2, <2>3, <4>1
      <4>3. H(p) <= H(m)
        <5>1. {i \in DOMAIN a : a[i] <= p} \subseteq {i \in DOMAIN a : a[i] <= m}
          BY <1>1, <2>2, <4>2
        <5>2. IsFiniteSet({i \in DOMAIN a : a[i] <= m})
          BY <1>11, <4>2
        <5> QED
          BY <5>1, <5>2, FS_Subset
      <4>4. H(p) \in Nat /\ H(m) \in Nat
        BY <1>11, <2>2, <4>2
      <4> HIDE DEF H
      <4> QED
        BY <2>1, <2>2, <4>2, <4>3, <4>4
    <3> QED
      BY <3>1, <3>2
  <2> HIDE DEF H
  <2>5. ~rare => 10 * Len(Retry!Keeping(s, {o \in Retry!Outcome : o.attempts <= m})) >= 9 * Len(s)
    BY <1>1, <2>4
  <2> QED
    BY <1>7, <2>5 DEF s, m, rare
<1> QED
  BY <1>6, <1>7

-----------------------------------------------------------------------------
\* The window of the timeout is the latest of all the samples.
AdaptStrong == Adapt!TypeOK /\ samples = LatestOf(all, WindowSize)

LEMMA AdaptInitial == Adapt!Init => AdaptStrong
<1> SUFFICES ASSUME Adapt!Init PROVE AdaptStrong
  OBVIOUS
<1>1. LatestOf(<<>>, WindowSize) = <<>>
  BY TunerConstants DEF LatestOf
<1>2. sample \in [Threads -> Adapt!Sample \cup {Adapt!None}]
  BY DEF Adapt!Init
<1> QED
  BY <1>1, <1>2, TunerConstants DEF Adapt!Init, AdaptStrong, Adapt!TypeOK

LEMMA AdaptStep == AdaptStrong /\ [Adapt!Next]_timeoutVars => AdaptStrong'
<1> SUFFICES ASSUME AdaptStrong, [Adapt!Next]_timeoutVars PROVE AdaptStrong'
  OBVIOUS
<1>1. /\ samples \in Seq(Adapt!Sample) /\ Len(samples) <= WindowSize /\ tick \in 0..MaxTime
      /\ sample \in [Threads -> Adapt!Sample \cup {Adapt!None}] /\ total \in 0..MaxSamples
      /\ all \in Seq(Adapt!Sample) /\ samples = LatestOf(all, WindowSize)
  BY DEF AdaptStrong, Adapt!TypeOK
<1>2. MaxTime \in Nat /\ MaxSamples \in Nat /\ WindowSize \in Nat \ {0} /\ Latencies \subseteq Nat
  BY TunerConstants
<1>3. ASSUME NEW t \in Threads, Adapt!Record(t) PROVE AdaptStrong'
  <2>1. sample[t] \in Adapt!Sample
    BY <1>1, <1>3 DEF Adapt!Record
  <2>2. samples' = Adapt!Appended(samples, sample[t]) /\ all' = Append(all, sample[t])
    BY <1>3 DEF Adapt!Record
  <2>3. /\ samples' \in Seq(Adapt!Sample) /\ Len(samples') <= WindowSize
        /\ samples' = LatestOf(Append(samples, sample[t]), WindowSize)
    BY <1>1, <1>2, <2>1, <2>2, WindowIs, SMTT(40) DEF Adapt!Appended
  <2>4. samples' = LatestOf(all', WindowSize)
    BY <1>1, <1>2, <2>1, <2>2, <2>3, LatestAppend
  <2>5. all' \in Seq(Adapt!Sample)
    BY <1>1, <2>1, <2>2
  <2>6. /\ total' \in 0..MaxSamples /\ tick' = tick
        /\ sample' \in [Threads -> Adapt!Sample \cup {Adapt!None}]
    BY <1>1, <1>2, <1>3 DEF Adapt!Record
  <2> QED
    BY <1>1, <2>3, <2>4, <2>5, <2>6 DEF AdaptStrong, Adapt!TypeOK
<1>4. ASSUME NEW t \in Threads, NEW d \in Latencies, Adapt!Make(t, d) PROVE AdaptStrong'
  <2>1. [duration |-> d, stamp |-> tick] \in Adapt!Sample
    BY <1>1 DEF Adapt!Sample
  <2>2. /\ UNCHANGED <<samples, tick, total, all>>
        /\ sample' = [sample EXCEPT ![t] = [duration |-> d, stamp |-> tick]]
    BY <1>4 DEF Adapt!Make
  <2>3. sample' \in [Threads -> Adapt!Sample \cup {Adapt!None}]
    BY <1>1, <2>1, <2>2
  <2> QED
    BY <1>1, <2>2, <2>3 DEF AdaptStrong, Adapt!TypeOK
<1>5. CASE Adapt!Reset
  <2>1. LatestOf(<<>>, WindowSize) = <<>>
    BY <1>2 DEF LatestOf
  <2> QED
    BY <1>1, <1>2, <1>5, <2>1 DEF Adapt!Reset, AdaptStrong, Adapt!TypeOK
<1>6. CASE Adapt!Tick
  BY <1>1, <1>2, <1>6 DEF Adapt!Tick, AdaptStrong, Adapt!TypeOK
<1>7. CASE UNCHANGED timeoutVars
  BY <1>1, <1>7 DEF timeoutVars, AdaptStrong, Adapt!TypeOK
<1> QED
  BY <1>3, <1>4, <1>5, <1>6, <1>7 DEF Adapt!Next

LEMMA PercentilesOfDurations ==
  ASSUME NEW s \in Seq(Int), s # <<>>
  PROVE  Adapt!PercentilesAgree(s, {50, 95, 99, 100})
<1>1. ASSUME NEW p \in 0..100
      PROVE  /\ Adapt!Weighted(s, p) = Adapt!Interpolated(s, p)
             /\ Adapt!AtMost(s, Adapt!Interpolated(s, p)) > (p * (Len(s) - 1)) \div 100
             /\ Adapt!AtLeast(s, Adapt!Interpolated(s, p)) > ((100 - p) * (Len(s) - 1)) \div 100
             /\ \A q \in 0..100 : p <= q => Adapt!Interpolated(s, p) <= Adapt!Interpolated(s, q)
  <2>1. PICK x : x = Adapt!Interpolated(s, p) /\ x = Interpolation(s, p)
    BY TunersFormulas
  <2>2. /\ Weighing(s, p) = x
        /\ Cardinality({i \in DOMAIN s : 100 * s[i] <= x}) > (p * (Len(s) - 1)) \div 100
        /\ Cardinality({i \in DOMAIN s : 100 * s[i] >= x}) > ((100 - p) * (Len(s) - 1)) \div 100
        /\ \A q \in 0..100 : p <= q => x <= Interpolation(s, q)
    <3>1. /\ Weighing(s, p) = Interpolation(s, p)
          /\ Cardinality({i \in DOMAIN s : 100 * s[i] <= Interpolation(s, p)})
               > (p * (Len(s) - 1)) \div 100
          /\ Cardinality({i \in DOMAIN s : 100 * s[i] >= Interpolation(s, p)})
               > ((100 - p) * (Len(s) - 1)) \div 100
          /\ \A q \in 0..100 : p <= q => Interpolation(s, p) <= Interpolation(s, q)
      BY <1>1, PercentileFacts, ZenonT(60)
    <3> QED
      BY <2>1, <3>1, Zenon
  <2>3. /\ Adapt!AtMost(s, x) = Cardinality({i \in DOMAIN s : 100 * s[i] <= x})
        /\ Adapt!AtLeast(s, x) = Cardinality({i \in DOMAIN s : 100 * s[i] >= x})
    BY SizesAgree DEF Adapt!AtMost, Adapt!AtLeast
  <2> QED
    BY <2>1, <2>2, <2>3, TunersFormulas
<1>2. {50, 95, 99, 100} \subseteq 0..100
  OBVIOUS
<1> QED
  BY <1>1, <1>2, ZenonT(60) DEF Adapt!PercentilesAgree

\* The latest samples that are young enough are those the timeout is computed from.
LEMMA ValidAre ==
  ASSUME AdaptStrong
  PROVE  /\ Adapt!Valid \in Seq(Adapt!Sample)
         /\ {Adapt!Valid[i] : i \in DOMAIN Adapt!Valid}
              = {s \in Adapt!Range(Adapt!Newest) : Adapt!Young(s)}
         /\ Adapt!Range(Adapt!Valid) = Members(Adapt!Valid)
         /\ Adapt!ValidDurations \in Seq(Int)
         /\ Len(Adapt!ValidDurations) = Len(Adapt!Valid)
         /\ \A i \in DOMAIN Adapt!Valid :
              Adapt!ValidDurations[i] = Adapt!Valid[i].duration /\ Adapt!Valid[i].duration \in Nat
<1> DEFINE v == Adapt!Valid
           S == {s \in Adapt!Sample : s.stamp >= tick - 1}
           w == Adapt!ValidDurations
<1>1. /\ samples \in Seq(Adapt!Sample) /\ tick \in 0..MaxTime /\ all \in Seq(Adapt!Sample)
      /\ samples = LatestOf(all, WindowSize)
  BY DEF AdaptStrong, Adapt!TypeOK
<1>2. MaxTime \in Nat /\ WindowSize \in Nat \ {0} /\ Latencies \subseteq Nat
  BY TunerConstants
<1>3. v \in Seq(Adapt!Sample) /\ Members(v) = Members(samples) \cap S
  <2>1. v = KeptOf(samples, S, Len(samples))[Len(samples)]
    BY SizesAgree DEF Adapt!Valid
  <2> HIDE DEF v, S
  <2> QED
    BY <1>1, <2>1, KeptOfAny
<1>4. Adapt!Newest = samples
  <2>1. Adapt!Max({1, Len(all) - WindowSize + 1})
          = IF Len(all) > WindowSize THEN Len(all) - WindowSize + 1 ELSE 1
    <3> DEFINE k == Len(all) - WindowSize + 1
    <3>1. Len(all) \in Nat /\ WindowSize \in Nat
      BY <1>1, <1>2
    <3>2. k \in Int /\ (Len(all) > WindowSize <=> k > 1)
      BY <3>1
    <3> HIDE DEF k
    <3>3. Adapt!Max({1, k}) = IF 1 >= k THEN 1 ELSE k
      <4>1. 1 \in Int
        OBVIOUS
      <4> QED
        BY ONLY <3>2, <4>1, LimitsAre
    <3>4. Adapt!Max({1, k}) = IF Len(all) > WindowSize THEN k ELSE 1
      BY <3>2, <3>3
    <3> QED
      BY <3>4 DEF k
  <2> QED
    BY <1>1, <2>1 DEF Adapt!Newest, LatestOf
<1>5. Adapt!Range(samples) = Members(samples) /\ Adapt!Range(v) = Members(v)
  BY DEF Adapt!Range, Members
<1>6. \A s \in Members(samples) : s \in S <=> Adapt!Young(s)
  <2>1. \A s \in Adapt!Sample : s.stamp \in Int
    BY <1>2 DEF Adapt!Sample
  <2>2. \A s \in Members(samples) : s \in Adapt!Sample
    BY <1>1 DEF Members
  <2> QED
    BY <1>1, <1>2, <2>1, <2>2 DEF Adapt!Young
<1>7. {v[i] : i \in DOMAIN v} = {s \in Adapt!Range(Adapt!Newest) : Adapt!Young(s)}
  <2>1. {v[i] : i \in DOMAIN v} = Members(v)
    BY DEF Members
  <2> HIDE DEF S, v
  <2> QED
    BY <1>3, <1>4, <1>5, <1>6, <2>1
<1>8. w = [i \in DOMAIN v |-> v[i].duration]
  BY DEF Adapt!ValidDurations
<1> HIDE DEF v, w, S
<1>9. Len(v) \in Nat /\ DOMAIN v = 1..Len(v) /\ \A i \in DOMAIN v : v[i].duration \in Nat
  <2>1. Len(v) \in Nat /\ DOMAIN v = 1..Len(v) /\ \A i \in DOMAIN v : v[i] \in Adapt!Sample
    BY <1>3
  <2> QED
    BY <1>2, <2>1 DEF Adapt!Sample
<1>10. w \in Seq(Int) /\ Len(w) = Len(v) /\ \A i \in DOMAIN v : w[i] = v[i].duration
  <2>1. w \in [1..Len(v) -> Int]
    BY <1>8, <1>9
  <2> QED
    BY <1>8, <1>9, <2>1, FunctionIsSeq
<1> QED
  BY <1>3, <1>5, <1>7, <1>9, <1>10 DEF v, w

\* Of two numbers within the same limits the greater does not become the smaller.
LEMMA WithinLimits ==
  ASSUME NEW lo \in Int, NEW hi \in Int, NEW y \in Int, NEW z \in Int, z <= y
  PROVE  Adapt!Max({lo, Adapt!Min({hi, y})}) >= Adapt!Min({z, hi})
<1>1. PICK m \in Int : m = Adapt!Min({hi, y}) /\ m = IF hi <= y THEN hi ELSE y
  <2>1. Adapt!Min({hi, y}) = IF hi <= y THEN hi ELSE y
    BY LimitsAre
  <2> QED
    BY <2>1
<1>2. Adapt!Max({lo, m}) = IF lo >= m THEN lo ELSE m
  BY LimitsAre
<1>3. Adapt!Min({z, hi}) = IF z <= hi THEN z ELSE hi
  BY LimitsAre
<1> QED
  BY <1>1, <1>2, <1>3

LEMMA TimeoutFits == AdaptStrong => Adapt!TimeoutInv
<1> SUFFICES ASSUME AdaptStrong PROVE Adapt!TimeoutInv
  OBVIOUS
<1> DEFINE v == Adapt!Valid
           w == Adapt!ValidDurations
           x == Interpolation(w, 100)
<1>1. /\ v \in Seq(Adapt!Sample)
      /\ {v[i] : i \in DOMAIN v} = {s \in Adapt!Range(Adapt!Newest) : Adapt!Young(s)}
      /\ Adapt!Range(v) = Members(v) /\ w \in Seq(Int) /\ Len(w) = Len(v)
      /\ \A i \in DOMAIN v : w[i] = v[i].duration /\ v[i].duration \in Nat
  BY ValidAre
<1> HIDE DEF v, w
<1>2. v # <<>> => w # <<>>
  BY <1>1
<1>3. v # <<>> => Adapt!PercentilesAgree(w, {50, 95, 99, 100})
  BY <1>1, <1>2, PercentilesOfDurations
<1>4. ASSUME Len(v) >= MinSamples, NEW s \in Adapt!Range(v)
      PROVE  Adapt!Timeout >= Adapt!Min({100 * s.duration * 2, 700})
  <2>1. PICK i \in DOMAIN v : s = v[i]
    BY <1>1, <1>4 DEF Members
  <2>2. PICK d \in Nat : d = s.duration /\ w[i] = d
    BY <1>1, <2>1
  <2>3. v # <<>> /\ i \in DOMAIN w
    BY <1>1, <2>1
  <2>4. x \in Int /\ 100 * d <= x
    <3>1. 100 \in 0..100
      BY SMTT(40)
    <3>2. Interpolation(w, 100) \in Int
      BY <1>1, <1>2, <2>3, <3>1, PercentileFacts, ZenonT(60)
    <3>3. 100 * w[i] <= Interpolation(w, 100)
      BY <1>1, <1>2, <2>3, <3>1, PercentileBounds
    <3> QED
      BY <2>2, <3>2, <3>3
  <2>5. Adapt!Interpolated(w, 100) = x
    BY <1>1, TunersFormulas
  <2> HIDE DEF x
  <2>6. PICK lo \in Int, hi \in Int, y \in Int, z \in Int :
          lo = 300 /\ hi = 700 /\ y = x * 2 /\ z = 100 * d * 2
    <3>1. 300 \in Int /\ 700 \in Int /\ x * 2 \in Int /\ 100 * d * 2 \in Int
      BY <2>2, <2>4
    <3> QED
      BY <3>1
  <2>7. Adapt!Timeout = Adapt!Max({lo, Adapt!Min({hi, y})})
    <3>1. ~(Len(v) < MinSamples)
      BY <1>1, <1>4, TunerConstants
    <3>2. Adapt!Timeout = Adapt!Max({100 * 3, Adapt!Min({100 * 7, Adapt!Interpolated(w, 100) * 2})})
      BY ONLY <3>1 DEF Adapt!Timeout, v, w
    <3>3. 100 * 3 = lo /\ 100 * 7 = hi /\ Adapt!Interpolated(w, 100) * 2 = y
      BY <2>5, <2>6
    <3> QED
      BY ONLY <3>2, <3>3
  <2>8. Adapt!Max({lo, Adapt!Min({hi, y})}) >= Adapt!Min({z, hi})
    <3>1. z <= y
      BY <2>4, <2>6
    <3> QED
      BY <2>6, <3>1, WithinLimits
  <2>9. Adapt!Min({z, hi}) = Adapt!Min({100 * s.duration * 2, 700})
    BY <2>2, <2>6
  <2> QED
    BY <2>7, <2>8, <2>9
<1>5. Adapt!TypeOK
  BY DEF AdaptStrong
<1> QED
  BY <1>1, <1>3, <1>4, <1>5, SMTT(40) DEF Adapt!TimeoutInv, v, w

-----------------------------------------------------------------------------
\* What is learnt from a window covers the samples in it: the timeout the slowest, the
\* thresholds the usual, the retries nine in ten (adaptive_timeout.py:76-91,
\* health_tuner.py:86-142, retry_optimizer.py:68-135).
THEOREM TunersCover == TelemetrySpec => []TunersInv
<1> DEFINE Inv == /\ part = "timeout" => AdaptStrong
                  /\ part = "health" => Health!TypeOK
                  /\ part = "retry" => Retry!TypeOK
<1>1. TelemetryInit => Inv
  BY AdaptInitial, HealthTyped, RetryTyped DEF TelemetryInit
<1>2. Inv /\ [TelemetryNext]_<<part, keeping, learning>> => Inv'
  BY StepOfPart, AdaptStep, HealthStep, RetryTyped
<1>3. Inv => TunersInv
  BY TimeoutFits, ThresholdsFit, RetriesCover DEF TunersInv
<1> HIDE DEF Inv
<1> QED
  BY <1>1, <1>2, <1>3, PTL DEF TelemetrySpec
=============================================================================
