------------------------------ MODULE KVStore -------------------------------
(***************************************************************************)
(* What the deployment promises the users of Connection: one key-value     *)
(* store, although its keys are spread over several parts.                 *)
(*                                                                         *)
(* A call is applied at every part it concerns at most once, in one step   *)
(* between the call and its return.  Get, Put and Delete concern one part, *)
(* so they are linearizable; GetAll sees each part at a moment of its own, *)
(* and may miss keys of a part that could not be listed to the end.  Any   *)
(* other call may fail, and one that is given up may still be applied.     *)
(***************************************************************************)
CONSTANTS
  Clients, Keys,
  Calls,        \* the calls of Get, Put, Delete and GetAll, numbered
  Parts,        \* the parts of the store
  PartOf,       \* the part every key belongs to
  None

VARIABLES
  store,        \* the value of every key
  call,         \* per client: the call it waits for the return of
  work,         \* per client and part: the call still to be applied there
  answer,       \* per client and part: what its call yielded there
  result        \* per client: the result its call is about to return

vars == <<store, call, work, answer, result>>

PartsOf(p) == IF p.op = "getall" THEN Parts ELSE {PartOf[p.key]} \cap Parts

NoPart == [part \in Parts |-> None]

Init ==
  /\ store = [k \in Keys |-> None]
  /\ call = [c \in Clients |-> None] /\ result = [c \in Clients |-> None]
  /\ work = [c \in Clients |-> NoPart] /\ answer = [c \in Clients |-> NoPart]

\* A client calls Get, Put, Delete or GetAll, one at a time.
Call(c) ==
  /\ call[c] = None /\ work[c] = NoPart
  /\ \E p \in Calls :
       /\ call' = [call EXCEPT ![c] = p]
       /\ work' = [work EXCEPT ![c] =
            [part \in Parts |-> IF part \in PartsOf(p) THEN p ELSE None]]
  /\ UNCHANGED <<store, answer, result>>

\* The store after a call is applied at a part, and what it yields there.  An
\* error leaves the store as it was.  GetAll yields every key, unless its list is
\* cut short.
Outcomes(p, part) ==
  LET Yields(kind, status, val) ==
        [n |-> p.n, op |-> kind, status |-> status, val |-> val]
  IN CASE p.op = "get" ->
            {<<store, Yields("get", "err", None)>>} \cup
            (IF store[p.key] = None THEN {}
             ELSE {<<store, Yields("get", "ok", store[p.key])>>})
       [] p.op = "put" ->
            {<<store, Yields("put", "err", None)>>,
             <<[store EXCEPT ![p.key] = p.val], Yields("put", "ok", None)>>}
       [] p.op = "delete" ->
            {<<store, Yields("put", "err", None)>>,
             <<[store EXCEPT ![p.key] = None], Yields("put", "ok", None)>>}
       [] p.op = "getall" ->
            LET all == {k \in p.prefix : PartOf[k] = part /\ store[k] # None}
            IN {<<store, [n |-> p.n, op |-> "getall", keys |-> keys,
                          cut |-> keys # all]>> : keys \in SUBSET all}

\* The call takes effect at a part; what it yields may get lost.
Apply(c, part) ==
  /\ work[c][part] # None
  /\ \E out \in Outcomes(work[c][part], part) :
       /\ store' = out[1]
       /\ answer' \in {answer, [answer EXCEPT ![c][part] = out[2]]}
  /\ work' = [work EXCEPT ![c][part] = None]
  /\ UNCHANGED <<call, result>>

\* What a call returns once it has been applied everywhere.
Whole(p, yields) ==
  IF p.op = "getall"
  THEN [n |-> p.n, op |-> "getall",
        keys |-> UNION {yields[part].keys : part \in Parts},
        cut |-> \E part \in Parts : yields[part].cut]
  ELSE yields[PartOf[p.key]]

Answer(c) ==
  /\ call[c] # None /\ result[c] = None
  /\ PartsOf(call[c]) # {}
  /\ \A part \in PartsOf(call[c]) : answer[c][part] # None
  /\ result' = [result EXCEPT ![c] = Whole(call[c], answer[c])]
  /\ answer' = [answer EXCEPT ![c] = NoPart]
  /\ UNCHANGED <<store, call, work>>

Return(c) ==
  /\ result[c] # None
  /\ call' = [call EXCEPT ![c] = None] /\ result' = [result EXCEPT ![c] = None]
  /\ UNCHANGED <<store, work, answer>>

\* The caller does not wait any longer.
GiveUp(c) ==
  /\ call[c] # None
  /\ call' = [call EXCEPT ![c] = None] /\ result' = [result EXCEPT ![c] = None]
  /\ answer' = [answer EXCEPT ![c] = NoPart]
  /\ UNCHANGED <<store, work>>

\* Every entry of a table per client and part stays, or is lost.
Fewer(new, old) ==
  new = [c \in Clients |-> [part \in Parts |->
           IF new[c][part] = None THEN None ELSE old[c][part]]]

\* A failure loses any part of the work, and any of the answers.
Lose ==
  /\ UNCHANGED <<store, call, result>>
  /\ Fewer(work', work) /\ Fewer(answer', answer)

Next ==
  \/ Lose
  \/ \E c \in Clients :
       \/ Call(c) \/ Answer(c) \/ Return(c) \/ GiveUp(c)
       \/ \E part \in Parts : Apply(c, part)

Spec == Init /\ [][Next]_vars
=============================================================================
