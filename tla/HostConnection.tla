----------------------------- MODULE HostConnection ---------------------------
(***************************************************************************)
(* One WebSocket connection between a helper and its Freenet node          *)
(* (crates/freenet-git/src/wsclient.rs).  Requests and answers carry no    *)
(* transaction id: the helper sends one request at a time and takes the    *)
(* first message that fits it as its answer.  A request it has given up    *)
(* stays with the node and is answered later, on the same connection.      *)
(*                                                                         *)
(* The node, and everybody else who writes to the contracts it holds, are  *)
(* external; the helper's own steps are in the modules that extend this    *)
(* one.  A contract's state is the set of writes merged into it, the empty *)
(* set standing for empty bytes; None is a contract nobody holds.          *)
(***************************************************************************)
EXTENDS Integers, Sequences, SequencesExt

CONSTANTS Current,      \* the key of a repo; 1 .. Current-1: its predecessors, oldest first
          PackKey,      \* keys of pack contracts
          Write,        \* what may be written into contracts
          Foreign,      \* the writes of other helpers
          None,         \* Option::None
          BareOk,       \* the node may answer a PUT or an UPDATE with a bare Ok
          MaxPending,   \* bound: unanswered requests the node still works on
          MaxInbox      \* bound: unread messages, past which it does not answer

RepoKey == 1 .. Current
Key == RepoKey \cup PackKey

ASSUME ConnectionAssumption ==
    /\ Current \in Nat \ {0}
    /\ PackKey \cap RepoKey = {}
    /\ Foreign \subseteq Write
    /\ None \notin Key /\ \A d \in SUBSET Write : d # None
    /\ BareOk \in BOOLEAN
    /\ MaxPending \in Nat \ {0} /\ MaxInbox \in Nat \ {0}

VARIABLES store,       \* store[k]: the state of contract k
          subscribed,  \* contracts whose updates the node pushes to the helper
          pending,     \* requests the node has not answered
          inbox        \* messages the helper has not received, in order

connection == <<store, subscribed, pending, inbox>>

Request == [op : {"get", "put", "update"}, key : Key, data : SUBSET Write]

Get(k)       == [op |-> "get", key |-> k, data |-> {}]
Put(k, d)    == [op |-> "put", key |-> k, data |-> d]
Update(k, d) == [op |-> "update", key |-> k, data |-> d]

\* The typed answers carry a key; an error and a bare Ok do not.
Message == [kind : {"state"}, key : Key, data : SUBSET Write]
             \cup [kind : {"absent", "put", "updated", "note"}, key : Key]
             \cup [kind : {"ok", "transient", "hard"}]

Merged(k, d) == IF store[k] = None THEN d ELSE store[k] \cup d

-------------------------------------------------------------------------------
(***************************************************************************)
(* What the receive loop of a request makes of the next message.  Whatever *)
(* is not for the request, as far as it can tell, is skipped.              *)
(***************************************************************************)
For(r, m) == "key" \in DOMAIN m /\ m.key = r.key

Failed(m) == m.kind \in {"transient", "hard"}

\* dispatch_get_response
DispatchGet(r, m) ==
    IF Failed(m) THEN m.kind
    ELSE IF m.kind \in {"state", "absent"} /\ For(r, m) THEN m.kind
    ELSE "skip"

\* Mutant of DispatchPut: a PutResponse is not compared with the expected key.
DispatchPutAnyKey(r, m) ==
    IF Failed(m) THEN m.kind
    ELSE IF m.kind = "put" \/ m.kind = "ok" \/ (m.kind = "note" /\ For(r, m)) THEN "done"
    ELSE "skip"

\* dispatch_put_response
DispatchPut(r, m) ==
    IF Failed(m) THEN m.kind
    ELSE IF m.kind = "ok" \/ (m.kind \in {"put", "note"} /\ For(r, m)) THEN "done"
    ELSE "skip"

\* Mutant of DispatchUpdate: the key of a notification is not compared.
DispatchUpdateAnyNote(r, m) ==
    IF Failed(m) THEN m.kind
    ELSE IF m.kind = "absent" /\ For(r, m) THEN "absent"
    ELSE IF m.kind \in {"ok", "note"} \/ (m.kind = "updated" /\ For(r, m)) THEN "done"
    ELSE "skip"

\* dispatch_update_response
DispatchUpdate(r, m) ==
    IF Failed(m) THEN m.kind
    ELSE IF m.kind = "absent" /\ For(r, m) THEN "absent"
    ELSE IF m.kind = "ok" \/ (m.kind \in {"updated", "note"} /\ For(r, m)) THEN "done"
    ELSE "skip"

Dispatch(r, m) == CASE r.op = "get"    -> DispatchGet(r, m)
                    [] r.op = "put"    -> DispatchPut(r, m)
                    [] r.op = "update" -> DispatchUpdate(r, m)

\* The oldest of too many unanswered requests is one the node never answers.
Send(r) == pending' = Append(IF Len(pending) < MaxPending THEN pending
                             ELSE Tail(pending), r)

-------------------------------------------------------------------------------
(***************************************************************************)
(* The node.  It works on requests concurrently, so it may answer any of   *)
(* them next, or never.  NotFound means that no peer it can reach has the  *)
(* contract.  A PUT merges into a contract that exists already.            *)
(***************************************************************************)
Note(k) == IF k \in subscribed THEN <<[kind |-> "note", key |-> k]>> ELSE <<>>

Reply(messages) == inbox' = inbox \o messages

ServeGet(i) ==
    LET k == pending[i].key
    IN  /\ pending[i].op = "get"
        /\ Reply(IF store[k] = None
                 THEN <<[kind |-> "absent", key |-> k]>>
                 ELSE <<[kind |-> "state", key |-> k, data |-> store[k]]>>)
        /\ UNCHANGED <<store, subscribed>>

\* subscribe: true; the confirmation and the echo come in either order.
ServePut(i) ==
    LET k    == pending[i].key
        put  == [kind |-> "put", key |-> k]
        echo == [kind |-> "note", key |-> k]
    IN  /\ pending[i].op = "put"
        /\ store' = [store EXCEPT ![k] = Merged(k, pending[i].data)]
        /\ subscribed' = subscribed \cup {k}
        /\ \/ \E ms \in {<<put>>, <<put, echo>>, <<echo, put>>} : Reply(ms)
           \/ BareOk /\ Reply(<<[kind |-> "ok"]>>)

\* An UPDATE needs a state to merge into: empty bytes have no owner, so the repo
\* contract refuses what it merges into them.
Stateless(k) == store[k] \in {None, {}}

ServeUpdate(i) ==
    LET k == pending[i].key
    IN  /\ pending[i].op = "update"
        /\ IF Stateless(k)
           THEN /\ \/ Reply(<<[kind |-> "hard"]>>)
                   \/ store[k] = None /\ Reply(<<[kind |-> "absent", key |-> k]>>)
                /\ UNCHANGED store
           ELSE /\ store' = [store EXCEPT ![k] = Merged(k, pending[i].data)]
                /\ \/ Reply(Note(k) \o <<[kind |-> "updated", key |-> k]>>)
                   \/ BareOk /\ Reply(<<[kind |-> "ok"]>>)
        /\ UNCHANGED subscribed

\* Backpressure ("contract queue full"), or an error that will not clear.
Refuse(i) ==
    /\ \E kind \in {"transient", "hard"} : Reply(<<[kind |-> kind]>>)
    /\ UNCHANGED <<store, subscribed>>

Serve ==
    /\ Len(inbox) < MaxInbox
    /\ \E i \in DOMAIN pending :
        /\ ServeGet(i) \/ ServePut(i) \/ ServeUpdate(i) \/ Refuse(i)
        /\ pending' = RemoveAt(pending, i)

(***************************************************************************)
(* The connection ends.  Of the writes the node had not answered it has    *)
(* carried out some, and drops the rest.                                   *)
(***************************************************************************)
Disconnect ==
    /\ \E done \in SUBSET {i \in DOMAIN pending : pending[i].op # "get"} :
         LET for(k)  == {i \in done : pending[i].key = k}
             lost(k) == Stateless(k) /\ \A i \in for(k) : pending[i].op # "put"
         IN  store' = [k \in Key |-> IF lost(k) THEN store[k]
                                    ELSE Merged(k, UNION {pending[i].data : i \in for(k)})]
    /\ subscribed' = {}
    /\ pending' = <<>>
    /\ inbox' = <<>>

(***************************************************************************)
(* Others: helpers of any generation write to the key of the repo they     *)
(* know, and a current one migrates the newest state it finds.             *)
(***************************************************************************)
Holding == {k \in RepoKey : ~Stateless(k)}

OthersWrite ==
    \E k \in Holding, u \in Foreign :
        /\ u \notin store[k]
        /\ store' = [store EXCEPT ![k] = @ \cup {u}]
        /\ Reply(Note(k))

OthersMigrate ==
    \E k \in Holding :
        /\ Current \notin Holding /\ \A h \in Holding : h <= k
        /\ store' = [store EXCEPT ![Current] = store[k]]
        /\ Reply(Note(Current))

Elsewhere == (OthersWrite \/ OthersMigrate) /\ UNCHANGED <<subscribed, pending>>
===============================================================================
