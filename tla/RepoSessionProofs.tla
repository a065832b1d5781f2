---------------------------- MODULE RepoSessionProofs --------------------------
(***************************************************************************)
(* What a session may rely on, for any number of generations, of writes    *)
(* and of pending or unread messages.                                      *)
(***************************************************************************)
EXTENDS RepoSession, TLAPS

(***************************************************************************)
(* Sequences.                                                              *)
(***************************************************************************)
\* The elements of a sequence over T are in T.
LEMMA RangeOf ==
    ASSUME NEW T, NEW s \in Seq(T)
    PROVE  Range(s) \subseteq T
BY DEF Range

\* Appending adds one element.
LEMMA RangeAppend ==
    ASSUME NEW T, NEW s \in Seq(T), NEW x \in T
    PROVE  /\ Append(s, x) \in Seq(T)
           /\ Range(Append(s, x)) = Range(s) \cup {x}
           /\ Len(Append(s, x)) = Len(s) + 1
<1>1. Append(s, x) \in Seq(T) /\ Len(Append(s, x)) = Len(s) + 1
  OBVIOUS
<1>2. \A y : y \in Range(Append(s, x)) => y \in Range(s) \cup {x}
  BY DEF Range
<1>3. \A y \in Range(s) : y \in Range(Append(s, x))
  <2>. SUFFICES ASSUME NEW i \in DOMAIN s PROVE s[i] \in Range(Append(s, x))
    BY DEF Range
  <2>1. i \in DOMAIN Append(s, x) /\ Append(s, x)[i] = s[i]
    OBVIOUS
  <2>. QED  BY <2>1 DEF Range
<1>4. x \in Range(Append(s, x))
  <2>1. Len(s) + 1 \in DOMAIN Append(s, x) /\ Append(s, x)[Len(s) + 1] = x
    OBVIOUS
  <2>. QED  BY <2>1 DEF Range
<1>. QED  BY <1>1, <1>2, <1>3, <1>4

\* A concatenation has the elements of its parts.
LEMMA RangeConcat ==
    ASSUME NEW T, NEW s \in Seq(T), NEW t \in Seq(T)
    PROVE  s \o t \in Seq(T) /\ Range(s \o t) \subseteq Range(s) \cup Range(t)
<1>1. s \o t \in Seq(T)
  OBVIOUS
<1>2. ASSUME NEW i \in DOMAIN (s \o t) PROVE (s \o t)[i] \in Range(s) \cup Range(t)
  <2>1. CASE i <= Len(s)
    <3>1. i \in DOMAIN s /\ (s \o t)[i] = s[i]
      BY <2>1
    <3>. QED  BY <3>1 DEF Range
  <2>2. CASE i > Len(s)
    <3>1. i - Len(s) \in DOMAIN t /\ (s \o t)[i] = t[i - Len(s)]
      BY <2>2
    <3>. QED  BY <3>1 DEF Range
  <2>. QED  BY <2>1, <2>2
<1>. QED  BY <1>1, <1>2 DEF Range

\* A part of a sequence has no others.
LEMMA RangeSubSeq ==
    ASSUME NEW T, NEW s \in Seq(T), NEW m \in Nat \ {0}, NEW n \in 0 .. Len(s)
    PROVE  SubSeq(s, m, n) \in Seq(T) /\ Range(SubSeq(s, m, n)) \subseteq Range(s)
<1>1. /\ SubSeq(s, m, n) \in Seq(T)
      /\ \A i \in DOMAIN SubSeq(s, m, n) :
            m + i - 1 \in DOMAIN s /\ SubSeq(s, m, n)[i] = s[m + i - 1]
  OBVIOUS
<1>. QED  BY <1>1 DEF Range

\* So the rest of an inbox,
LEMMA RangeRest ==
    ASSUME NEW T, NEW s \in Seq(T)
    PROVE  Rest(s) \in Seq(T) /\ Range(Rest(s)) \subseteq Range(s)
BY RangeSubSeq DEF Rest

\* the tail of a queue,
LEMMA RangeTail ==
    ASSUME NEW T, NEW s \in Seq(T), s # <<>>
    PROVE  Tail(s) \in Seq(T) /\ Range(Tail(s)) \subseteq Range(s)
<1>1. /\ Tail(s) \in Seq(T)
      /\ \A i \in DOMAIN Tail(s) : i + 1 \in DOMAIN s /\ Tail(s)[i] = s[i + 1]
  OBVIOUS
<1>. QED  BY <1>1 DEF Range

\* a queue without the request that was answered,
LEMMA RangeRemoveAt ==
    ASSUME NEW T, NEW s \in Seq(T), NEW i \in DOMAIN s
    PROVE  RemoveAt(s, i) \in Seq(T) /\ Range(RemoveAt(s, i)) \subseteq Range(s)
<1>1. /\ SubSeq(s, 1, i - 1) \in Seq(T) /\ Range(SubSeq(s, 1, i - 1)) \subseteq Range(s)
      /\ SubSeq(s, i + 1, Len(s)) \in Seq(T) /\ Range(SubSeq(s, i + 1, Len(s))) \subseteq Range(s)
  BY RangeSubSeq
<1>2. /\ SubSeq(s, 1, i - 1) \o SubSeq(s, i + 1, Len(s)) \in Seq(T)
      /\ Range(SubSeq(s, 1, i - 1) \o SubSeq(s, i + 1, Len(s)))
           \subseteq Range(SubSeq(s, 1, i - 1)) \cup Range(SubSeq(s, i + 1, Len(s)))
  BY <1>1, RangeConcat
<1>. QED  BY <1>1, <1>2 DEF RemoveAt

\* and the message that comes next.
LEMMA HeadInRange ==
    ASSUME NEW T, NEW s \in Seq(T), s # <<>>
    PROVE  Head(s) \in Range(s) /\ Head(s) \in T
BY DEF Range

-------------------------------------------------------------------------------
(***************************************************************************)
(* The inductive invariant.  Bare(k): the session found nothing to lose    *)
(* under k when it started.                                                *)
(***************************************************************************)
Bare(k) == before[k] \in {None, {}}

SessionType == [phase : Phase, data : Own \cup {None}, attempt : Nat, misses : Seq(Miss),
                read : SUBSET Write, source : RepoKey \cup {None}, outcome : Outcome]

\* A session has the state its phase requires, and what it has concluded about
\* generations is true of them as they were at its start.
SessionOK(s) ==
    /\ s \in SessionType
    /\ s.attempt <= (IF s.phase \in {"pack", "update"} THEN PutAttempts ELSE ProbeAttempts)
    /\ Len(s.misses) < Current
    /\ s.phase \in {"pack", "update"} => s.data \in Own
    /\ \A i \in 1 .. Len(s.misses) : Bare(Current - i + 1)
    /\ s.source # None => \A k \in RepoKey : k > s.source => Bare(k)
    /\ s.outcome = "no_state" => \A k \in RepoKey : Bare(k)

Types ==
    /\ store \in [Key -> {None} \cup SUBSET Write]
    /\ before \in [Key -> {None} \cup SUBSET Write]
    /\ subscribed \subseteq Key
    /\ pending \in Seq(Request) /\ inbox \in Seq(Message)
    /\ acked \subseteq Own

\* What a message says that has not been read yet.
MessageTrue(m) ==
    /\ m.kind = "absent" => Bare(m.key)
    /\ m.kind = "state" /\ m.data = {} => Bare(m.key)
    /\ m.kind \in {"put", "note"} => store[m.key] # None
    /\ m.kind = "note" => m.key \in subscribed
    /\ m.kind = "ok" => BareOk
    /\ m.kind = "updated" => /\ session.phase = "update" /\ m.key = Current
                             /\ store[Current] # None /\ session.data \in store[Current]

ConnectionOK ==
    /\ \A k \in Key : store[k] \in {None, {}} => Bare(k)
    /\ \A k \in subscribed : store[k] # None
    /\ \A m \in Range(inbox) : MessageTrue(m)
    /\ \A r \in Range(pending) : r.op = "update" =>
         session.phase = "update" /\ r.key = Current /\ r.data = {session.data}
    /\ session.phase = "idle" => inbox = <<>> /\ pending = <<>> /\ subscribed = {}

PackOK == ~BareOk /\ session.phase = "update" => store[PackOf[session.data]] # None

IInv == Types /\ SessionOK(session) /\ ConnectionOK /\ PackOK

-------------------------------------------------------------------------------
(***************************************************************************)
(* The store.                                                              *)
(***************************************************************************)
StoreGrows ==
    /\ store' \in [Key -> {None} \cup SUBSET Write]
    /\ \A k \in Key : store[k] # None => store'[k] # None /\ store[k] \subseteq store'[k]

\* None is no key and no state; the keys are those of the repo and of the packs.
LEMMA NoneFacts == None \notin Key /\ None # {} /\ Current \in RepoKey /\ RepoKey \subseteq Key
                   /\ PackKey \subseteq Key
BY ConnectionAssumption DEF Key, RepoKey

\* Merging never loses anything.
LEMMA MergedFacts ==
    ASSUME store \in [Key -> {None} \cup SUBSET Write], NEW k \in Key, NEW d \in SUBSET Write
    PROVE  /\ Merged(k, d) \in SUBSET Write /\ Merged(k, d) # None
           /\ d \subseteq Merged(k, d)
           /\ store[k] # None => store[k] \subseteq Merged(k, d)
BY ConnectionAssumption DEF Merged

\* A PUT or an UPDATE of one contract.
LEMMA MergeGrows ==
    ASSUME store \in [Key -> {None} \cup SUBSET Write], NEW k \in Key, NEW d \in SUBSET Write,
           store' = [store EXCEPT ![k] = Merged(k, d)]
    PROVE  StoreGrows /\ store'[k] # None /\ d \subseteq store'[k]
BY MergedFacts DEF StoreGrows

\* Nothing written, nothing lost.
LEMMA SameStore ==
    ASSUME store \in [Key -> {None} \cup SUBSET Write], UNCHANGED store
    PROVE  StoreGrows
BY DEF StoreGrows

\* The fields of a request.
LEMMA RequestFields ==
    ASSUME NEW r \in Request
    PROVE  r.key \in Key /\ r.data \in SUBSET Write /\ r.op \in {"get", "put", "update"}
BY DEF Request

\* What a connection leaves behind: some of its writes, and nothing in flight.
LEMMA DisconnectGrows ==
    ASSUME Types, Disconnect
    PROVE  /\ StoreGrows
           /\ subscribed' = {} /\ pending' = <<>> /\ inbox' = <<>>
<1>1. PICK done \in SUBSET {i \in DOMAIN pending : pending[i].op # "get"} :
        LET for(k)  == {i \in done : pending[i].key = k}
            lost(k) == Stateless(k) /\ \A i \in for(k) : pending[i].op # "put"
        IN  store' = [k \in Key |-> IF lost(k) THEN store[k]
                                    ELSE Merged(k, UNION {pending[i].data : i \in for(k)})]
  BY DEF Disconnect
<1>2. \A i \in DOMAIN pending : pending[i] \in Request
  BY DEF Types
<1>3. ASSUME NEW k \in Key
      PROVE  UNION {pending[i].data : i \in {j \in done : pending[j].key = k}} \in SUBSET Write
  BY <1>2, RequestFields
<1>4. ASSUME NEW k \in Key
      PROVE  /\ store'[k] \in {None} \cup SUBSET Write
             /\ store[k] # None => store'[k] # None /\ store[k] \subseteq store'[k]
  <2>. DEFINE new == UNION {pending[i].data : i \in {j \in done : pending[j].key = k}}
  <2>1. store'[k] = Merged(k, new) \/ store'[k] = store[k]
    BY <1>1
  <2>. HIDE DEF new
  <2>2. new \in SUBSET Write
    BY <1>3 DEF new
  <2>. QED  BY <2>1, <2>2, MergedFacts DEF Types
<1>5. DOMAIN store' = Key /\ store' = [k \in Key |-> store'[k]]
  BY <1>1
<1>. QED  BY <1>4, <1>5 DEF StoreGrows, Disconnect

-------------------------------------------------------------------------------
(***************************************************************************)
(* The connection.                                                         *)
(***************************************************************************)
\* A message that is true stays true while the session does not leave its phase.
LEMMA StillTrue ==
    ASSUME IInv, StoreGrows, subscribed \subseteq subscribed', UNCHANGED <<session, before>>,
           NEW m \in Message, MessageTrue(m)
    PROVE  MessageTrue(m)'
<1>1. "key" \in DOMAIN m => m.key \in Key
  BY DEF Message
<1>2. m.kind \in {"put", "note", "updated"} => m.key \in Key
  BY DEF Message
<1>. QED  BY <1>1, <1>2, NoneFacts DEF MessageTrue, StoreGrows, Bare, Key

\* A step of the node, or of somebody else, keeps the invariant when what it adds
\* to the inbox is true.
LEMMA NodeStep ==
    ASSUME IInv, StoreGrows, UNCHANGED <<session, before, acked>>,
           session.phase # "idle" \/ (inbox' = <<>> /\ pending' = <<>> /\ subscribed' = {}),
           subscribed \subseteq subscribed', subscribed' \subseteq Key,
           \A k \in subscribed' \ subscribed : store'[k] # None,
           pending' \in Seq(Request), Range(pending') \subseteq Range(pending),
           NEW messages \in Seq(Message), inbox' = inbox \o messages,
           \A m \in Range(messages) : MessageTrue(m)'
    PROVE  IInv'
<1>1. inbox' \in Seq(Message) /\ Range(inbox') \subseteq Range(inbox) \cup Range(messages)
  BY RangeConcat DEF IInv, Types
<1>2. Types'
  BY <1>1 DEF IInv, Types, StoreGrows
<1>3. SessionOK(session)'
  BY DEF IInv, SessionOK, Bare
<1>4. \A m \in Range(inbox') : MessageTrue(m)'
  BY <1>1, StillTrue, RangeOf DEF IInv, Types, ConnectionOK
<1>5. \A k \in Key : store'[k] \in {None, {}} => Bare(k)'
  <2>. SUFFICES ASSUME NEW k \in Key, store'[k] \in {None, {}} PROVE store[k] \in {None, {}}
    BY DEF IInv, ConnectionOK, Bare
  <2>. QED  BY DEF StoreGrows
<1>6. \A k \in subscribed' : store'[k] # None
  BY DEF IInv, ConnectionOK, Types, StoreGrows
<1>7. ConnectionOK'
  <2>1. \A r \in Range(pending') : r.op = "update" =>
           session'.phase = "update" /\ r.key = Current /\ r.data = {session'.data}
    BY DEF IInv, ConnectionOK
  <2>. QED  BY <1>4, <1>5, <1>6, <2>1 DEF ConnectionOK
<1>8. PackOK'
  BY SessionAssumption DEF IInv, PackOK, StoreGrows, SessionOK, Key
<1>. QED  BY <1>2, <1>3, <1>7, <1>8 DEF IInv

\* What a receive loop leaves in the inbox, and on what it ends.
LEMMA HeardFacts ==
    ASSUME IInv, NEW verdict, NEW unread, Heard(verdict, unread)
    PROVE  /\ session.phase # "idle"
           /\ unread \in Seq(Message) /\ Range(unread) \subseteq Range(inbox)
           /\ verdict # "timeout" => /\ inbox # <<>> /\ Head(inbox) \in Message
                                     /\ MessageTrue(Head(inbox))
                                     /\ verdict = Dispatch(Asked(session), Head(inbox))
BY RangeRest, HeadInRange DEF Heard, IInv, Types, ConnectionOK

-------------------------------------------------------------------------------
(***************************************************************************)
(* The session.                                                            *)
(***************************************************************************)
\* Another pass, or another attempt, of a session.
LEMMA RetryType ==
    ASSUME NEW s \in SessionType, NEW m \in Seq(Miss), NEW a \in Nat
    PROVE  [s EXCEPT !.misses = m, !.attempt = a] \in SessionType
BY DEF SessionType

\* A pass starts without misses.
LEMMA NoMisses == <<>> \in Seq(Miss) /\ Len(<<>>) = 0
OBVIOUS

\* The generation a pass has reached.
LEMMA ProbedFacts ==
    ASSUME NEW s, s.misses \in Seq(Miss), Len(s.misses) < Current
    PROVE  /\ Probed(s) \in RepoKey
           /\ \A k \in RepoKey : k > Probed(s) =>
                \E i \in 1 .. Len(s.misses) : k = Current - i + 1
<1>1. Len(s.misses) \in Nat /\ Current \in Nat /\ RepoKey = 1 .. Current
  BY ConnectionAssumption DEF RepoKey
<1>2. Probed(s) = Current - Len(s.misses)
  BY DEF Probed
<1>3. ASSUME NEW k \in RepoKey, k > Probed(s)
      PROVE  \E i \in 1 .. Len(s.misses) : k = Current - i + 1
  <2>1. Current - k + 1 \in 1 .. Len(s.misses) /\ k = Current - (Current - k + 1) + 1
    BY <1>1, <1>2, <1>3
  <2>. QED  BY <2>1
<1>. QED  BY <1>1, <1>2, <1>3

\* The request a session waits for.
LEMMA AskedFacts ==
    ASSUME NEW s, SessionOK(s), s.phase # "idle"
    PROVE  /\ Asked(s) \in Request
           /\ s.phase = "probe" => Asked(s).op = "get" /\ Asked(s).key = Probed(s)
           /\ s.phase \in {"migrate", "pack"} => Asked(s).op = "put"
           /\ s.phase = "pack" => Asked(s).key = PackOf[s.data]
           /\ s.phase = "update" => /\ Asked(s).op = "update" /\ Asked(s).key = Current
                                    /\ Asked(s).data = {s.data}
<1>1. /\ s.phase \in Phase /\ s.misses \in Seq(Miss) /\ Len(s.misses) < Current
      /\ s.read \in SUBSET Write
      /\ s.phase \in {"pack", "update"} => s.data \in Own
  BY DEF SessionOK, SessionType
<1>2. Own \subseteq Write
  BY DEF Own
<1>3. CASE s.phase = "probe"
  <2>1. Asked(s) = [op |-> "get", key |-> Probed(s), data |-> {}]
    BY <1>3 DEF Asked, Get
  <2>. QED  BY <2>1, <1>1, <1>3, ProbedFacts, NoneFacts DEF Request
<1>4. CASE s.phase = "migrate"
  <2>1. Asked(s) = [op |-> "put", key |-> Current, data |-> s.read]
    BY <1>4 DEF Asked, Put
  <2>. QED  BY <2>1, <1>1, <1>4, NoneFacts DEF Request
<1>5. CASE s.phase = "pack"
  <2>1. Asked(s) = [op |-> "put", key |-> PackOf[s.data], data |-> {s.data}]
    BY <1>5 DEF Asked, Put
  <2>2. PackOf[s.data] \in Key /\ {s.data} \in SUBSET Write
    BY <1>1, <1>2, <1>5, SessionAssumption, NoneFacts
  <2>. QED  BY <2>1, <2>2, <1>5 DEF Request
<1>6. CASE s.phase = "update"
  <2>1. Asked(s) = [op |-> "update", key |-> Current, data |-> {s.data}]
    BY <1>6 DEF Asked, Update
  <2>2. {s.data} \in SUBSET Write
    BY <1>1, <1>2, <1>6
  <2>. QED  BY <2>1, <2>2, <1>6, NoneFacts DEF Request
<1>. QED  BY <1>1, <1>3, <1>4, <1>5, <1>6 DEF Phase

\* The queue of unanswered requests after one more.
LEMMA SendFacts ==
    ASSUME pending \in Seq(Request), NEW r \in Request, Send(r)
    PROVE  pending' \in Seq(Request) /\ Range(pending') \subseteq Range(pending) \cup {r}
<1>. DEFINE kept == IF Len(pending) < MaxPending THEN pending ELSE Tail(pending)
<1>1. kept \in Seq(Request) /\ Range(kept) \subseteq Range(pending)
  <2>1. Len(pending) >= MaxPending => pending # <<>>
    BY ConnectionAssumption
  <2>. QED  BY <2>1, RangeTail, ConnectionAssumption
<1>2. pending' = Append(kept, r)
  BY DEF Send
<1>. HIDE DEF kept
<1>. QED  BY <1>1, <1>2, RangeAppend

\* A session that goes on to its next request keeps the invariant.
LEMMA AwaitKeeps ==
    ASSUME IInv, NEW s, SessionOK(s), s.phase # "idle", session.phase # "update",
           ~BareOk /\ s.phase = "update" => store[PackOf[s.data]] # None,
           NEW unread \in Seq(Message), Range(unread) \subseteq Range(inbox),
           Await(s, unread), UNCHANGED <<before, acked>>
    PROVE  IInv'
<1>1. session' = s /\ inbox' = unread /\ Send(Asked(s)) /\ UNCHANGED <<store, subscribed>>
  BY DEF Await
<1>2. pending' \in Seq(Request) /\ Range(pending') \subseteq Range(pending) \cup {Asked(s)}
  BY <1>1, AskedFacts, SendFacts DEF IInv, Types
<1>3. Types'
  BY <1>1, <1>2 DEF IInv, Types
<1>4. SessionOK(session)'
  BY <1>1 DEF SessionOK, Bare
<1>5. \A m \in Range(inbox') : MessageTrue(m)'
  BY <1>1 DEF IInv, ConnectionOK, MessageTrue, Bare
<1>6. \A r \in Range(pending') : r.op = "update" =>
        session'.phase = "update" /\ r.key = Current /\ r.data = {session'.data}
  <2>1. \A r \in Range(pending) : r.op # "update"
    BY DEF IInv, ConnectionOK
  <2>2. Asked(s).op = "update" => s.phase = "update"
    BY AskedFacts DEF SessionOK, SessionType, Phase
  <2>. QED  BY <1>1, <1>2, <2>1, <2>2, AskedFacts
<1>7. ConnectionOK'
  BY <1>1, <1>5, <1>6 DEF IInv, ConnectionOK, Bare
<1>8. PackOK'
  BY <1>1 DEF PackOK
<1>. QED  BY <1>3, <1>4, <1>7, <1>8 DEF IInv

\* A session that ends keeps it when it reports no state only where there was none.
LEMMA EndKeeps ==
    ASSUME IInv, NEW outcome \in Outcome, End(outcome), UNCHANGED before,
           acked' \subseteq Own,
           outcome = "no_state" => \A k \in RepoKey : Bare(k)
    PROVE  IInv' /\ StoreGrows
<1>1. StoreGrows /\ subscribed' = {} /\ pending' = <<>> /\ inbox' = <<>>
  BY DisconnectGrows DEF IInv, End
<1>2. session' = [phase |-> "idle", data |-> None, attempt |-> 0, misses |-> <<>>,
                  read |-> {}, source |-> session.source, outcome |-> outcome]
  BY DEF End, Ended
<1>3. Types'
  BY <1>1 DEF IInv, Types, StoreGrows
<1>4. SessionOK(session)'
  <2>1. session' \in SessionType
    BY <1>2 DEF IInv, SessionOK, SessionType, Phase
  <2>2. session'.attempt <= ProbeAttempts /\ Len(session'.misses) < Current
    BY <1>2, SessionAssumption, ConnectionAssumption
  <2>. QED  BY <1>2, <2>1, <2>2 DEF IInv, SessionOK, Bare
<1>5. Range(inbox') = {} /\ Range(pending') = {}
  BY <1>1 DEF Range
<1>6. \A k \in Key : store'[k] \in {None, {}} => store[k] \in {None, {}}
  BY <1>1 DEF StoreGrows
<1>7. ConnectionOK'
  BY <1>1, <1>2, <1>5, <1>6 DEF IInv, ConnectionOK, Bare
<1>8. PackOK'
  BY <1>2 DEF PackOK
<1>. QED  BY <1>1, <1>3, <1>4, <1>7, <1>8 DEF IInv

-------------------------------------------------------------------------------
(***************************************************************************)
(* The helper's steps.                                                     *)
(***************************************************************************)
\* A new session starts from what is stored when it does.
LEMMA StartStep ==
    ASSUME IInv, Start
    PROVE  IInv'
<1>1. PICK data \in Own \cup {None} :
        Await([Ended("none") EXCEPT !.phase = "probe", !.data = data, !.attempt = 1], inbox)
  BY DEF Start
<1>. DEFINE s == [Ended("none") EXCEPT !.phase = "probe", !.data = data, !.attempt = 1]
<1>2. Await(s, inbox)
  BY <1>1
<1>3. /\ s \in SessionType /\ s.phase = "probe" /\ s.attempt = 1 /\ s.misses = <<>>
      /\ s.source = None /\ s.outcome = "none"
  <2>. DEFINE e == Ended("none")
  <2>1. /\ e \in SessionType /\ e.misses = <<>> /\ e.source = None /\ e.outcome = "none"
    BY NoMisses DEF Ended, SessionType, Phase, Outcome
  <2>. HIDE DEF e
  <2>2. /\ [e EXCEPT !.phase = "probe", !.data = data, !.attempt = 1] \in SessionType
        /\ [e EXCEPT !.phase = "probe", !.data = data, !.attempt = 1].phase = "probe"
        /\ [e EXCEPT !.phase = "probe", !.data = data, !.attempt = 1].attempt = 1
        /\ [e EXCEPT !.phase = "probe", !.data = data, !.attempt = 1].misses = e.misses
        /\ [e EXCEPT !.phase = "probe", !.data = data, !.attempt = 1].source = e.source
        /\ [e EXCEPT !.phase = "probe", !.data = data, !.attempt = 1].outcome = e.outcome
    BY <2>1 DEF SessionType, Phase
  <2>. QED  BY <2>1, <2>2 DEF e
<1>4. SessionOK(s)
  BY <1>3, NoMisses, SessionAssumption, ConnectionAssumption DEF SessionOK
<1>5. session.phase = "idle" /\ before' = store /\ acked' = acked
  BY DEF Start
<1>6. inbox = <<>> /\ pending = <<>> /\ subscribed = {}
  BY <1>5 DEF IInv, ConnectionOK
<1>7. s.phase = "probe"
  BY <1>3
<1>. HIDE DEF s
<1>8. session' = s /\ inbox' = <<>> /\ subscribed' = {} /\ store' = store /\ Send(Asked(s))
  BY <1>2, <1>6 DEF Await
<1>9. pending' \in Seq(Request) /\ Range(pending') \subseteq Range(pending) \cup {Asked(s)}
  BY <1>4, <1>7, <1>8, AskedFacts, SendFacts DEF IInv, Types
<1>10. Range(pending) = {} /\ Range(inbox') = {}
  BY <1>6, <1>8 DEF Range
<1>11. Types'
  BY <1>5, <1>8, <1>9 DEF IInv, Types
<1>12. SessionOK(session)'
  BY <1>3, <1>4, <1>8, NoMisses DEF SessionOK
<1>13. ConnectionOK'
  <2>1. \A r \in Range(pending') : r.op # "update"
    BY <1>4, <1>7, <1>9, <1>10, AskedFacts
  <2>. QED  BY <1>5, <1>7, <1>8, <1>10, <2>1 DEF ConnectionOK, Bare
<1>14. PackOK'
  BY <1>7, <1>8 DEF PackOK
<1>. QED  BY <1>11, <1>12, <1>13, <1>14 DEF IInv

\* What the helper does once it has a state.
LEMMA ContinueKeeps ==
    ASSUME IInv, NEW s, SessionOK(s), session.phase # "update",
           NEW unread \in Seq(Message), Range(unread) \subseteq Range(inbox),
           Continue(s, unread), UNCHANGED <<before, acked>>
    PROVE  IInv'
<1>1. CASE s.data = None \/ s.data \in s.read
  <2>1. End("ok")
    BY <1>1 DEF Continue
  <2>2. acked' \subseteq Own /\ "ok" \in Outcome
    BY DEF IInv, Types, Outcome
  <2>. QED  BY <2>1, <2>2, EndKeeps
<1>2. CASE ~(s.data = None \/ s.data \in s.read)
  <2>. DEFINE t == [s EXCEPT !.phase = "pack", !.attempt = 1]
  <2>1. Await(t, unread)
    BY <1>2 DEF Continue
  <2>2. s \in SessionType
    BY DEF SessionOK
  <2>3. /\ t \in SessionType /\ t.phase = "pack" /\ t.attempt = 1 /\ t.data = s.data
        /\ t.misses = s.misses /\ t.source = s.source /\ t.outcome = s.outcome
    BY <2>2 DEF SessionType, Phase
  <2>. HIDE DEF t
  <2>4. s.data \in Own
    BY <1>2, <2>2 DEF SessionType
  <2>5. SessionOK(t)
    BY <2>3, <2>4, SessionAssumption DEF SessionOK
  <2>. QED  BY <2>1, <2>3, <2>5, AwaitKeeps
<1>. QED  BY <1>1, <1>2

\* A state found under a generation is the newest that anybody held.
LEMMA ProbeHitStep ==
    ASSUME IInv, NEW unread, ProbeHit(unread), UNCHANGED <<before, acked>>
    PROVE  IInv'
<1>1. /\ session.phase = "probe" /\ Heard("state", unread)
      /\ session \in SessionType /\ SessionOK(session)
  BY DEF ProbeHit, IInv, SessionOK
<1>2. /\ unread \in Seq(Message) /\ Range(unread) \subseteq Range(inbox)
      /\ Head(inbox) \in Message /\ "state" = Dispatch(Asked(session), Head(inbox))
  BY <1>1, HeardFacts
<1>3. Head(inbox).kind = "state"
  BY <1>1, <1>2, AskedFacts DEF Dispatch, DispatchGet, Failed
<1>4. Head(inbox).data \in SUBSET Write
  BY <1>2, <1>3 DEF Message
<1>. DEFINE s == [session EXCEPT !.misses = <<>>, !.read = Head(inbox).data,
                                 !.source = Probed(session)]
<1>5. /\ Probed(session) \in RepoKey
      /\ \A k \in RepoKey : k > Probed(session) => Bare(k)
  BY <1>1, ProbedFacts DEF SessionOK, SessionType
<1>6. /\ s \in SessionType /\ s.misses = <<>> /\ s.source = Probed(session)
      /\ s.phase = "probe" /\ s.data = session.data /\ s.attempt = session.attempt
      /\ s.outcome = session.outcome
  BY <1>1, <1>4, <1>5, NoMisses DEF SessionType
<1>7. IF s.source = Current THEN Continue(s, unread)
      ELSE Await([s EXCEPT !.phase = "migrate"], unread)
  BY DEF ProbeHit
<1>. HIDE DEF s
<1>8. SessionOK(s)
  BY <1>1, <1>5, <1>6, ConnectionAssumption DEF SessionOK
<1>9. CASE s.source = Current
  BY <1>1, <1>2, <1>7, <1>8, <1>9, ContinueKeeps
<1>10. CASE s.source # Current
  <2>. DEFINE t == [s EXCEPT !.phase = "migrate"]
  <2>1. /\ t \in SessionType /\ t.phase = "migrate" /\ t.attempt = s.attempt
        /\ t.misses = s.misses /\ t.source = s.source /\ t.outcome = s.outcome
    BY <1>6 DEF SessionType, Phase
  <2>2. Await(t, unread)
    BY <1>7, <1>10
  <2>. HIDE DEF t
  <2>3. SessionOK(t)
    BY <1>6, <1>8, <2>1 DEF SessionOK
  <2>. QED  BY <1>1, <1>2, <2>1, <2>2, <2>3, AwaitKeeps
<1>. QED  BY <1>9, <1>10

\* A pass that failed is tried again, or reported for what it was.
LEMMA PassFailedKeeps ==
    ASSUME IInv, session.phase = "probe",
           NEW misses, FallbackFailure(misses) = "no_state" => \A k \in RepoKey : Bare(k),
           NEW unread \in Seq(Message), Range(unread) \subseteq Range(inbox),
           PassFailed(misses, unread), UNCHANGED <<before, acked>>
    PROVE  IInv'
<1>1. session \in SessionType /\ SessionOK(session)
  BY DEF IInv, SessionOK
<1>2. CASE session.attempt < ProbeAttempts /\ WorthRetrying(misses)
  <2>. DEFINE t == [session EXCEPT !.misses = <<>>, !.attempt = @ + 1]
  <2>1. Await(t, unread)
    BY <1>2 DEF PassFailed
  <2>2. /\ t.phase = "probe" /\ t.attempt = session.attempt + 1 /\ t.misses = <<>>
        /\ t.source = session.source /\ t.outcome = session.outcome
        /\ session.attempt \in Nat
    BY <1>1 DEF SessionType
  <2>5. t \in SessionType
    <3>1. session.attempt + 1 \in Nat
      BY <2>2
    <3>. QED  BY <1>1, <3>1, NoMisses, RetryType, Zenon
  <2>. HIDE DEF t
  <2>3. session.attempt + 1 <= ProbeAttempts
    BY <1>1, <1>2, SessionAssumption DEF SessionType
  <2>4. SessionOK(t)
    BY <1>1, <2>2, <2>3, <2>5, ConnectionAssumption DEF SessionOK
  <2>. QED  BY <2>1, <2>2, <2>4, AwaitKeeps
<1>3. CASE ~(session.attempt < ProbeAttempts /\ WorthRetrying(misses))
  <2>1. End(FallbackFailure(misses))
    BY <1>3 DEF PassFailed
  <2>2. FallbackFailure(misses) \in Outcome /\ acked' \subseteq Own
    BY DEF FallbackFailure, Outcome, IInv, Types
  <2>. QED  BY <2>1, <2>2, EndKeeps
<1>. QED  BY <1>2, <1>3

\* An answer that says a generation has nothing is believed, and only such answers
\* lead to the next generation or to "no state".
LEMMA ProbeMissStep ==
    ASSUME IInv, NEW miss \in Miss, NEW unread, ProbeMiss(miss, unread),
           UNCHANGED <<before, acked>>
    PROVE  IInv'
<1>1. /\ session.phase = "probe" /\ session \in SessionType /\ SessionOK(session)
      /\ session.misses \in Seq(Miss) /\ Len(session.misses) < Current
  BY DEF ProbeMiss, IInv, SessionOK, SessionType
<1>. DEFINE verdict == IF miss = "empty" THEN "state" ELSE miss
            misses  == Append(session.misses, miss)
<1>2. Heard(verdict, unread) /\ (miss = "empty" => Head(inbox).data = {})
  BY DEF ProbeMiss
<1>3. /\ unread \in Seq(Message) /\ Range(unread) \subseteq Range(inbox)
      /\ verdict # "timeout" => /\ Head(inbox) \in Message /\ MessageTrue(Head(inbox))
                                /\ verdict = Dispatch(Asked(session), Head(inbox))
  BY <1>2, HeardFacts
<1>4. Authoritative(miss) => Bare(Probed(session))
  <2>. SUFFICES ASSUME miss \in {"empty", "absent"} PROVE Bare(Probed(session))
    BY DEF Authoritative
  <2>. DEFINE m == Head(inbox)
  <2>1. verdict \in {"state", "absent"} /\ verdict = DispatchGet(Asked(session), m)
    BY <1>1, <1>3, AskedFacts DEF Dispatch
  <2>2. m.kind = verdict /\ m.key = Probed(session)
    BY <2>1, <1>1, AskedFacts DEF DispatchGet, Failed, For
  <2>3. MessageTrue(m)
    BY <1>3, <2>1
  <2>. QED  BY <2>2, <2>3, <1>2 DEF MessageTrue
<1>5. /\ misses \in Seq(Miss) /\ Len(misses) = Len(session.misses) + 1
      /\ Range(misses) = Range(session.misses) \cup {miss}
      /\ Len(misses) \in Nat
  BY <1>1, RangeAppend
<1>6. Authoritative(miss) => \A i \in 1 .. Len(misses) : Bare(Current - i + 1)
  <2>. SUFFICES ASSUME Authoritative(miss), NEW i \in 1 .. Len(misses)
                PROVE  Bare(Current - i + 1)
    OBVIOUS
  <2>1. CASE i \in 1 .. Len(session.misses)
    BY <2>1, <1>1 DEF SessionOK
  <2>2. CASE i = Len(session.misses) + 1
    <3>1. Current - i + 1 = Probed(session)
      BY <2>2, <1>1, ConnectionAssumption DEF Probed
    <3>. QED  BY <3>1, <1>4
  <2>. QED  BY <2>1, <2>2, <1>1, <1>5
<1>7. CASE Authoritative(miss) /\ Len(misses) < Current
  <2>. DEFINE t == [session EXCEPT !.misses = misses]
  <2>1. Await(t, unread)
    BY <1>7 DEF ProbeMiss
  <2>2. /\ t \in SessionType /\ t.phase = "probe" /\ t.attempt = session.attempt
        /\ t.misses = misses /\ t.source = session.source /\ t.outcome = session.outcome
    BY <1>1, <1>5 DEF SessionType
  <2>. HIDE DEF t, misses
  <2>3. SessionOK(t)
    BY <1>1, <1>6, <1>7, <2>2 DEF SessionOK
  <2>. QED  BY <1>1, <1>3, <2>1, <2>2, <2>3, AwaitKeeps
<1>8. CASE ~(Authoritative(miss) /\ Len(misses) < Current)
  <2>1. PassFailed(misses, unread)
    BY <1>8 DEF ProbeMiss
  <2>2. FallbackFailure(misses) = "no_state" => Range(misses) \subseteq {"empty", "absent"}
    BY DEF FallbackFailure
  <2>3. ASSUME Authoritative(miss), NEW k \in RepoKey
        PROVE  Bare(k)
    <3>1. Len(misses) >= Current
      BY <1>8, <2>3, <1>5, ConnectionAssumption
    <3>2. Current - k + 1 \in 1 .. Len(misses) /\ k = Current - (Current - k + 1) + 1
      BY <3>1, <1>5, ConnectionAssumption DEF RepoKey
    <3>. HIDE DEF misses
    <3>. QED  BY <3>2, <1>6, <2>3
  <2>4. FallbackFailure(misses) = "no_state" => Authoritative(miss)
    BY <2>2, <1>5 DEF Authoritative
  <2>. HIDE DEF misses
  <2>. QED  BY <1>1, <1>3, <2>1, <2>3, <2>4, PassFailedKeeps
<1>. QED  BY <1>7, <1>8

\* The failure of a migration is a warning; the session continues as after its success.
LEMMA MigrateStep ==
    ASSUME IInv, NEW verdict, NEW unread, Migrate(verdict, unread), UNCHANGED <<before, acked>>
    PROVE  IInv'
<1>1. session.phase = "migrate" /\ SessionOK(session)
  BY DEF Migrate, IInv
<1>2. unread \in Seq(Message) /\ Range(unread) \subseteq Range(inbox) /\ Continue(session, unread)
  BY HeardFacts DEF Migrate
<1>. QED  BY <1>1, <1>2, ContinueKeeps

\* The UPDATE follows an answer that is about the push's own pack.
LEMMA PackPutStep ==
    ASSUME IInv, NEW unread, PackPut(unread), UNCHANGED <<before, acked>>
    PROVE  IInv'
<1>1. /\ session.phase = "pack" /\ session \in SessionType /\ SessionOK(session)
      /\ Heard("done", unread)
  BY DEF PackPut, IInv, SessionOK
<1>2. /\ unread \in Seq(Message) /\ Range(unread) \subseteq Range(inbox)
      /\ MessageTrue(Head(inbox)) /\ "done" = Dispatch(Asked(session), Head(inbox))
  BY <1>1, HeardFacts
<1>3. ~BareOk => store[PackOf[session.data]] # None
  <2>. DEFINE m == Head(inbox)
  <2>1. "done" = DispatchPut(Asked(session), m) /\ Asked(session).key = PackOf[session.data]
    BY <1>1, <1>2, AskedFacts DEF Dispatch
  <2>2. m.kind = "ok" \/ (m.kind \in {"put", "note"} /\ m.key = PackOf[session.data])
    BY <2>1 DEF DispatchPut, Failed, For
  <2>. QED  BY <1>2, <2>2 DEF MessageTrue
<1>. DEFINE t == [session EXCEPT !.phase = "update"]
<1>4. Await(t, unread)
  BY DEF PackPut
<1>5. /\ t \in SessionType /\ t.phase = "update" /\ t.attempt = session.attempt
      /\ t.misses = session.misses /\ t.source = session.source
      /\ t.outcome = session.outcome /\ t.data = session.data
  BY <1>1 DEF SessionType, Phase
<1>. HIDE DEF t
<1>6. SessionOK(t)
  BY <1>1, <1>5 DEF SessionOK
<1>. QED  BY <1>1, <1>2, <1>3, <1>4, <1>5, <1>6, AwaitKeeps

\* A pack that could not be put is tried again, up to PutAttempts times.
LEMMA PackFailsStep ==
    ASSUME IInv, NEW verdict, NEW unread, PackFails(verdict, unread), UNCHANGED <<before, acked>>
    PROVE  IInv'
<1>1. /\ session.phase = "pack" /\ session \in SessionType /\ SessionOK(session)
      /\ unread \in Seq(Message) /\ Range(unread) \subseteq Range(inbox)
  BY HeardFacts DEF PackFails, IInv, SessionOK
<1>2. CASE session.attempt < PutAttempts
  <2>. DEFINE t == [session EXCEPT !.attempt = @ + 1]
  <2>1. Await(t, unread)
    BY <1>2 DEF PackFails
  <2>2. /\ t \in SessionType /\ t.phase = "pack" /\ t.attempt = session.attempt + 1
        /\ t.misses = session.misses /\ t.source = session.source
        /\ t.outcome = session.outcome /\ t.data = session.data
    BY <1>1 DEF SessionType
  <2>3. session.attempt + 1 <= PutAttempts
    BY <1>1, <1>2, SessionAssumption DEF SessionType
  <2>. HIDE DEF t
  <2>4. SessionOK(t)
    BY <1>1, <2>2, <2>3 DEF SessionOK
  <2>. QED  BY <1>1, <2>1, <2>2, <2>4, AwaitKeeps
<1>3. CASE ~(session.attempt < PutAttempts)
  <2>1. End("not_put") /\ "not_put" \in Outcome /\ acked' \subseteq Own
    BY <1>3 DEF PackFails, Outcome, IInv, Types
  <2>. QED  BY <2>1, EndKeeps
<1>. QED  BY <1>2, <1>3

\* The push that is told its update was applied has it in the contract, or heard
\* of some other write to a contract it is subscribed to.
LEMMA UpdatedStep ==
    ASSUME IInv, NEW unread, Updated(unread), UNCHANGED before
    PROVE  /\ IInv'
           /\ acked' = acked \cup {session.data}
           /\ ~BareOk => session.data \in store'[Current] \/ Current \in subscribed
<1>1. /\ session.phase = "update" /\ session \in SessionType /\ SessionOK(session)
      /\ Heard("done", unread) /\ End("ok") /\ acked' = acked \cup {session.data}
  BY DEF Updated, IInv, SessionOK
<1>2. MessageTrue(Head(inbox)) /\ "done" = Dispatch(Asked(session), Head(inbox))
  BY <1>1, HeardFacts
<1>3. "ok" \in Outcome /\ acked' \subseteq Own
  BY <1>1 DEF Outcome, IInv, Types, SessionOK
<1>4. IInv' /\ StoreGrows
  BY <1>1, <1>3, EndKeeps
<1>5. ~BareOk => session.data \in store'[Current] \/ Current \in subscribed
  <2>. DEFINE m == Head(inbox)
  <2>1. "done" = DispatchUpdate(Asked(session), m) /\ Asked(session).key = Current
    BY <1>1, <1>2, AskedFacts DEF Dispatch
  <2>2. m.kind = "ok" \/ (m.kind \in {"updated", "note"} /\ m.key = Current)
    BY <2>1 DEF DispatchUpdate, Failed, For
  <2>. QED  BY <1>2, <1>4, <2>2, NoneFacts DEF MessageTrue, StoreGrows
<1>. QED  BY <1>1, <1>4, <1>5

\* An UPDATE that failed ends the session.
LEMMA NotUpdatedStep ==
    ASSUME IInv, NEW verdict, NEW unread, NotUpdated(verdict, unread), UNCHANGED <<before, acked>>
    PROVE  IInv'
<1>1. End("not_updated") /\ "not_updated" \in Outcome /\ acked' \subseteq Own
  BY DEF NotUpdated, Outcome, IInv, Types
<1>. QED  BY <1>1, EndKeeps

\* A message that is not for the request goes unread.
LEMMA SkipStep ==
    ASSUME IInv, Skip
    PROVE  IInv'
<1>1. PICK unread \in {inbox, Rest(inbox)} :
        /\ Heard("skip", unread) /\ inbox' = unread
        /\ UNCHANGED <<store, subscribed, pending, session, before, acked>>
  BY DEF Skip
<1>2. session.phase # "idle" /\ unread \in Seq(Message) /\ Range(unread) \subseteq Range(inbox)
  BY <1>1, HeardFacts
<1>3. Types'
  BY <1>1, <1>2 DEF IInv, Types
<1>4. SessionOK(session)'
  BY <1>1 DEF IInv, SessionOK, Bare
<1>5. ConnectionOK'
  BY <1>1, <1>2 DEF IInv, ConnectionOK, MessageTrue, Bare
<1>6. PackOK'
  BY <1>1 DEF IInv, PackOK
<1>. QED  BY <1>3, <1>4, <1>5, <1>6 DEF IInv

-------------------------------------------------------------------------------
(***************************************************************************)
(* The node's steps, and everybody else's.                                 *)
(***************************************************************************)
\* The messages of a node.
LEMMA MessageKinds ==
    ASSUME NEW k \in Key
    PROVE  /\ \A d \in SUBSET Write : [kind |-> "state", key |-> k, data |-> d] \in Message
           /\ \A kind \in {"absent", "put", "updated", "note"} :
                [kind |-> kind, key |-> k] \in Message
           /\ \A kind \in {"ok", "transient", "hard"} : [kind |-> kind] \in Message
BY DEF Message

\* A message alone, or two.
LEMMA RangeShort ==
    ASSUME NEW T, NEW x \in T, NEW y \in T
    PROVE  /\ <<x>> \in Seq(T) /\ Range(<<x>>) = {x}
           /\ <<x, y>> \in Seq(T) /\ Range(<<x, y>>) = {x, y}
BY DEF Range

\* A reply of one true message.
LEMMA OneMessage ==
    ASSUME NEW m \in Message, MessageTrue(m)'
    PROVE  <<m>> \in Seq(Message) /\ \A x \in Range(<<m>>) : MessageTrue(x)'
<1>1. <<m>> \in Seq(Message) /\ Range(<<m>>) = {m}
  BY RangeShort
<1>. QED  BY <1>1

\* A notification is sent to subscribers only.
LEMMA NoteFacts ==
    ASSUME NEW k \in Key
    PROVE  /\ Note(k) \in Seq(Message)
           /\ \A m \in Range(Note(k)) : m = [kind |-> "note", key |-> k] /\ k \in subscribed
<1>1. CASE k \in subscribed
  BY <1>1, MessageKinds, RangeShort DEF Note
<1>2. CASE k \notin subscribed
  <2>1. Note(k) = <<>>
    BY <1>2 DEF Note
  <2>. QED  BY <2>1 DEF Range
<1>. QED  BY <1>1, <1>2

\* Whatever the node answers is true when it answers.
LEMMA ServeStep ==
    ASSUME IInv, Serve, UNCHANGED <<session, before, acked>>
    PROVE  IInv'
<1>1. PICK i \in DOMAIN pending :
        /\ ServeGet(i) \/ ServePut(i) \/ ServeUpdate(i) \/ Refuse(i)
        /\ pending' = RemoveAt(pending, i)
  BY DEF Serve
<1>2. /\ pending \in Seq(Request) /\ pending[i] \in Request /\ pending[i] \in Range(pending)
      /\ store \in [Key -> {None} \cup SUBSET Write] /\ subscribed \subseteq Key
  BY <1>1 DEF IInv, Types, Range
<1>3. pending' \in Seq(Request) /\ Range(pending') \subseteq Range(pending)
  BY <1>2, <1>1, RangeRemoveAt
<1>4. PICK r \in Request, k \in Key :
        r = pending[i] /\ k = r.key /\ r.data \in SUBSET Write /\ r \in Range(pending)
  BY <1>2, RequestFields
<1>5. /\ r = pending[i] /\ k = pending[i].key /\ r.key = k
      /\ r \in Range(pending) /\ r.data \in SUBSET Write
      /\ pending' \in Seq(Request) /\ Range(pending') \subseteq Range(pending)
      /\ store \in [Key -> {None} \cup SUBSET Write] /\ subscribed \subseteq Key
  BY <1>2, <1>3, <1>4
<1>6. session.phase # "idle"
  <2>1. pending # <<>>
    BY <1>1
  <2>. QED  BY <2>1 DEF IInv, ConnectionOK
<1>7. store[k] \in {None, {}} => Bare(k) /\ Bare(k)'
  BY <1>5 DEF IInv, ConnectionOK, Bare
<1>8. CASE ServeGet(i)
  <2>1. StoreGrows /\ subscribed' = subscribed
    BY <1>8, <1>5, SameStore DEF ServeGet
  <2>2. PICK m \in Message :
          /\ inbox' = inbox \o <<m>>
          /\ \/ m.kind = "absent" /\ m.key = k /\ store[k] = None
             \/ m.kind = "state" /\ m.key = k /\ m.data = store[k]
    <3>1. CASE store[k] = None
      BY <3>1, <1>5, <1>8, MessageKinds DEF ServeGet, Reply
    <3>2. CASE store[k] # None
      <4>1. store[k] \in SUBSET Write
        BY <1>5, <3>2
      <4>. QED  BY <3>2, <4>1, <1>5, <1>8, MessageKinds DEF ServeGet, Reply
    <3>. QED  BY <3>1, <3>2
  <2>3. MessageTrue(m)'
    BY <1>7, <2>2 DEF MessageTrue
  <2>4. <<m>> \in Seq(Message) /\ \A x \in Range(<<m>>) : MessageTrue(x)'
    BY <2>3, OneMessage
  <2>. QED  BY <1>5, <1>6, <2>1, <2>2, <2>4, NodeStep
<1>9. CASE ServePut(i)
  <2>. DEFINE put  == [kind |-> "put", key |-> k]
              echo == [kind |-> "note", key |-> k]
  <2>1. /\ store' = [store EXCEPT ![k] = Merged(k, r.data)]
        /\ subscribed' = subscribed \cup {k}
    BY <1>5, <1>9 DEF ServePut
  <2>2. StoreGrows /\ store'[k] # None
    BY <1>5, <2>1, MergeGrows
  <2>3. put \in Message /\ echo \in Message /\ [kind |-> "ok"] \in Message
    BY <1>5, MessageKinds
  <2>4. /\ MessageTrue(put)' /\ MessageTrue(echo)'
        /\ BareOk => MessageTrue([kind |-> "ok"])'
    BY <2>1, <2>2 DEF MessageTrue
  <2>5. \/ \E ms \in {<<put>>, <<put, echo>>, <<echo, put>>} : inbox' = inbox \o ms
        \/ BareOk /\ inbox' = inbox \o <<[kind |-> "ok"]>>
    BY <1>5, <1>9 DEF ServePut, Reply
  <2>. HIDE DEF put, echo
  <2>6. PICK ms \in Seq(Message) :
          inbox' = inbox \o ms /\ \A m \in Range(ms) : MessageTrue(m)'
    <3>1. CASE \E ms \in {<<put>>, <<put, echo>>, <<echo, put>>} : inbox' = inbox \o ms
      <4>1. /\ <<put>> \in Seq(Message) /\ Range(<<put>>) = {put}
            /\ <<put, echo>> \in Seq(Message) /\ Range(<<put, echo>>) = {put, echo}
            /\ <<echo, put>> \in Seq(Message) /\ Range(<<echo, put>>) = {put, echo}
        <5>1. <<put>> \in Seq(Message) /\ Range(<<put>>) = {put}
          BY <2>3, RangeShort, Zenon
        <5>2. <<put, echo>> \in Seq(Message) /\ Range(<<put, echo>>) = {put, echo}
          BY <2>3, RangeShort, Zenon
        <5>3. <<echo, put>> \in Seq(Message) /\ Range(<<echo, put>>) = {echo, put}
          BY <2>3, RangeShort, Zenon
        <5>. QED  BY <5>1, <5>2, <5>3
      <4>2. PICK ms \in {<<put>>, <<put, echo>>, <<echo, put>>} : inbox' = inbox \o ms
        BY <3>1
      <4>3. ms \in Seq(Message) /\ Range(ms) \subseteq {put, echo}
        BY <4>1, <4>2
      <4>. QED  BY <2>4, <4>2, <4>3
    <3>2. CASE BareOk /\ inbox' = inbox \o <<[kind |-> "ok"]>>
      BY <2>3, <2>4, <3>2, OneMessage
    <3>. QED  BY <2>5, <3>1, <3>2
  <2>7. /\ subscribed \subseteq subscribed' /\ subscribed' \subseteq Key
        /\ \A j \in subscribed' \ subscribed : store'[j] # None
    BY <1>5, <2>1, <2>2
  <2>. QED  BY <1>5, <1>6, <2>2, <2>6, <2>7, NodeStep
<1>10. CASE ServeUpdate(i)
  <2>1. /\ r.op = "update" /\ subscribed' = subscribed
        /\ session.phase = "update" /\ k = Current /\ r.data = {session.data}
    BY <1>5, <1>10 DEF ServeUpdate, IInv, ConnectionOK
  <2>2. CASE Stateless(k)
    <3>1. store' = store
      BY <2>2, <1>5, <1>10 DEF ServeUpdate
    <3>2. PICK m \in Message :
            /\ inbox' = inbox \o <<m>>
            /\ m.kind = "hard" \/ (m.kind = "absent" /\ m.key = k /\ store[k] = None)
      BY <1>5, <2>2, <1>10, MessageKinds DEF ServeUpdate, Reply
    <3>3. MessageTrue(m)'
      BY <1>7, <2>2, <3>2 DEF MessageTrue
    <3>4. <<m>> \in Seq(Message) /\ \A x \in Range(<<m>>) : MessageTrue(x)'
      BY <3>3, OneMessage
    <3>5. StoreGrows
      BY <1>5, <3>1, SameStore
    <3>. QED  BY <1>5, <1>6, <2>1, <3>2, <3>4, <3>5, NodeStep
  <2>3. CASE ~Stateless(k)
    <3>. DEFINE done == [kind |-> "updated", key |-> k]
                ok   == [kind |-> "ok"]
                note == [kind |-> "note", key |-> k]
    <3>1. /\ store' = [store EXCEPT ![k] = Merged(k, r.data)]
          /\ \/ inbox' = inbox \o (Note(k) \o <<done>>)
             \/ BareOk /\ inbox' = inbox \o <<ok>>
      BY <2>3, <1>5, <1>10 DEF ServeUpdate, Reply
    <3>2. StoreGrows /\ store'[k] # None /\ r.data \subseteq store'[k]
      BY <1>5, <3>1, MergeGrows
    <3>3. done \in Message /\ ok \in Message
      BY <1>5, MessageKinds
    <3>4. /\ MessageTrue(done)'
          /\ BareOk => MessageTrue(ok)'
          /\ k \in subscribed => MessageTrue(note)'
      BY <2>1, <3>2 DEF MessageTrue
    <3>5. <<done>> \in Seq(Message) /\ <<ok>> \in Seq(Message)
          /\ Range(<<done>>) = {done} /\ Range(<<ok>>) = {ok}
      BY <3>3, RangeShort
    <3>6. /\ Note(k) \in Seq(Message)
          /\ \A m \in Range(Note(k)) : m = note /\ k \in subscribed
      BY <1>5, NoteFacts
    <3>. HIDE DEF done, ok, note
    <3>7. /\ Note(k) \o <<done>> \in Seq(Message)
          /\ Range(Note(k) \o <<done>>) \subseteq Range(Note(k)) \cup {done}
      BY <3>5, <3>6, RangeConcat
    <3>8. PICK ms \in Seq(Message) :
            inbox' = inbox \o ms /\ \A m \in Range(ms) : MessageTrue(m)'
      <4>1. CASE inbox' = inbox \o (Note(k) \o <<done>>)
        <5>1. \A m \in Range(Note(k) \o <<done>>) : MessageTrue(m)'
          BY <3>4, <3>6, <3>7
        <5>. QED  BY <3>7, <4>1, <5>1
      <4>2. CASE BareOk /\ inbox' = inbox \o <<ok>>
        BY <3>4, <3>5, <4>2
      <4>. QED  BY <3>1, <4>1, <4>2
    <3>. QED  BY <1>5, <1>6, <2>1, <3>2, <3>8, NodeStep
  <2>. QED  BY <2>2, <2>3
<1>11. CASE Refuse(i)
  <2>1. StoreGrows /\ subscribed' = subscribed
    BY <1>11, <1>5, SameStore DEF Refuse
  <2>2. PICK m \in Message :
          inbox' = inbox \o <<m>> /\ m.kind \in {"transient", "hard"}
    BY <1>5, <1>11, MessageKinds DEF Refuse, Reply
  <2>3. MessageTrue(m)'
    BY <2>2 DEF MessageTrue
  <2>4. <<m>> \in Seq(Message) /\ \A x \in Range(<<m>>) : MessageTrue(x)'
    BY <2>3, OneMessage
  <2>. QED  BY <1>5, <1>6, <2>1, <2>2, <2>4, NodeStep
<1>. QED  BY <1>1, <1>8, <1>9, <1>10, <1>11

\* Whatever others write, the helper hears of it only as a notification.
LEMMA ElsewhereStep ==
    ASSUME IInv, Elsewhere, UNCHANGED <<session, before, acked>>
    PROVE  IInv'
<1>1. /\ store \in [Key -> {None} \cup SUBSET Write] /\ subscribed \subseteq Key
      /\ pending' = pending /\ subscribed' = subscribed /\ pending \in Seq(Request)
      /\ inbox \in Seq(Message)
  BY DEF IInv, Types, Elsewhere
<1>2. PICK k \in RepoKey : /\ StoreGrows /\ store'[k] # None
                           /\ inbox' = inbox \o Note(k)
  <2>1. CASE OthersWrite
    <3>1. PICK k \in RepoKey, u \in Foreign :
            /\ store[k] # None /\ store' = [store EXCEPT ![k] = @ \cup {u}] /\ Reply(Note(k))
      BY <2>1 DEF OthersWrite, Holding, Stateless
    <3>2. k \in Key /\ {u} \in SUBSET Write
      BY ConnectionAssumption, NoneFacts
    <3>3. store' = [store EXCEPT ![k] = Merged(k, {u})]
      BY <3>1, <3>2, <1>1 DEF Merged
    <3>4. StoreGrows /\ store'[k] # None
      BY <1>1, <3>2, <3>3, MergeGrows
    <3>. QED  BY <3>1, <3>4 DEF Reply
  <2>2. CASE OthersMigrate
    <3>1. PICK k \in Holding :
            /\ Current \notin Holding /\ store' = [store EXCEPT ![Current] = store[k]]
            /\ Reply(Note(Current))
      BY <2>2 DEF OthersMigrate
    <3>2. /\ Current \in Key /\ k \in Key /\ store[k] \in SUBSET Write /\ store[k] # None
          /\ store[Current] \in {None, {}}
      BY <1>1, <3>1, NoneFacts DEF Holding, Stateless
    <3>3. StoreGrows /\ store'[Current] # None
      BY <1>1, <3>1, <3>2 DEF StoreGrows
    <3>. QED  BY <3>1, <3>3, NoneFacts DEF Reply
  <2>. QED  BY <2>1, <2>2 DEF Elsewhere
<1>3. /\ k \in Key /\ Note(k) \in Seq(Message)
      /\ \A m \in Range(Note(k)) : m = [kind |-> "note", key |-> k] /\ k \in subscribed
  BY NoteFacts, NoneFacts
<1>4. \A m \in Range(Note(k)) : MessageTrue(m)'
  <2>1. k \in subscribed => MessageTrue([kind |-> "note", key |-> k])'
    BY <1>1, <1>2 DEF MessageTrue
  <2>. QED  BY <1>3, <2>1
<1>5. session.phase # "idle" \/ (inbox' = <<>> /\ pending' = <<>> /\ subscribed' = {})
  <2>. SUFFICES ASSUME session.phase = "idle"
                PROVE  inbox' = <<>> /\ pending' = <<>> /\ subscribed' = {}
    OBVIOUS
  <2>1. inbox = <<>> /\ pending = <<>> /\ subscribed = {}
    BY DEF IInv, ConnectionOK
  <2>2. Note(k) = <<>>
    BY <2>1 DEF Note
  <2>. QED  BY <1>1, <1>2, <2>1, <2>2
<1>. QED  BY <1>1, <1>2, <1>3, <1>4, <1>5, NodeStep

-------------------------------------------------------------------------------
(***************************************************************************)
(* Invariance.                                                             *)
(***************************************************************************)
\* Nothing has been read or asked at the start.
LEMMA InitIInv == Init => IInv
<1>. SUFFICES ASSUME Init PROVE IInv
  OBVIOUS
<1>1. /\ store \in [Key -> {None} \cup SUBSET Write] /\ before = store
      /\ subscribed = {} /\ pending = <<>> /\ inbox = <<>> /\ acked = {}
  <2>1. PICK held \in [RepoKey -> {None, {}, Published}] :
          store = [k \in Key |-> IF k \in RepoKey THEN held[k] ELSE None]
    BY DEF Init
  <2>2. Published \in SUBSET Write /\ {} \in SUBSET Write
    BY SessionAssumption, ConnectionAssumption
  <2>. QED  BY <2>1, <2>2 DEF Init
<1>2. Types
  BY <1>1 DEF Types
<1>3. session = [phase |-> "idle", data |-> None, attempt |-> 0, misses |-> <<>>,
                 read |-> {}, source |-> None, outcome |-> "none"]
  BY DEF Init, Ended
<1>4. SessionOK(session)
  <2>1. session \in SessionType
    BY <1>3, NoMisses DEF SessionType, Phase, Outcome
  <2>. QED  BY <1>3, <2>1, NoMisses, SessionAssumption, ConnectionAssumption DEF SessionOK
<1>5. Range(inbox) = {} /\ Range(pending) = {}
  BY <1>1 DEF Range
<1>6. ConnectionOK
  BY <1>1, <1>5 DEF ConnectionOK, Bare
<1>7. PackOK
  BY <1>3 DEF PackOK
<1>. QED  BY <1>2, <1>4, <1>6, <1>7 DEF IInv

\* The receive loop's steps other than the answer to the UPDATE.
LEMMA ReceiveStep ==
    ASSUME IInv, NEW unread, Receive(unread), ~Updated(unread), UNCHANGED before
    PROVE  IInv' /\ UNCHANGED acked
BY ProbeHitStep, ProbeMissStep, MigrateStep, PackPutStep, PackFailsStep, NotUpdatedStep
   DEF Receive

\* Every step keeps the invariant.
LEMMA NextIInv == IInv /\ [Next]_vars => IInv'
<1>. SUFFICES ASSUME IInv, [Next]_vars PROVE IInv'
  OBVIOUS
<1>1. CASE Start
  BY <1>1, StartStep
<1>2. CASE Skip
  BY <1>2, SkipStep
<1>3. CASE Step
  <2>1. PICK unread : Receive(unread) /\ UNCHANGED before
    BY <1>3 DEF Step
  <2>. QED  BY <2>1, ReceiveStep, UpdatedStep
<1>4. CASE (Serve \/ Elsewhere) /\ UNCHANGED <<session, before, acked>>
  BY <1>4, ServeStep, ElsewhereStep
<1>5. CASE UNCHANGED vars
  <2>1. Types'
    BY <1>5 DEF vars, IInv, Types
  <2>2. SessionOK(session)'
    BY <1>5 DEF vars, IInv, SessionOK, Bare
  <2>3. ConnectionOK'
    BY <1>5 DEF vars, IInv, ConnectionOK, MessageTrue, Bare
  <2>4. PackOK'
    BY <1>5 DEF vars, IInv, PackOK
  <2>. QED  BY <2>1, <2>2, <2>3, <2>4 DEF IInv
<1>. QED  BY <1>1, <1>2, <1>3, <1>4, <1>5 DEF Next

\* The invariant holds of every behaviour.
LEMMA Invariance == Spec => []IInv
BY InitIInv, NextIInv, PTL DEF Spec

-------------------------------------------------------------------------------
(***************************************************************************)
(* The migration.  Newest(n): the repo was under n when the session        *)
(* started.  Whatever reaches the current contract while the session lasts *)
(* holds what n held then, because an UPDATE needs a state to merge into   *)
(* and every PUT carries n's.                                              *)
(***************************************************************************)
Newest(n) == n \in RepoKey /\ ~Bare(n) /\ \A k \in RepoKey : k > n => Bare(k)

\* What an unread message says of n and of the current contract.
MessageKeeps(m, n) ==
    /\ m.kind = "state" /\ m.key = n => before[n] \subseteq m.data
    /\ m.kind \in {"put", "note", "updated"} /\ m.key = Current => ~Stateless(Current)

\* Where the state of n is while the session lasts.
Carried(n) ==
    /\ store[n] # None /\ before[n] \subseteq store[n]
    /\ Stateless(Current) \/ before[n] \subseteq store[Current]
    /\ session.phase = "migrate" => before[n] \subseteq session.read
    /\ \A m \in Range(inbox) : MessageKeeps(m, n)
    /\ \A r \in Range(pending) : r.op = "put" /\ r.key = Current => before[n] \subseteq r.data

\* Nobody writes to a predecessor that has no state, and an answer that a predecessor
\* has one means that it had one before.
Predecessors ==
    /\ \A k \in RepoKey \ {Current} : Bare(k) => Stateless(k)
    /\ \A r \in Range(pending) : r.op = "put" => r.key \in PackKey \cup {Current}
    /\ \A m \in Range(inbox) :
          m.kind = "state" /\ m.key \in RepoKey \ {Current} /\ m.data # {} => ~Bare(m.key)

RepoKept == session.phase # "idle" => Predecessors /\ \A n : Newest(n) => Carried(n)

\* The fields of a message that names a contract.
LEMMA MessageFields ==
    ASSUME NEW m \in Message
    PROVE  /\ m.kind \in {"state", "absent", "put", "updated", "note"} => m.key \in Key
           /\ m.kind = "state" => m.data \in SUBSET Write
BY DEF Message

\* Only Current is PUT among the generations.
LEMMA Disjoint == \A k \in RepoKey \ {Current} : k \notin PackKey \cup {Current}
BY ConnectionAssumption

\* A step of the node, or of somebody else, keeps the repo when what it adds to the
\* inbox does.
LEMMA NodeKeeps ==
    ASSUME IInv, RepoKept, StoreGrows, UNCHANGED <<session, before>>, session.phase # "idle",
           pending' \in Seq(Request), Range(pending') \subseteq Range(pending),
           \A k \in RepoKey \ {Current} : Stateless(k) => store'[k] = store[k],
           \A n : Newest(n) => Stateless(Current)' \/ before[n] \subseteq store'[Current],
           NEW messages \in Seq(Message), inbox' = inbox \o messages,
           \A m \in Range(messages) :
               /\ \A n : Newest(n) => MessageKeeps(m, n)'
               /\ m.kind = "state" /\ m.key \in RepoKey \ {Current} /\ m.data # {}
                    => ~Bare(m.key)
    PROVE  RepoKept'
<1>1. Range(inbox') \subseteq Range(inbox) \cup Range(messages)
  BY RangeConcat DEF IInv, Types
<1>2. /\ Predecessors /\ \A n : Newest(n) => Carried(n)
      /\ \A k : Bare(k)' <=> Bare(k)
      /\ \A n : Newest(n)' <=> Newest(n)
      /\ Current \in Key /\ RepoKey \subseteq Key
  BY NoneFacts DEF RepoKept, Bare, Newest
<1>3. Predecessors'
  <2>1. \A k \in RepoKey \ {Current} : Bare(k)' => Stateless(k)'
    BY <1>2 DEF Predecessors, Stateless
  <2>2. \A r \in Range(pending') : r.op = "put" => r.key \in PackKey \cup {Current}
    BY <1>2 DEF Predecessors
  <2>3. \A m \in Range(inbox') :
          m.kind = "state" /\ m.key \in RepoKey \ {Current} /\ m.data # {} => ~Bare(m.key)
    BY <1>1, <1>2 DEF Predecessors
  <2>. QED  BY <1>2, <2>1, <2>2, <2>3 DEF Predecessors
<1>4. ASSUME NEW n, Newest(n) PROVE Carried(n)'
  <2>1. Carried(n) /\ n \in Key
    BY <1>2, <1>4 DEF Newest
  <2>2. store'[n] # None /\ before[n] \subseteq store'[n]
    BY <2>1 DEF Carried, StoreGrows
  <2>3. ~Stateless(Current) => ~Stateless(Current)'
    BY <1>2 DEF StoreGrows, Stateless
  <2>4. \A m \in Range(inbox') : MessageKeeps(m, n)'
    <3>1. ASSUME NEW m \in Range(inbox) PROVE MessageKeeps(m, n)'
      BY <2>1, <2>3 DEF Carried, MessageKeeps
    <3>. QED  BY <1>1, <1>4, <3>1
  <2>. QED  BY <1>4, <2>1, <2>2, <2>4 DEF Carried
<1>. QED  BY <1>2, <1>3, <1>4 DEF RepoKept

\* The node's answers.
LEMMA ServeKeeps ==
    ASSUME IInv, RepoKept, Serve, UNCHANGED <<session, before, acked>>
    PROVE  RepoKept'
<1>1. PICK i \in DOMAIN pending :
        /\ ServeGet(i) \/ ServePut(i) \/ ServeUpdate(i) \/ Refuse(i)
        /\ pending' = RemoveAt(pending, i)
  BY DEF Serve
<1>2. /\ pending \in Seq(Request) /\ pending[i] \in Request /\ pending[i] \in Range(pending)
      /\ store \in [Key -> {None} \cup SUBSET Write] /\ subscribed \subseteq Key
  BY <1>1 DEF IInv, Types, Range
<1>3. PICK r \in Request, k \in Key :
        r = pending[i] /\ k = r.key /\ r.data \in SUBSET Write /\ r \in Range(pending)
  BY <1>2, RequestFields
<1>4. /\ r = pending[i] /\ k = pending[i].key /\ r.key = k
      /\ r \in Range(pending) /\ r.data \in SUBSET Write
      /\ pending' \in Seq(Request) /\ Range(pending') \subseteq Range(pending)
      /\ store \in [Key -> {None} \cup SUBSET Write]
  BY <1>1, <1>2, <1>3, RangeRemoveAt
<1>5. session.phase # "idle"
  <2>1. pending # <<>>
    BY <1>1
  <2>. QED  BY <2>1 DEF IInv, ConnectionOK
<1>6. Predecessors /\ \A n : Newest(n) => Carried(n)
  BY <1>5 DEF RepoKept
<1>7. CASE ServeGet(i)
  <2>1. StoreGrows /\ store' = store
    BY <1>7, <1>4, SameStore DEF ServeGet
  <2>2. PICK m \in Message :
          /\ inbox' = inbox \o <<m>>
          /\ \/ m.kind = "absent"
             \/ m.kind = "state" /\ m.key = k /\ m.data = store[k] /\ store[k] # None
    <3>1. CASE store[k] = None
      BY <3>1, <1>4, <1>7, MessageKinds DEF ServeGet, Reply
    <3>2. CASE store[k] # None
      <4>1. store[k] \in SUBSET Write
        BY <1>4, <3>2
      <4>. QED  BY <3>2, <4>1, <1>4, <1>7, MessageKinds DEF ServeGet, Reply
    <3>. QED  BY <3>1, <3>2
  <2>3. \A n : Newest(n) => MessageKeeps(m, n)'
    BY <1>6, <2>1, <2>2 DEF Carried, MessageKeeps
  <2>4. m.kind = "state" /\ m.key \in RepoKey \ {Current} /\ m.data # {} => ~Bare(m.key)
    BY <1>6, <2>2 DEF Predecessors, Stateless
  <2>5. <<m>> \in Seq(Message) /\ Range(<<m>>) = {m}
    BY RangeShort
  <2>6. \A n : Newest(n) => Stateless(Current)' \/ before[n] \subseteq store'[Current]
    BY <1>6, <2>1 DEF Carried, Stateless
  <2>7. \A x \in Range(<<m>>) :
           /\ \A n : Newest(n) => MessageKeeps(x, n)'
           /\ x.kind = "state" /\ x.key \in RepoKey \ {Current} /\ x.data # {} => ~Bare(x.key)
    BY <2>3, <2>4, <2>5
  <2>. QED  BY <1>4, <1>5, <2>1, <2>2, <2>5, <2>6, <2>7, NodeKeeps
<1>8. CASE ServePut(i)
  <2>. DEFINE put  == [kind |-> "put", key |-> k]
              echo == [kind |-> "note", key |-> k]
              ok   == [kind |-> "ok"]
  <2>1. store' = [store EXCEPT ![k] = Merged(k, r.data)] /\ r.op = "put"
    BY <1>4, <1>8 DEF ServePut
  <2>2. StoreGrows /\ store'[k] # None /\ r.data \subseteq store'[k]
    BY <1>4, <2>1, MergeGrows
  <2>3. k \in PackKey \cup {Current}
    BY <1>4, <1>6, <2>1 DEF Predecessors
  <2>4. \A j \in RepoKey \ {Current} : store'[j] = store[j]
    BY <2>1, <2>3, Disjoint
  <2>5. ASSUME NEW n, Newest(n)
        PROVE  /\ Stateless(Current)' \/ before[n] \subseteq store'[Current]
               /\ k = Current => ~Stateless(Current)'
    <3>1. Carried(n) /\ n \in Key /\ before[n] # {} /\ Current \in Key
      BY <1>6, <2>5, NoneFacts DEF Newest, Bare
    <3>2. CASE k = Current
      BY <1>4, <2>1, <2>2, <3>1, <3>2 DEF Carried, Stateless
    <3>3. CASE k # Current
      BY <2>1, <3>1, <3>3 DEF Carried, Stateless
    <3>. QED  BY <3>2, <3>3
  <2>6. put \in Message /\ echo \in Message /\ ok \in Message
    BY MessageKinds
  <2>7. \A n : Newest(n) => MessageKeeps(put, n)' /\ MessageKeeps(echo, n)' /\ MessageKeeps(ok, n)'
    BY <2>5 DEF MessageKeeps
  <2>8. put.kind # "state" /\ echo.kind # "state" /\ ok.kind # "state"
    OBVIOUS
  <2>9. \E ms \in {<<put>>, <<put, echo>>, <<echo, put>>, <<ok>>} : inbox' = inbox \o ms
    BY <1>4, <1>8 DEF ServePut, Reply
  <2>. HIDE DEF put, echo, ok
  <2>10. \A ms \in {<<put>>, <<put, echo>>, <<echo, put>>, <<ok>>} :
            ms \in Seq(Message) /\ Range(ms) \subseteq {put, echo, ok}
    <3>1. <<put>> \in Seq(Message) /\ Range(<<put>>) = {put}
      BY <2>6, RangeShort, Zenon
    <3>2. <<put, echo>> \in Seq(Message) /\ Range(<<put, echo>>) = {put, echo}
      BY <2>6, RangeShort, Zenon
    <3>3. <<echo, put>> \in Seq(Message) /\ Range(<<echo, put>>) = {echo, put}
      BY <2>6, RangeShort, Zenon
    <3>4. <<ok>> \in Seq(Message) /\ Range(<<ok>>) = {ok}
      BY <2>6, RangeShort, Zenon
    <3>. QED  BY <3>1, <3>2, <3>3, <3>4
  <2>11. PICK ms \in Seq(Message) : inbox' = inbox \o ms /\ Range(ms) \subseteq {put, echo, ok}
    BY <2>9, <2>10
  <2>12. \A x \in Range(ms) :
           /\ \A n : Newest(n) => MessageKeeps(x, n)'
           /\ x.kind = "state" /\ x.key \in RepoKey \ {Current} /\ x.data # {} => ~Bare(x.key)
    BY <2>7, <2>8, <2>11
  <2>. QED  BY <1>4, <1>5, <2>2, <2>4, <2>5, <2>11, <2>12, NodeKeeps
<1>9. CASE ServeUpdate(i)
  <2>1. r.op = "update" /\ k = Current
    BY <1>4, <1>9 DEF ServeUpdate, IInv, ConnectionOK
  <2>2. StoreGrows /\ \A j \in RepoKey \ {Current} : store'[j] = store[j]
    <3>1. CASE store' = store
      BY <1>4, <3>1, SameStore
    <3>2. CASE store' = [store EXCEPT ![k] = Merged(k, r.data)]
      <4>1. StoreGrows
        BY <1>4, <3>2, MergeGrows
      <4>2. store \in [Key -> {None} \cup SUBSET Write]
        BY <1>4
      <4>3. \A j \in RepoKey \ {Current} : store'[j] = store[j]
        BY <2>1, <3>2, <4>2, NoneFacts
      <4>. QED  BY <4>1, <4>3
    <3>. QED  BY <1>4, <1>9, <3>1, <3>2 DEF ServeUpdate
  <2>3. /\ Stateless(k) => store' = store
        /\ ~Stateless(k) => ~Stateless(k)'
    BY <1>4, <1>9, <2>2 DEF ServeUpdate, Stateless, StoreGrows
  <2>4. \A n : Newest(n) => Stateless(Current)' \/ before[n] \subseteq store'[Current]
    <3>. SUFFICES ASSUME NEW n, Newest(n)
                  PROVE  Stateless(Current)' \/ before[n] \subseteq store'[Current]
      OBVIOUS
    <3>1. Stateless(Current) \/ before[n] \subseteq store[Current]
      BY <1>6 DEF Carried
    <3>2. CASE Stateless(Current)
      BY <2>1, <2>3, <3>2 DEF Stateless
    <3>3. CASE ~Stateless(Current)
      BY <1>4, <2>1, <2>2, <3>1, <3>3 DEF StoreGrows, Stateless
    <3>. QED  BY <3>2, <3>3
  <2>. DEFINE done == [kind |-> "updated", key |-> k]
              note == [kind |-> "note", key |-> k]
  <2>5. PICK ms \in Seq(Message) :
          /\ inbox' = inbox \o ms
          /\ \A m \in Range(ms) :
               \/ m.kind \in {"hard", "absent", "ok"}
               \/ m \in {done, note} /\ ~Stateless(k)
    <3>1. CASE Stateless(k)
      <4>1. PICK m \in Message :
              inbox' = inbox \o <<m>> /\ m.kind \in {"hard", "absent", "ok"}
        BY <1>4, <1>9, <3>1, MessageKinds DEF ServeUpdate, Reply
      <4>2. <<m>> \in Seq(Message) /\ Range(<<m>>) = {m}
        BY RangeShort
      <4>. QED  BY <4>1, <4>2
    <3>2. CASE ~Stateless(k)
      <4>. DEFINE ok == [kind |-> "ok"]
      <4>1. inbox' = inbox \o (Note(k) \o <<done>>) \/ inbox' = inbox \o <<ok>>
        BY <1>4, <1>9, <3>2 DEF ServeUpdate, Reply
      <4>2. /\ Note(k) \in Seq(Message)
            /\ \A m \in Range(Note(k)) : m = note
        BY NoteFacts
      <4>3. done \in Message /\ ok \in Message /\ ok.kind = "ok"
        BY MessageKinds
      <4>. HIDE DEF done, note, ok
      <4>4. /\ <<done>> \in Seq(Message) /\ Range(<<done>>) = {done}
            /\ <<ok>> \in Seq(Message) /\ Range(<<ok>>) = {ok}
        BY <4>3, RangeShort
      <4>5. /\ Note(k) \o <<done>> \in Seq(Message)
            /\ Range(Note(k) \o <<done>>) \subseteq Range(Note(k)) \cup {done}
        BY <4>2, <4>4, RangeConcat
      <4>6. CASE inbox' = inbox \o (Note(k) \o <<done>>)
        <5>1. \A m \in Range(Note(k) \o <<done>>) : m \in {done, note}
          BY <4>2, <4>5
        <5>. QED  BY <3>2, <4>5, <4>6, <5>1
      <4>7. CASE inbox' = inbox \o <<ok>>
        BY <4>3, <4>4, <4>7
      <4>. QED  BY <4>1, <4>6, <4>7
    <3>. QED  BY <3>1, <3>2
  <2>6. \A x \in Range(ms) :
           /\ \A n : Newest(n) => MessageKeeps(x, n)'
           /\ x.kind = "state" /\ x.key \in RepoKey \ {Current} /\ x.data # {} => ~Bare(x.key)
    BY <2>1, <2>3, <2>5 DEF MessageKeeps
  <2>. QED  BY <1>4, <1>5, <2>2, <2>4, <2>5, <2>6, NodeKeeps
<1>10. CASE Refuse(i)
  <2>1. StoreGrows /\ store' = store
    BY <1>10, <1>4, SameStore DEF Refuse
  <2>2. PICK m \in Message : inbox' = inbox \o <<m>> /\ m.kind \in {"transient", "hard"}
    BY <1>10, MessageKinds DEF Refuse, Reply
  <2>3. <<m>> \in Seq(Message) /\ Range(<<m>>) = {m}
    BY RangeShort
  <2>4. \A n : Newest(n) => Stateless(Current)' \/ before[n] \subseteq store'[Current]
    BY <1>6, <2>1 DEF Carried, Stateless
  <2>5. \A x \in Range(<<m>>) :
           /\ \A n : Newest(n) => MessageKeeps(x, n)'
           /\ x.kind = "state" /\ x.key \in RepoKey \ {Current} /\ x.data # {} => ~Bare(x.key)
    BY <2>2, <2>3 DEF MessageKeeps
  <2>. QED  BY <1>4, <1>5, <2>1, <2>2, <2>3, <2>4, <2>5, NodeKeeps
<1>. QED  BY <1>1, <1>7, <1>8, <1>9, <1>10

\* Other helpers extend what there is, or migrate the newest of it.
LEMMA ElsewhereKeeps ==
    ASSUME IInv, RepoKept, Elsewhere, UNCHANGED <<session, before, acked>>
    PROVE  RepoKept'
<1>. SUFFICES ASSUME session.phase # "idle" PROVE RepoKept'
  BY DEF RepoKept
<1>1. /\ store \in [Key -> {None} \cup SUBSET Write]
      /\ pending' = pending /\ pending \in Seq(Request)
      /\ Current \in Key /\ Current \in RepoKey /\ RepoKey \subseteq Key
  BY NoneFacts DEF IInv, Types, Elsewhere
<1>2. Predecessors /\ \A n : Newest(n) => Carried(n)
  BY DEF RepoKept
<1>3. PICK k \in RepoKey :
        /\ StoreGrows /\ ~Stateless(k)' /\ inbox' = inbox \o Note(k)
        /\ \A j \in RepoKey \ {Current} : Stateless(j) => store'[j] = store[j]
        /\ \A n : Newest(n) => Stateless(Current)' \/ before[n] \subseteq store'[Current]
  <2>1. CASE OthersWrite
    <3>1. PICK k \in RepoKey, u \in Foreign :
            /\ ~Stateless(k) /\ store' = [store EXCEPT ![k] = @ \cup {u}] /\ Reply(Note(k))
      BY <2>1 DEF OthersWrite, Holding
    <3>2. k \in Key /\ {u} \in SUBSET Write
      BY ConnectionAssumption, NoneFacts
    <3>3. store' = [store EXCEPT ![k] = Merged(k, {u})]
      BY <3>1, <3>2, <1>1 DEF Merged, Stateless
    <3>4. StoreGrows
      BY <1>1, <3>2, <3>3, MergeGrows
    <3>5. ~Stateless(k)' /\ \A j \in RepoKey : Stateless(j) => store'[j] = store[j]
      BY <1>1, <3>1, <3>2, <3>4 DEF StoreGrows, Stateless
    <3>6. \A n : Newest(n) => Stateless(Current)' \/ before[n] \subseteq store'[Current]
      BY <1>1, <1>2, <3>4, <3>5 DEF Carried, StoreGrows, Stateless
    <3>. QED  BY <3>1, <3>4, <3>5, <3>6 DEF Reply
  <2>2. CASE OthersMigrate
    <3>1. PICK k \in RepoKey :
            /\ ~Stateless(k) /\ Stateless(Current) /\ k # Current
            /\ \A h \in RepoKey : ~Stateless(h) => h <= k
            /\ store' = [store EXCEPT ![Current] = store[k]]
            /\ Reply(Note(Current))
      BY <1>1, <2>2 DEF OthersMigrate, Holding
    <3>2. StoreGrows /\ ~Stateless(Current)'
          /\ \A j \in RepoKey \ {Current} : store'[j] = store[j]
      BY <1>1, <3>1 DEF StoreGrows, Stateless
    <3>3. ASSUME NEW n, Newest(n) PROVE before[n] \subseteq store'[Current]
      <4>1. n \in RepoKey /\ Carried(n) /\ before[n] # {}
        BY <1>2, <3>3 DEF Newest, Bare
      <4>2. ~Stateless(n)
        BY <4>1 DEF Carried, Stateless
      <4>3. ~Bare(k)
        BY <1>2, <3>1 DEF Predecessors
      <4>4. n = k
        <5>1. n <= k /\ ~(k > n)
          BY <3>1, <3>3, <4>1, <4>2, <4>3 DEF Newest
        <5>. QED  BY <4>1, <5>1, ConnectionAssumption DEF RepoKey
      <4>. QED  BY <1>1, <3>1, <4>1, <4>4 DEF Carried
    <3>. QED  BY <1>1, <3>1, <3>2, <3>3 DEF Reply
  <2>. QED  BY <2>1, <2>2 DEF Elsewhere
<1>4. /\ Note(k) \in Seq(Message)
      /\ \A m \in Range(Note(k)) : m = [kind |-> "note", key |-> k]
  BY <1>1, NoteFacts
<1>5. \A m \in Range(Note(k)) :
        /\ \A n : Newest(n) => MessageKeeps(m, n)'
        /\ m.kind = "state" /\ m.key \in RepoKey \ {Current} /\ m.data # {} => ~Bare(m.key)
  BY <1>3, <1>4 DEF MessageKeeps
<1>. QED  BY <1>1, <1>3, <1>4, <1>5, NodeKeeps

\* A session that goes on to its next request carries the repo with it.
LEMMA AwaitCarries ==
    ASSUME IInv, RepoKept, session.phase # "idle",
           NEW s, SessionOK(s), s.phase # "idle",
           s.phase = "migrate" => \A n : Newest(n) => before[n] \subseteq s.read,
           NEW unread \in Seq(Message), Range(unread) \subseteq Range(inbox),
           Await(s, unread), UNCHANGED before
    PROVE  RepoKept'
<1>1. session' = s /\ inbox' = unread /\ Send(Asked(s)) /\ UNCHANGED <<store, subscribed>>
  BY DEF Await
<1>2. Range(pending') \subseteq Range(pending) \cup {Asked(s)}
  BY <1>1, AskedFacts, SendFacts DEF IInv, Types
<1>3. Predecessors /\ \A n : Newest(n) => Carried(n)
  BY DEF RepoKept
<1>4. /\ Asked(s).op = "put" => Asked(s).key \in PackKey \cup {Current}
      /\ Asked(s).op = "put" /\ Asked(s).key = Current => s.phase = "migrate" /\ Asked(s).data = s.read
  <2>1. s.phase \in Phase /\ (s.phase = "pack" => s.data \in Own)
    BY DEF SessionOK, SessionType
  <2>2. CASE s.phase = "migrate"
    BY <2>2 DEF Asked, Put
  <2>3. CASE s.phase = "pack"
    <3>1. Asked(s).key = PackOf[s.data] /\ PackOf[s.data] \in PackKey
      BY <2>1, <2>3, AskedFacts, SessionAssumption
    <3>. QED  BY <3>1, NoneFacts, ConnectionAssumption
  <2>4. CASE s.phase \in {"probe", "update"}
    BY <2>4, AskedFacts
  <2>. QED  BY <2>1, <2>2, <2>3, <2>4 DEF Phase
<1>5. Predecessors'
  <2>1. \A k \in RepoKey \ {Current} : Bare(k)' => Stateless(k)'
    BY <1>1, <1>3 DEF Predecessors, Bare, Stateless
  <2>2. \A r \in Range(pending') : r.op = "put" => r.key \in PackKey \cup {Current}
    BY <1>2, <1>3, <1>4 DEF Predecessors
  <2>3. \A m \in Range(inbox') :
          m.kind = "state" /\ m.key \in RepoKey \ {Current} /\ m.data # {} => ~Bare(m.key)'
    BY <1>1, <1>3 DEF Predecessors, Bare
  <2>. QED  BY <2>1, <2>2, <2>3 DEF Predecessors
<1>6. ASSUME NEW n, Newest(n) PROVE Carried(n)'
  <2>1. Carried(n)
    BY <1>3, <1>6
  <2>2. \A m \in Range(inbox') : MessageKeeps(m, n)'
    BY <1>1, <2>1 DEF Carried, MessageKeeps, Stateless
  <2>3. \A r \in Range(pending') : r.op = "put" /\ r.key = Current => before[n] \subseteq r.data
    BY <1>2, <1>4, <1>6, <2>1 DEF Carried
  <2>4. session'.phase = "migrate" => before[n] \subseteq session'.read
    BY <1>1, <1>6
  <2>. QED  BY <1>1, <2>1, <2>2, <2>3, <2>4 DEF Carried, Stateless
<1>7. \A n : Newest(n)' <=> Newest(n)
  BY DEF Newest, Bare
<1>. QED  BY <1>5, <1>6, <1>7 DEF RepoKept

\* A step of the receive loop ends the session, or goes on to a request; to the
\* migration with the state of the newest generation.
LEMMA ReceiveShape ==
    ASSUME IInv, RepoKept, NEW unread, Receive(unread)
    PROVE  \/ session'.phase = "idle"
           \/ /\ Await(session', unread)
              /\ session'.phase = "migrate" => \A n : Newest(n) => before[n] \subseteq session'.read
<1>1. \A outcome : End(outcome) => session'.phase = "idle"
  BY DEF End, Ended
<1>2. \A s : Await(s, unread) => session' = s
  BY DEF Await
<1>3. session \in SessionType /\ SessionOK(session)
  BY DEF IInv, SessionOK
<1>4. ASSUME NEW s \in SessionType, Continue(s, unread)
      PROVE  \/ session'.phase = "idle"
             \/ Await(session', unread) /\ session'.phase = "pack"
  <2>1. CASE s.data = None \/ s.data \in s.read
    BY <1>1, <1>4, <2>1 DEF Continue
  <2>2. CASE ~(s.data = None \/ s.data \in s.read)
    <3>1. Await([s EXCEPT !.phase = "pack", !.attempt = 1], unread)
      BY <1>4, <2>2 DEF Continue
    <3>2. [s EXCEPT !.phase = "pack", !.attempt = 1].phase = "pack"
      BY DEF SessionType
    <3>. QED  BY <1>2, <3>1, <3>2
  <2>. QED  BY <2>1, <2>2
<1>5. CASE ProbeHit(unread)
  <2>1. /\ session.phase = "probe" /\ Heard("state", unread) /\ Head(inbox).data # {}
    BY <1>5 DEF ProbeHit
  <2>. DEFINE s == [session EXCEPT !.misses = <<>>, !.read = Head(inbox).data,
                                   !.source = Probed(session)]
              m == Head(inbox)
  <2>2. IF s.source = Current THEN Continue(s, unread)
        ELSE Await([s EXCEPT !.phase = "migrate"], unread)
    BY <1>5 DEF ProbeHit
  <2>3. /\ inbox # <<>> /\ m \in Message /\ m \in Range(inbox)
        /\ "state" = Dispatch(Asked(session), m)
    BY <2>1, HeardFacts, HeadInRange DEF IInv, Types
  <2>4. m.kind = "state" /\ m.key = Probed(session)
    BY <1>3, <2>1, <2>3, AskedFacts DEF Dispatch, DispatchGet, Failed, For
  <2>5. m.data \in SUBSET Write
    BY <2>3, <2>4, MessageFields
  <2>6. /\ Probed(session) \in RepoKey
        /\ \A k \in RepoKey : k > Probed(session) => Bare(k)
    BY <1>3, ProbedFacts DEF SessionOK, SessionType
  <2>7. s \in SessionType /\ s.source = Probed(session) /\ s.read = m.data
    BY <1>3, <2>5, <2>6, NoMisses DEF SessionType
  <2>. HIDE DEF s
  <2>8. CASE s.source = Current
    BY <1>4, <2>2, <2>7, <2>8
  <2>9. CASE s.source # Current
    <3>1. Predecessors /\ \A n : Newest(n) => Carried(n)
      BY <2>1 DEF RepoKept
    <3>2. ~Bare(Probed(session))
      BY <2>1, <2>3, <2>4, <2>6, <2>7, <2>9, <3>1 DEF Predecessors
    <3>3. ASSUME NEW n, Newest(n) PROVE before[n] \subseteq m.data
      <4>1. n \in RepoKey /\ ~(n > Probed(session)) /\ ~(Probed(session) > n)
        BY <2>6, <3>2, <3>3 DEF Newest
      <4>2. n = Probed(session)
        BY <2>6, <4>1, ConnectionAssumption DEF RepoKey
      <4>3. MessageKeeps(m, n)
        BY <2>3, <3>1, <3>3 DEF Carried
      <4>. QED  BY <2>4, <4>2, <4>3 DEF MessageKeeps
    <3>4. /\ Await([s EXCEPT !.phase = "migrate"], unread)
          /\ [s EXCEPT !.phase = "migrate"].read = m.data
      BY <2>2, <2>7, <2>9 DEF SessionType
    <3>. QED  BY <1>2, <3>3, <3>4
  <2>. QED  BY <2>8, <2>9
<1>6. CASE \E miss \in Miss : ProbeMiss(miss, unread)
  <2>1. PICK miss \in Miss : ProbeMiss(miss, unread)
    BY <1>6
  <2>. DEFINE misses == Append(session.misses, miss)
  <2>2. session.phase = "probe"
    BY <2>1 DEF ProbeMiss
  <2>3. \/ Await([session EXCEPT !.misses = misses], unread)
        \/ Await([session EXCEPT !.misses = <<>>, !.attempt = @ + 1], unread)
        \/ End(FallbackFailure(misses))
    BY <2>1 DEF ProbeMiss, PassFailed
  <2>4. /\ [session EXCEPT !.misses = misses].phase = "probe"
        /\ [session EXCEPT !.misses = <<>>, !.attempt = @ + 1].phase = "probe"
    BY <1>3, <2>2 DEF SessionType
  <2>. QED  BY <1>1, <1>2, <2>3, <2>4
<1>7. CASE \E v \in Failure \cup {"done"} : Migrate(v, unread)
  BY <1>3, <1>4, <1>7 DEF Migrate
<1>8. CASE PackPut(unread)
  <2>1. /\ Await([session EXCEPT !.phase = "update"], unread)
        /\ [session EXCEPT !.phase = "update"].phase = "update"
    BY <1>3, <1>8 DEF PackPut, SessionType
  <2>. QED  BY <1>2, <2>1
<1>9. CASE \E v \in Failure : PackFails(v, unread)
  <2>1. /\ session.phase = "pack"
        /\ \/ Await([session EXCEPT !.attempt = @ + 1], unread)
           \/ End("not_put")
    BY <1>9 DEF PackFails
  <2>2. [session EXCEPT !.attempt = @ + 1].phase = "pack"
    BY <1>3, <2>1 DEF SessionType
  <2>. QED  BY <1>1, <1>2, <2>1, <2>2
<1>10. CASE (\E v \in Failure \cup {"absent"} : NotUpdated(v, unread)) \/ Updated(unread)
  BY <1>1, <1>10 DEF NotUpdated, Updated
<1>. QED  BY <1>5, <1>6, <1>7, <1>8, <1>9, <1>10 DEF Receive

\* Every receive loop leaves a part of the inbox.
LEMMA ReceiveHeard ==
    ASSUME IInv, NEW unread, Receive(unread)
    PROVE  /\ session.phase # "idle"
           /\ unread \in Seq(Message) /\ Range(unread) \subseteq Range(inbox)
<1>1. \E verdict : Heard(verdict, unread)
  BY DEF Receive, ProbeHit, ProbeMiss, Migrate, PackPut, PackFails, NotUpdated, Updated
<1>. QED  BY <1>1, HeardFacts

LEMMA InitRepoKept == Init => RepoKept
BY DEF Init, Ended, RepoKept

LEMMA NextRepoKept == IInv /\ RepoKept /\ [Next]_vars => RepoKept'
<1>. SUFFICES ASSUME IInv, RepoKept, [Next]_vars PROVE RepoKept'
  OBVIOUS
<1>1. CASE Start
  <2>1. /\ session.phase = "idle" /\ before' = store /\ UNCHANGED store
        /\ \E s : Await(s, inbox) /\ s.phase = "probe" /\ s.misses = <<>>
    <3>1. PICK data \in Own \cup {None} :
            Await([Ended("none") EXCEPT !.phase = "probe", !.data = data, !.attempt = 1], inbox)
      BY <1>1 DEF Start
    <3>2. /\ [Ended("none") EXCEPT !.phase = "probe", !.data = data, !.attempt = 1].phase = "probe"
          /\ [Ended("none") EXCEPT !.phase = "probe", !.data = data, !.attempt = 1].misses = <<>>
      BY DEF Ended
    <3>. QED  BY <1>1, <3>1, <3>2 DEF Start, Await
  <2>2. PICK s : Await(s, inbox) /\ s.phase = "probe" /\ s.misses = <<>>
    BY <2>1
  <2>3. session' = s /\ inbox' = inbox /\ Send(Asked(s)) /\ inbox = <<>> /\ pending = <<>>
    BY <2>1, <2>2 DEF Await, IInv, ConnectionOK
  <2>5. Asked(s) \in Request /\ Asked(s).op = "get"
    <3>1. Probed(s) \in RepoKey
      <4>1. s.misses \in Seq(Miss) /\ Len(s.misses) < Current
        BY <2>2, ConnectionAssumption
      <4>. QED  BY <4>1, ProbedFacts
    <3>2. Asked(s) = [op |-> "get", key |-> Probed(s), data |-> {}]
      BY <2>2 DEF Asked, Get
    <3>. QED  BY <3>1, <3>2, NoneFacts DEF Request
  <2>6. Range(inbox') = {} /\ \A r \in Range(pending') : r.op = "get"
    <3>1. Range(inbox) = {} /\ Range(pending) = {}
      BY <2>3 DEF Range
    <3>2. Range(pending') \subseteq Range(pending) \cup {Asked(s)}
      BY <2>3, <2>5, SendFacts DEF IInv, Types
    <3>. QED  BY <2>3, <2>5, <3>1, <3>2
  <2>7. Predecessors'
    BY <2>1, <2>6 DEF Predecessors, Bare, Stateless
  <2>8. ASSUME NEW n, Newest(n)' PROVE Carried(n)'
    <3>1. n \in RepoKey /\ store[n] \notin {None, {}} /\ \A k \in RepoKey : k > n => Stateless(k)
      BY <2>1, <2>8 DEF Newest, Bare, Stateless
    <3>2. Stateless(Current) \/ n = Current
      BY <3>1, ConnectionAssumption DEF RepoKey
    <3>. QED  BY <2>1, <2>2, <2>3, <2>6, <3>1, <3>2 DEF Carried, Stateless
  <2>. QED  BY <2>7, <2>8 DEF RepoKept
<1>2. CASE Skip
  <2>1. PICK unread \in {inbox, Rest(inbox)} :
          /\ Heard("skip", unread) /\ inbox' = unread
          /\ UNCHANGED <<store, subscribed, pending, session, before, acked>>
    BY <1>2 DEF Skip
  <2>2. session.phase # "idle" /\ Range(inbox') \subseteq Range(inbox)
    BY <2>1, HeardFacts
  <2>3. Predecessors /\ \A n : Newest(n) => Carried(n)
    BY <2>2 DEF RepoKept
  <2>4. Predecessors'
    BY <2>1, <2>2, <2>3 DEF Predecessors, Bare, Stateless
  <2>5. ASSUME NEW n, Newest(n)' PROVE Carried(n)'
    <3>1. Carried(n)
      BY <2>1, <2>3, <2>5 DEF Newest, Bare
    <3>. QED  BY <2>1, <2>2, <3>1 DEF Carried, MessageKeeps, Stateless
  <2>. QED  BY <2>4, <2>5 DEF RepoKept
<1>3. CASE Step
  <2>1. PICK unread : Receive(unread) /\ UNCHANGED before
    BY <1>3 DEF Step
  <2>2. CASE session'.phase = "idle"
    BY <2>2 DEF RepoKept
  <2>3. CASE session'.phase # "idle"
    <3>1. /\ Await(session', unread)
          /\ session'.phase = "migrate" => \A n : Newest(n) => before[n] \subseteq session'.read
      BY <2>1, <2>3, ReceiveShape
    <3>2. SessionOK(session')
      <4>1. IInv'
        BY NextIInv
      <4>. QED  BY <2>1, <4>1 DEF IInv, SessionOK, Bare
    <3>. QED  BY <2>1, <2>3, <3>1, <3>2, ReceiveHeard, AwaitCarries
  <2>. QED  BY <2>2, <2>3
<1>4. CASE (Serve \/ Elsewhere) /\ UNCHANGED <<session, before, acked>>
  BY <1>4, ServeKeeps, ElsewhereKeeps
<1>5. CASE UNCHANGED vars
  BY <1>5 DEF vars, RepoKept, Predecessors, Newest, Carried, MessageKeeps, Bare, Stateless
<1>. QED  BY <1>1, <1>2, <1>3, <1>4, <1>5 DEF Next

\* Type correctness of the connection and of the session, for any number of
\* generations, packs and retries, and however many messages are in flight.
THEOREM SessionTypeOK == Spec => []TypeOK
<1>1. IInv => TypeOK
  <2>. SUFFICES ASSUME IInv PROVE TypeOK
    OBVIOUS
  <2>1. /\ Range(pending) \subseteq Request /\ Range(inbox) \subseteq Message
        /\ Range(session.misses) \subseteq Miss
    BY RangeOf DEF IInv, Types, SessionOK, SessionType
  <2>2. /\ session \in SessionType /\ Len(session.misses) < Current
        /\ session.attempt <= (IF session.phase \in {"pack", "update"}
                               THEN PutAttempts ELSE ProbeAttempts)
    BY DEF IInv, SessionOK
  <2>3. session.attempt \in 0 .. (IF session.phase \in {"pack", "update"}
                                  THEN PutAttempts ELSE ProbeAttempts)
    BY <2>2, SessionAssumption DEF SessionType
  <2>. QED  BY <2>1, <2>2, <2>3 DEF IInv, Types, SessionType, TypeOK
<1>. QED  BY <1>1, Invariance, PTL

\* However the node answers, refuses, delays or keeps silent, a session takes the
\* state of the newest generation that had one when it started
\* (get_state_with_legacy_fallback).
THEOREM NewestAdopted == Spec => []AdoptsNewest
<1>1. IInv => AdoptsNewest
  BY DEF IInv, SessionOK, AdoptsNewest, Bare
<1>. QED  BY <1>1, Invariance, PTL

\* And it says that there is none only when no generation had one
\* (format_fallback_failure).
THEOREM NoStateOnlyWhenNone == Spec => []NoStateMeansNone
<1>1. IInv => NoStateMeansNone
  BY DEF IInv, SessionOK, NoStateMeansNone, Bare
<1>. QED  BY <1>1, Invariance, PTL

\* With a node that answers every PUT with a PutResponse, the repo never refers to
\* a pack the node does not hold (dispatch_put_response).
THEOREM PackFirst == ~BareOk => (Spec => []PackBeforeUpdate)
<1>. SUFFICES ASSUME ~BareOk PROVE Spec => []PackBeforeUpdate
  OBVIOUS
<1>1. IInv => PackBeforeUpdate
  BY DEF IInv, PackOK, PackBeforeUpdate
<1>. QED  BY <1>1, Invariance, PTL

\* With such a node, a push on a connection that did not migrate the repo is told
\* the truth about its UPDATE (dispatch_update_response).
THEOREM AckTrue == ~BareOk => (Spec => TrueAck)
<1>. SUFFICES ASSUME ~BareOk PROVE Spec => TrueAck
  OBVIOUS
<1>1. IInv /\ [Next]_vars => [\A x \in acked' \ acked :
                                 x \in store'[Current] \/ Current \in subscribed]_vars
  <2>. SUFFICES ASSUME IInv, [Next]_vars
                PROVE  \A x \in acked' \ acked : x \in store'[Current] \/ Current \in subscribed
    OBVIOUS
  <2>1. CASE Start \/ Skip \/ UNCHANGED vars
    BY <2>1 DEF Start, Skip, vars
  <2>2. CASE (Serve \/ Elsewhere) /\ UNCHANGED <<session, before, acked>>
    BY <2>2
  <2>3. CASE Step
    <3>1. PICK unread : Receive(unread) /\ UNCHANGED before
      BY <2>3 DEF Step
    <3>2. CASE Updated(unread)
      BY <3>1, <3>2, UpdatedStep
    <3>3. CASE ~Updated(unread)
      BY <3>1, <3>3, ReceiveStep
    <3>. QED  BY <3>2, <3>3
  <2>. QED  BY <2>1, <2>2, <2>3 DEF Next
<1>. QED  BY <1>1, Invariance, PTL DEF Spec, TrueAck

(***************************************************************************)
(* And what it is told of was applied on top of the repo: the current      *)
(* contract then holds what the newest generation held when the session    *)
(* started, however the migration went, and whichever message, another     *)
(* writer's notification included, was taken for the answer                *)
(* (fetch_repo_state, dispatch_update_response).                           *)
(***************************************************************************)
THEOREM AckOnRepo == ~BareOk => (Spec => AckedOnRepo)
<1>. SUFFICES ASSUME ~BareOk PROVE Spec => AckedOnRepo
  OBVIOUS
<1>. DEFINE Told == acked' # acked =>
                      \A k \in RepoKey :
                          /\ before[k] \notin {None, {}}
                          /\ \A h \in RepoKey : h > k => before[h] \in {None, {}}
                          => store[Current] # None /\ before[k] \subseteq store[Current]
<1>1. IInv /\ RepoKept /\ [Next]_vars => Told
  <2>. SUFFICES ASSUME IInv, RepoKept, [Next]_vars, acked' # acked,
                       NEW n \in RepoKey, before[n] \notin {None, {}},
                       \A h \in RepoKey : h > n => before[h] \in {None, {}}
                PROVE  store[Current] # None /\ before[n] \subseteq store[Current]
    OBVIOUS
  <2>1. PICK unread : Receive(unread) /\ UNCHANGED before
    BY DEF Next, Start, Skip, Step, vars
  <2>2. Updated(unread)
    BY <2>1, ReceiveStep
  <2>. DEFINE m == Head(inbox)
  <2>3. session.phase = "update" /\ Heard("done", unread)
    BY <2>2 DEF Updated
  <2>4. /\ "done" = Dispatch(Asked(session), m) /\ m \in Range(inbox) /\ MessageTrue(m)
    BY <2>3, HeardFacts, HeadInRange DEF IInv, Types
  <2>5. "done" = DispatchUpdate(Asked(session), m) /\ Asked(session).key = Current
    BY <2>3, <2>4, AskedFacts DEF Dispatch, IInv
  <2>6. m.kind \in {"updated", "note"} /\ m.key = Current
    BY <2>4, <2>5 DEF DispatchUpdate, Failed, For, MessageTrue
  <2>7. Carried(n)
    BY <2>3 DEF RepoKept, Newest, Bare
  <2>8. ~Stateless(Current)
    BY <2>4, <2>6, <2>7 DEF Carried, MessageKeeps
  <2>. QED  BY <2>7, <2>8 DEF Carried, Stateless
<1>2. Spec => [](IInv /\ RepoKept)
  BY InitIInv, NextIInv, InitRepoKept, NextRepoKept, PTL DEF Spec
<1>3. Spec => [][Told]_vars
  BY <1>1, <1>2, PTL DEF Spec
<1>. QED  BY <1>3 DEF AckedOnRepo
===============================================================================
