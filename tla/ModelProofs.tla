---------------------------- MODULE ModelProofs -----------------------------
(***************************************************************************)
(* Theorems about the ways to a model and its answer, one component after  *)
(* the other: the bridge to a local model's thread, requests to a provider,*)
(* the store that local models are installed in, and a provider's stream.  *)
(***************************************************************************)
EXTENDS LocalBridge, ProviderRequests, ModelStore, RemoteStream,
        FiniteSetTheorems, SequenceTheorems, TLAPS

-----------------------------------------------------------------------------
(* LocalBridge, for every number of streams and of chunks and every        *)
(* capacity of the queue: no chunk is lost or counted twice between the    *)
(* worker thread and the caller.                                           *)

Callbacks == {"put", "resolve", "wake"} \X StreamIds
Items == {"chunk", "end"}
Workers == [pc : {"none", "start", "working", "putting", "ending", "gone"}, made : Nat,
            item : Items \union {"none"}, failed : BOOLEAN, old : Nat]
Outcomes == {"none", "complete", "raised", "closed"}

BridgeTyped ==
    /\ current \in 0..Streams
    /\ consumer \in {"idle", "get", "wait", "yielded", "join"}
    /\ consumer # "idle" => current # 0
    /\ worker \in [StreamIds -> Workers]
    /\ queue \in [StreamIds -> Seq(Items)]
    /\ ready \in Seq(Callbacks)
    /\ putters \subseteq StreamIds
    /\ received \in [StreamIds -> Nat]
    /\ outcome \in [StreamIds -> Outcomes]
    /\ stdout \in Nat

(* A worker has at most one callback of its own on the loop. *)
InSeq(r, x) == \E i \in 1..Len(r) : r[i] = x
Once(r) == \A i, j \in 1..Len(r) :
    r[i][2] = r[j][2] /\ r[i][1] # "wake" /\ r[j][1] # "wake" => i = j

PutReady(s) == InSeq(ready, <<"put", s>>)
ResolveReady(s) == InSeq(ready, <<"resolve", s>>)

(* The item of a waiting worker is on its way to the queue. *)
OnItsWay(s) == PutReady(s) \/ s \in putters

Handed(s) ==
    /\ OnItsWay(s) \/ ResolveReady(s) => worker[s].pc \in {"putting", "ending"}
    /\ s \in putters => ~PutReady(s) /\ ~ResolveReady(s)
    /\ worker[s].pc = "putting" => worker[s].item = "chunk"
    /\ worker[s].pc = "ending" => worker[s].item = "end"

EndDelivered(s) == worker[s].pc \in {"ending", "gone"} /\ ~OnItsWay(s)
Pending(s) == IF worker[s].pc = "putting" /\ OnItsWay(s) THEN 1 ELSE 0
StreamOver(s) == outcome[s] \in {"complete", "raised"}

(* Where the chunks that were made are: with the caller, in the queue, or  *)
(* one of them on its way.  The end comes behind all of them.              *)
ChunksAccounted(s) ==
    LET n == Len(queue[s]) IN
    IF StreamOver(s)
    THEN /\ EndDelivered(s) /\ n = 0
         /\ received[s] = worker[s].made
         /\ (outcome[s] = "raised") <=> worker[s].failed
    ELSE IF EndDelivered(s)
    THEN /\ n > 0 /\ queue[s][n] = "end"
         /\ \A i \in 1..(n - 1) : queue[s][i] = "chunk"
         /\ worker[s].made = received[s] + n - 1
    ELSE /\ \A i \in 1..n : queue[s][i] = "chunk"
         /\ worker[s].made = received[s] + n + Pending(s)

(* A stream that was not started has left no trace. *)
Unstarted(s) ==
    s > current => /\ worker[s].pc = "none" /\ worker[s].made = 0
                   /\ queue[s] = << >> /\ received[s] = 0 /\ outcome[s] = "none"

StreamInv(s) == Handed(s) /\ ChunksAccounted(s) /\ Unstarted(s)

BridgeInv ==
    /\ BridgeTyped /\ Once(ready)
    /\ consumer \in {"get", "wait", "yielded"} => ~StreamOver(current)
    /\ \A s \in StreamIds : StreamInv(s)
-----------------------------------------------------------------------------
(* The queue of the loop. *)

LEMMA AppendCallback ==
    ASSUME NEW r \in Seq(Callbacks), NEW x \in Callbacks, Once(r),
           x[1] # "wake" => ~InSeq(r, <<"put", x[2]>>) /\ ~InSeq(r, <<"resolve", x[2]>>)
    PROVE  /\ Append(r, x) \in Seq(Callbacks) /\ Once(Append(r, x))
           /\ \A y : InSeq(Append(r, x), y) <=> InSeq(r, y) \/ y = x
<1> DEFINE q == Append(r, x)
<1>1. /\ q \in Seq(Callbacks) /\ Len(q) = Len(r) + 1 /\ Len(r) \in Nat
      /\ \A i \in 1..Len(r) : q[i] = r[i]
      /\ q[Len(r) + 1] = x
  BY AppendProperties, LenProperties
<1>2. \A i \in 1..Len(r) : r[i] \in Callbacks
  BY ElementOfSeq
<1> HIDE DEF q
<1>3. \A y : InSeq(q, y) <=> InSeq(r, y) \/ y = x
  BY <1>1 DEF InSeq
<1>4. Once(q)
  <2> SUFFICES ASSUME NEW i \in 1..Len(q), NEW j \in 1..Len(q), q[i][2] = q[j][2],
                      q[i][1] # "wake", q[j][1] # "wake"
               PROVE  i = j
    BY DEF Once
  <2>1. CASE i # Len(r) + 1 /\ j # Len(r) + 1
    <3>1. i \in 1..Len(r) /\ j \in 1..Len(r)
      BY <1>1, <2>1
    <3>2. q[i] = r[i] /\ q[j] = r[j]
      BY <1>1, <3>1
    <3> QED
      BY <3>1, <3>2 DEF Once
  <2>2. ASSUME NEW k \in 1..Len(r), q[k][2] = x[2], q[k][1] # "wake", x[1] # "wake"
        PROVE  FALSE
    <3>1. r[k] \in Callbacks /\ r[k] = q[k]
      BY <1>1, <1>2
    <3>2. r[k] = <<"put", x[2]>> \/ r[k] = <<"resolve", x[2]>>
      BY <2>2, <3>1 DEF Callbacks
    <3> QED
      BY <2>2, <3>2 DEF InSeq
  <2>3. CASE i = Len(r) + 1 /\ j # Len(r) + 1
    BY <1>1, <2>2, <2>3
  <2>4. CASE i # Len(r) + 1 /\ j = Len(r) + 1
    BY <1>1, <2>2, <2>4
  <2> QED
    BY <2>1, <2>3, <2>4
<1> QED
  BY <1>1, <1>3, <1>4 DEF q

LEMMA TailCallback ==
    ASSUME NEW r \in Seq(Callbacks), r # << >>, Once(r)
    PROVE  /\ Head(r) \in Callbacks
           /\ Tail(r) \in Seq(Callbacks) /\ Once(Tail(r))
           /\ InSeq(r, Head(r))
           /\ \A y : InSeq(r, y) => y = Head(r) \/ InSeq(Tail(r), y)
           /\ \A y : InSeq(Tail(r), y) => InSeq(r, y)
           /\ Head(r)[1] # "wake" => ~InSeq(Tail(r), <<"put", Head(r)[2]>>)
                                     /\ ~InSeq(Tail(r), <<"resolve", Head(r)[2]>>)
<1> DEFINE t == Tail(r)
<1>1. /\ Head(r) = r[1] /\ Len(r) \in Nat /\ Len(r) > 0
      /\ t \in Seq(Callbacks) /\ Len(t) = Len(r) - 1
      /\ \A i \in 1..Len(t) : t[i] = r[i + 1]
  BY HeadTailProperties, EmptySeq, LenProperties
<1>2. Head(r) \in Callbacks
  BY <1>1, ElementOfSeq
<1> HIDE DEF t
<1>3. Once(t)
  <2> SUFFICES ASSUME NEW i \in 1..Len(t), NEW j \in 1..Len(t), t[i][2] = t[j][2],
                      t[i][1] # "wake", t[j][1] # "wake"
               PROVE  i = j
    BY DEF Once
  <2>1. t[i] = r[i + 1] /\ t[j] = r[j + 1] /\ i + 1 \in 1..Len(r) /\ j + 1 \in 1..Len(r)
    BY <1>1
  <2>2. i + 1 = j + 1
    BY <2>1 DEF Once
  <2> QED
    BY <2>2
<1>4. InSeq(r, Head(r))
  BY <1>1 DEF InSeq
<1>5. ASSUME NEW y, InSeq(r, y)
      PROVE  y = Head(r) \/ InSeq(t, y)
  <2>1. PICK i \in 1..Len(r) : r[i] = y
    BY <1>5 DEF InSeq
  <2>2. CASE i = 1
    BY <1>1, <2>1, <2>2
  <2>3. CASE i # 1
    <3>1. i - 1 \in 1..Len(t) /\ t[i - 1] = r[i]
      BY <1>1, <2>3
    <3> QED
      BY <2>1, <3>1 DEF InSeq
  <2> QED
    BY <2>2, <2>3
<1>6. ASSUME NEW y, InSeq(t, y)
      PROVE  InSeq(r, y)
  <2>1. PICK i \in 1..Len(t) : t[i] = y
    BY <1>6 DEF InSeq
  <2>2. i + 1 \in 1..Len(r) /\ r[i + 1] = y
    BY <1>1, <2>1
  <2> QED
    BY <2>2 DEF InSeq
<1>7. ASSUME Head(r)[1] # "wake", NEW kind \in {"put", "resolve"},
             InSeq(t, <<kind, Head(r)[2]>>)
      PROVE  FALSE
  <2>1. PICK i \in 1..Len(t) : t[i] = <<kind, Head(r)[2]>>
    BY <1>7 DEF InSeq
  <2>2. i + 1 \in 1..Len(r) /\ r[i + 1] = <<kind, Head(r)[2]>> /\ 1 \in 1..Len(r)
    BY <1>1, <2>1
  <2>3. r[i + 1][2] = r[1][2] /\ r[i + 1][1] # "wake" /\ r[1][1] # "wake"
    BY <1>1, <1>7, <2>2
  <2>4. i + 1 = 1
    BY <2>2, <2>3 DEF Once
  <2> QED
    BY <2>4
<1> QED
  BY <1>1, <1>2, <1>3, <1>4, <1>5, <1>6, <1>7 DEF t
-----------------------------------------------------------------------------
(* A stream that an action is not about keeps its invariant. *)
LEMMA OtherStream ==
    ASSUME BridgeTyped, NEW t \in StreamIds, StreamInv(t), current' \in Nat, current' >= current,
           worker'[t] = worker[t], queue'[t] = queue[t], received'[t] = received[t],
           outcome'[t] = outcome[t], t \in putters' <=> t \in putters,
           PutReady(t)' <=> PutReady(t), ResolveReady(t)' <=> ResolveReady(t)
    PROVE  StreamInv(t)'
<1>1. OnItsWay(t)' <=> OnItsWay(t)
  BY DEF OnItsWay
<1>2. Handed(t)'
  BY <1>1 DEF StreamInv, Handed
<1>3. EndDelivered(t)' <=> EndDelivered(t)
  BY <1>1 DEF EndDelivered
<1>4. Pending(t)' = Pending(t) /\ (StreamOver(t)' <=> StreamOver(t))
  BY <1>1 DEF Pending, StreamOver
<1>5. ChunksAccounted(t)'
  BY <1>3, <1>4 DEF StreamInv, ChunksAccounted
<1>6. Unstarted(t)'
  BY DEF StreamInv, Unstarted, BridgeTyped, StreamIds
<1> QED
  BY <1>2, <1>5, <1>6 DEF StreamInv

LEMMA BridgeInvInit == LocalBridgeAssumption /\ BridgeInit => BridgeInv
<1> SUFFICES ASSUME LocalBridgeAssumption, BridgeInit PROVE BridgeInv
  OBVIOUS
<1>1. << >> \in Seq(Callbacks) /\ << >> \in Seq(Items) /\ Len(<< >>) = 0
  BY EmptySeq
<1>2. NoWorker \in Workers /\ NoWorker.pc = "none" /\ NoWorker.made = 0
  BY DEF NoWorker, Workers
<1>3. BridgeTyped
  BY <1>1, <1>2 DEF LocalBridgeAssumption, BridgeInit, BridgeTyped, Outcomes
<1>4. Once(ready) /\ \A x : ~InSeq(ready, x)
  BY <1>1 DEF BridgeInit, Once, InSeq
<1>5. ASSUME NEW s \in StreamIds
      PROVE  StreamInv(s)
  <2>1. worker[s].pc = "none" /\ worker[s].made = 0 /\ Len(queue[s]) = 0 /\ queue[s] = << >>
        /\ received[s] = 0 /\ outcome[s] = "none" /\ s \notin putters
    BY <1>1, <1>2 DEF BridgeInit
  <2>2. ~OnItsWay(s) /\ ~ResolveReady(s)
    BY <1>4, <2>1 DEF OnItsWay, PutReady, ResolveReady
  <2> QED
    BY <2>1, <2>2
       DEF StreamInv, Handed, ChunksAccounted, Unstarted, StreamOver, EndDelivered, Pending
<1> QED
  BY <1>3, <1>4, <1>5 DEF BridgeInv, BridgeInit

LEMMA StartStreamKeeps ==
    ASSUME LocalBridgeAssumption, BridgeInv, StartStream
    PROVE  BridgeInv'
<1>1. PICK s \in StreamIds : s = current + 1 /\ current \in Nat
  BY DEF BridgeInv, BridgeTyped, StartStream, LocalBridgeAssumption, StreamIds
<1> DEFINE w == [NoWorker EXCEPT !.pc = "start"]
<1>2. w \in Workers /\ w.pc = "start" /\ w.made = 0
  BY DEF NoWorker, Workers
<1> HIDE DEF w
<1>3. BridgeTyped' /\ worker'[s] = w
  BY <1>1, <1>2 DEF BridgeInv, BridgeTyped, StartStream, w, LocalBridgeAssumption, StreamIds
<1>4. UNCHANGED <<queue, ready, putters, received, outcome>> /\ current' = s
  BY <1>1 DEF StartStream
<1>5. ASSUME NEW t \in StreamIds, t # s
      PROVE  StreamInv(t)'
  <2>1. worker'[t] = worker[t]
    BY <1>1, <1>5 DEF StartStream, BridgeInv, BridgeTyped
  <2> QED
    BY <1>1, <1>4, <2>1, OtherStream DEF BridgeInv, PutReady, ResolveReady
<1>6. StreamInv(s)'
  <2>1. /\ worker[s].pc = "none" /\ worker[s].made = 0
        /\ Len(queue[s]) = 0 /\ received[s] = 0 /\ outcome[s] = "none"
    BY <1>1, EmptySeq DEF BridgeInv, StreamInv, Unstarted
  <2>2. ~OnItsWay(s) /\ ~ResolveReady(s)
    BY <1>1, <2>1 DEF BridgeInv, StreamInv, Handed
  <2>3. ~OnItsWay(s)' /\ ~ResolveReady(s)'
    BY <1>4, <2>2 DEF OnItsWay, PutReady, ResolveReady
  <2>4. ~EndDelivered(s)' /\ Pending(s)' = 0 /\ ~StreamOver(s)'
    BY <1>2, <1>3, <1>4, <2>1 DEF EndDelivered, Pending, StreamOver
  <2>5. ChunksAccounted(s)'
    BY <1>2, <1>3, <1>4, <2>1, <2>4 DEF ChunksAccounted
  <2>6. Handed(s)'
    BY <1>2, <1>3, <1>4, <2>3 DEF Handed, OnItsWay
  <2> QED
    BY <1>1, <1>4, <2>5, <2>6 DEF StreamInv, Unstarted
<1>7. ~StreamOver(current)'
  BY <1>1, <1>4 DEF BridgeInv, StreamInv, Unstarted, StreamOver
<1> QED
  BY <1>3, <1>4, <1>5, <1>6, <1>7 DEF BridgeInv
(* The worker's own steps. *)
LEMMA RedirectKeeps ==
    ASSUME BridgeInv, NEW s \in StreamIds, Redirect(s)
    PROVE  BridgeInv'
<1> DEFINE w == [worker[s] EXCEPT !.pc = "working", !.old = stdout]
<1>1. worker[s] \in Workers /\ worker[s].pc = "start" /\ stdout \in Nat
  BY DEF Redirect, BridgeInv, BridgeTyped
<1>2. w \in Workers /\ w.pc = "working" /\ w.made = worker[s].made
  BY <1>1 DEF Workers
<1> HIDE DEF w
<1>3. worker' = [worker EXCEPT ![s] = w]
  BY DEF Redirect, w
<1>4. UNCHANGED <<current, consumer, queue, ready, putters, received, outcome>> /\ stdout' = s
  BY DEF Redirect
<1>5. BridgeTyped'
  BY <1>2, <1>3, <1>4 DEF BridgeInv, BridgeTyped, StreamIds
<1>6. ASSUME NEW t \in StreamIds, t # s
      PROVE  StreamInv(t)'
  BY <1>3, <1>4, <1>6, OtherStream DEF BridgeInv, BridgeTyped, PutReady, ResolveReady
<1>7. StreamInv(s)'
  <2>1. worker'[s] = w
    BY <1>3 DEF BridgeInv, BridgeTyped
  <2>2. ~OnItsWay(s) /\ ~ResolveReady(s) /\ s <= current
    BY <1>1 DEF BridgeInv, BridgeTyped, StreamInv, Handed, Unstarted, StreamIds
  <2>3. ~OnItsWay(s)' /\ ~ResolveReady(s)'
    BY <1>4, <2>2 DEF OnItsWay, PutReady, ResolveReady
  <2>4. /\ ~EndDelivered(s) /\ ~EndDelivered(s)' /\ Pending(s) = 0 /\ Pending(s)' = 0
        /\ StreamOver(s)' <=> StreamOver(s)
    BY <1>1, <1>2, <1>4, <2>1 DEF EndDelivered, Pending, StreamOver
  <2>5. ChunksAccounted(s)'
    BY <1>2, <1>4, <2>1, <2>4 DEF BridgeInv, StreamInv, ChunksAccounted
  <2>6. Handed(s)'
    BY <1>2, <1>4, <2>1, <2>3 DEF Handed, OnItsWay
  <2> QED
    BY <1>4, <2>2, <2>5, <2>6 DEF StreamInv, Unstarted, BridgeInv, BridgeTyped, StreamIds
<1>8. consumer' \in {"get", "wait", "yielded"} => ~StreamOver(current)'
  BY <1>4 DEF BridgeInv, StreamOver
<1> QED
  BY <1>4, <1>5, <1>6, <1>7, <1>8 DEF BridgeInv

(* An item is handed over: a chunk, or the end. *)
LEMMA HandKeeps ==
    ASSUME BridgeInv, NEW s \in StreamIds, NEW w \in Workers, Hand(s, w), stdout' \in Nat,
           worker[s].pc = "working",
           \/ w.pc = "putting" /\ w.item = "chunk" /\ w.made = worker[s].made + 1
           \/ w.pc = "ending" /\ w.item = "end" /\ w.made = worker[s].made
    PROVE  BridgeInv'
<1> DEFINE x == <<"put", s>>
<1>1. /\ worker' = [worker EXCEPT ![s] = w] /\ ready' = Append(ready, x)
      /\ UNCHANGED <<current, consumer, queue, putters, received, outcome>>
  BY DEF Hand
<1>2. x \in Callbacks /\ x[2] = s
  BY DEF Callbacks
<1>3. ~OnItsWay(s) /\ ~ResolveReady(s) /\ s <= current
  BY DEF BridgeInv, BridgeTyped, StreamInv, Handed, Unstarted, StreamIds
<1>4. /\ ready' \in Seq(Callbacks) /\ Once(ready')
      /\ \A y : InSeq(ready', y) <=> InSeq(ready, y) \/ y = x
  BY <1>1, <1>2, <1>3, AppendCallback
  DEF BridgeInv, BridgeTyped, OnItsWay, PutReady, ResolveReady
<1>5. BridgeTyped'
  BY <1>1, <1>4 DEF BridgeInv, BridgeTyped
<1>6. ASSUME NEW t \in StreamIds, t # s
      PROVE  StreamInv(t)'
  <2>1. (PutReady(t)' <=> PutReady(t)) /\ (ResolveReady(t)' <=> ResolveReady(t))
    BY <1>4, <1>6 DEF PutReady, ResolveReady
  <2> QED
    BY <1>1, <1>6, <2>1, OtherStream DEF BridgeInv, BridgeTyped
<1>7. StreamInv(s)'
  <2>1. worker'[s] = w
    BY <1>1 DEF BridgeInv, BridgeTyped
  <2>2. PutReady(s)' /\ ~ResolveReady(s)' /\ s \notin putters'
    BY <1>1, <1>3, <1>4 DEF OnItsWay, PutReady, ResolveReady
  <2>3. OnItsWay(s)'
    BY <2>2 DEF OnItsWay
  <2>4. Handed(s)'
    BY <2>1, <2>2 DEF Handed
  <2>5. ~EndDelivered(s) /\ ~EndDelivered(s)' /\ Pending(s) = 0
        /\ Pending(s)' = IF w.pc = "putting" THEN 1 ELSE 0
    BY <2>1, <2>3 DEF EndDelivered, Pending
  <2>6. ~StreamOver(s) /\ ~StreamOver(s)'
    BY <1>1, <2>5 DEF BridgeInv, StreamInv, ChunksAccounted, StreamOver
  <2>7. /\ \A i \in 1..Len(queue[s]) : queue[s][i] = "chunk"
        /\ worker[s].made = received[s] + Len(queue[s])
        /\ received[s] \in Nat /\ Len(queue[s]) \in Nat
    BY <2>5, <2>6, LenProperties DEF BridgeInv, BridgeTyped, StreamInv, ChunksAccounted
  <2>8. ChunksAccounted(s)'
    BY <1>1, <2>1, <2>5, <2>6, <2>7 DEF ChunksAccounted
  <2> QED
    BY <1>1, <1>3, <2>4, <2>8 DEF StreamInv, Unstarted, BridgeInv, BridgeTyped, StreamIds
<1>8. consumer' \in {"get", "wait", "yielded"} => ~StreamOver(current)'
  BY <1>1 DEF BridgeInv, StreamOver
<1> QED
  BY <1>4, <1>5, <1>6, <1>7, <1>8 DEF BridgeInv

LEMMA ProduceKeeps ==
    ASSUME BridgeInv, NEW s \in StreamIds, ProduceChunk(s)
    PROVE  BridgeInv'
<1> DEFINE n == worker[s].made + 1
           w == [worker[s] EXCEPT !.pc = "putting", !.made = n, !.item = "chunk"]
<1>1. worker[s] \in Workers /\ n \in Nat
  BY DEF BridgeInv, BridgeTyped, Workers
<1> HIDE DEF n
<1>2. w \in Workers /\ w.pc = "putting" /\ w.item = "chunk" /\ w.made = n
  BY <1>1 DEF Workers, Items
<1> HIDE DEF w
<1>3. Hand(s, w) /\ worker[s].pc = "working" /\ stdout' \in Nat
  BY DEF ProduceChunk, w, n, BridgeInv, BridgeTyped
<1> QED
  BY <1>2, <1>3, HandKeeps DEF n

LEMMA EndKeeps ==
    ASSUME BridgeInv, NEW s \in StreamIds, EndGeneration(s)
    PROVE  BridgeInv'
<1>1. PICK failed \in BOOLEAN :
        Hand(s, [worker[s] EXCEPT !.pc = "ending", !.item = "end", !.failed = failed])
  BY DEF EndGeneration
<1> DEFINE w == [worker[s] EXCEPT !.pc = "ending", !.item = "end", !.failed = failed]
<1>2. worker[s] \in Workers
  BY DEF BridgeInv, BridgeTyped
<1>3. w \in Workers /\ w.pc = "ending" /\ w.item = "end" /\ w.made = worker[s].made
  BY <1>2 DEF Workers, Items
<1> HIDE DEF w
<1>4. Hand(s, w) /\ worker[s].pc = "working"
  BY <1>1 DEF EndGeneration, w
<1>5. stdout' \in Nat
  BY <1>2 DEF EndGeneration, Workers
<1> QED
  BY <1>3, <1>4, <1>5, HandKeeps
-----------------------------------------------------------------------------
(* The callbacks of the loop. *)

(* Taking a callback off the queue keeps those of every other stream. *)
LEMMA OthersAfterTail ==
    ASSUME BridgeInv, ready # << >>, NEW t \in StreamIds,
           Head(ready)[2] # t \/ Head(ready)[1] = "wake"
    PROVE  /\ InSeq(Tail(ready), <<"put", t>>) <=> PutReady(t)
           /\ InSeq(Tail(ready), <<"resolve", t>>) <=> ResolveReady(t)
<1>1. ready \in Seq(Callbacks) /\ Once(ready)
  BY DEF BridgeInv, BridgeTyped
<1>2. Head(ready) # <<"put", t>> /\ Head(ready) # <<"resolve", t>>
  OBVIOUS
<1> QED
  BY <1>1, <1>2, TailCallback DEF PutReady, ResolveReady

LEMMA RunWakeKeeps ==
    ASSUME BridgeInv, RunWake
    PROVE  BridgeInv'
<1>1. /\ ready # << >> /\ Head(ready)[1] = "wake" /\ ready' = Tail(ready)
      /\ UNCHANGED <<current, worker, queue, putters, received, outcome, stdout>>
      /\ consumer' \in {consumer, "get"}
      /\ consumer' # consumer => consumer = "wait"
  BY DEF RunWake, LoopRuns
<1>2. ready' \in Seq(Callbacks) /\ Once(ready')
  BY <1>1, TailCallback DEF BridgeInv, BridgeTyped
<1>3. BridgeTyped'
  BY <1>1, <1>2 DEF BridgeInv, BridgeTyped
<1>4. ASSUME NEW t \in StreamIds
      PROVE  StreamInv(t)'
  <2>1. (PutReady(t)' <=> PutReady(t)) /\ (ResolveReady(t)' <=> ResolveReady(t))
    BY <1>1, OthersAfterTail DEF PutReady, ResolveReady
  <2> QED
    BY <1>1, <2>1, OtherStream DEF BridgeInv, BridgeTyped
<1>5. consumer' \in {"get", "wait", "yielded"} => ~StreamOver(current)'
  BY <1>1 DEF BridgeInv, StreamOver
<1> QED
  BY <1>2, <1>3, <1>4, <1>5 DEF BridgeInv

LEMMA RunResolveKeeps ==
    ASSUME BridgeInv, RunResolve
    PROVE  BridgeInv'
<1>1. PICK s : s = Head(ready)[2]
  OBVIOUS
<1>2. /\ ready # << >> /\ Head(ready)[1] = "resolve" /\ ready' = Tail(ready)
      /\ worker' = [worker EXCEPT ![s].pc = IF @ = "putting" THEN "working" ELSE "gone"]
      /\ UNCHANGED <<current, consumer, queue, putters, received, outcome, stdout>>
  BY <1>1 DEF RunResolve, LoopRuns
<1>3. /\ Head(ready) \in Callbacks
      /\ ready' \in Seq(Callbacks) /\ Once(ready')
      /\ InSeq(ready, Head(ready))
      /\ ~InSeq(ready', <<"put", s>>) /\ ~InSeq(ready', <<"resolve", s>>)
  BY <1>1, <1>2, TailCallback DEF BridgeInv, BridgeTyped
<1>4. s \in StreamIds /\ Head(ready) = <<"resolve", s>>
  BY <1>1, <1>2, <1>3 DEF Callbacks
<1>5. ResolveReady(s)
  BY <1>3, <1>4 DEF ResolveReady
<1>6. worker[s] \in Workers /\ worker[s].pc \in {"putting", "ending"} /\ s \notin putters
  BY <1>4, <1>5 DEF BridgeInv, BridgeTyped, StreamInv, Handed
<1>7. PICK w \in Workers :
        /\ worker' = [worker EXCEPT ![s] = w]
        /\ w.pc = (IF worker[s].pc = "putting" THEN "working" ELSE "gone")
        /\ w.made = worker[s].made /\ w.failed = worker[s].failed
  <2> DEFINE p == IF worker[s].pc = "putting" THEN "working" ELSE "gone"
             w == [worker[s] EXCEPT !.pc = p]
  <2>1. p \in {"working", "gone"}
    OBVIOUS
  <2> HIDE DEF p
  <2>2. w \in Workers /\ w.pc = p /\ w.made = worker[s].made /\ w.failed = worker[s].failed
    BY <1>6, <2>1 DEF Workers
  <2>3. worker' = [worker EXCEPT ![s] = w]
    BY <1>2, <1>4 DEF p, BridgeInv, BridgeTyped
  <2> QED
    BY <2>2, <2>3 DEF p
<1>8. BridgeTyped'
  BY <1>2, <1>3, <1>4, <1>7 DEF BridgeInv, BridgeTyped
<1>9. ASSUME NEW t \in StreamIds, t # s
      PROVE  StreamInv(t)'
  <2>1. (PutReady(t)' <=> PutReady(t)) /\ (ResolveReady(t)' <=> ResolveReady(t))
    BY <1>1, <1>2, <1>9, OthersAfterTail DEF PutReady, ResolveReady
  <2> QED
    BY <1>2, <1>7, <1>9, <2>1, OtherStream DEF BridgeInv, BridgeTyped
<1>10. StreamInv(s)'
  <2>1. worker'[s] = w
    BY <1>4, <1>7 DEF BridgeInv, BridgeTyped
  <2>2. ~PutReady(s) /\ ~OnItsWay(s)
    <3>1. ~PutReady(s)
      BY <1>1, <1>2, <1>3, <1>4, TailCallback DEF PutReady, BridgeInv, BridgeTyped
    <3> QED
      BY <1>6, <3>1 DEF OnItsWay
  <2>3. ~OnItsWay(s)' /\ ~ResolveReady(s)'
    BY <1>2, <1>3, <1>6 DEF OnItsWay, PutReady, ResolveReady
  <2>4. /\ EndDelivered(s)' <=> EndDelivered(s)
        /\ Pending(s) = 0 /\ Pending(s)' = 0
        /\ StreamOver(s)' <=> StreamOver(s)
    BY <1>2, <1>6, <1>7, <2>1, <2>2, <2>3 DEF EndDelivered, Pending, StreamOver
  <2>5. ChunksAccounted(s)'
    BY <1>2, <1>4, <1>7, <2>1, <2>4 DEF BridgeInv, StreamInv, ChunksAccounted
  <2>6. Handed(s)'
    BY <1>7, <2>1, <2>3 DEF Handed, OnItsWay
  <2>7. s <= current
    BY <1>4, <1>6 DEF BridgeInv, BridgeTyped, StreamInv, Unstarted, StreamIds
  <2> QED
    BY <1>2, <1>4, <2>5, <2>6, <2>7 DEF StreamInv, Unstarted, BridgeInv, BridgeTyped, StreamIds
<1>11. consumer' \in {"get", "wait", "yielded"} => ~StreamOver(current)'
  BY <1>2 DEF BridgeInv, StreamOver
<1> QED
  BY <1>3, <1>8, <1>9, <1>10, <1>11 DEF BridgeInv

SameCallbacks(t) ==
    (PutReady(t)' <=> PutReady(t)) /\ (ResolveReady(t)' <=> ResolveReady(t))

(* What running a put does to the callbacks: its own is gone, and when the *)
(* item was accepted the worker is going to be told so.                    *)
LEMMA CallbacksAfterPut ==
    ASSUME BridgeInv, RunPut, NEW s \in StreamIds, s = Head(ready)[2]
    PROVE  /\ ready' \in Seq(Callbacks) /\ Once(ready')
           /\ ~PutReady(s)'
           /\ ResolveReady(s)' <=> PutResult(s) = "accept"
           /\ \A t \in StreamIds : t # s => SameCallbacks(t)
<1> DEFINE r0 == Tail(ready)
<1>1. ready # << >> /\ Head(ready)[1] = "put"
  BY DEF RunPut, LoopRuns
<1>2. /\ r0 \in Seq(Callbacks) /\ Once(r0)
      /\ ~InSeq(r0, <<"put", s>>) /\ ~InSeq(r0, <<"resolve", s>>)
  BY <1>1, TailCallback DEF BridgeInv, BridgeTyped
<1>3. ASSUME NEW t \in StreamIds, t # s
      PROVE  /\ InSeq(r0, <<"put", t>>) <=> PutReady(t)
             /\ InSeq(r0, <<"resolve", t>>) <=> ResolveReady(t)
  BY <1>1, <1>3, OthersAfterTail
<1> HIDE DEF r0
<1>4. CASE PutResult(s) # "accept"
  <2>1. ready' = r0
    <3>1. ready' = r0 \o << >> \o << >>
      BY <1>4 DEF RunPut, PutResult, r0
    <3> QED
      BY <1>2, <3>1, ConcatEmptySeq
  <2> QED
    BY <1>2, <1>3, <1>4, <2>1 DEF PutReady, ResolveReady, SameCallbacks
<1>5. CASE PutResult(s) = "accept"
  <2> DEFINE x == <<"resolve", s>>
             woken == Wake(s) # << >>
             r1 == IF woken THEN Append(r0, <<"wake", s>>) ELSE r0
  <2>1. ready' = Append(r1, x)
    <3>1. ready' = (r0 \o Wake(s)) \o <<x>>
      BY <1>5 DEF RunPut, r0
    <3>2. r0 \o Wake(s) = r1
      <4>1. Wake(s) = << >> => r0 \o Wake(s) = r0
        BY <1>2, ConcatEmptySeq
      <4>2. Wake(s) # << >> => Wake(s) = << <<"wake", s>> >>
        BY DEF Wake
      <4>3. <<"wake", s>> \in Callbacks
        BY DEF Callbacks
      <4>4. Append(r0, <<"wake", s>>) = r0 \o << <<"wake", s>> >>
        BY <1>2, <4>3, AppendIsConcat
      <4> QED
        BY <4>1, <4>2, <4>4
    <3>3. r1 \in Seq(Callbacks) /\ x \in Callbacks
      BY <1>2, AppendProperties DEF Callbacks
    <3> QED
      BY <3>1, <3>2, <3>3, AppendIsConcat
  <2>2. /\ r1 \in Seq(Callbacks) /\ Once(r1)
        /\ \A y : y[1] # "wake" => (InSeq(r1, y) <=> InSeq(r0, y))
    <3> DEFINE z == <<"wake", s>>
    <3>1. z \in Callbacks /\ z[1] = "wake"
      BY DEF Callbacks
    <3> HIDE DEF z
    <3>2. /\ Append(r0, z) \in Seq(Callbacks) /\ Once(Append(r0, z))
          /\ \A y : InSeq(Append(r0, z), y) <=> InSeq(r0, y) \/ y = z
      BY <1>2, <3>1, AppendCallback
    <3>3. r1 = Append(r0, z) \/ r1 = r0
      BY DEF z
    <3> HIDE DEF r1
    <3>4. ASSUME NEW y, y[1] # "wake"
          PROVE  InSeq(r1, y) <=> InSeq(r0, y)
      BY <3>1, <3>2, <3>3, <3>4
    <3> QED
      BY <1>2, <3>2, <3>3, <3>4
  <2> HIDE DEF r1
  <2>3. /\ ready' \in Seq(Callbacks) /\ Once(ready')
        /\ \A y : InSeq(ready', y) <=> InSeq(r1, y) \/ y = x
    <3>1. x \in Callbacks /\ x[2] = s
      BY DEF Callbacks
    <3>2. ASSUME NEW kind \in {"put", "resolve"}
          PROVE  ~InSeq(r1, <<kind, s>>)
      <4> DEFINE y == <<kind, s>>
      <4>1. y[1] # "wake" /\ ~InSeq(r0, y)
        BY <1>2
      <4> HIDE DEF y
      <4>2. ~InSeq(r1, y)
        BY <2>2, <4>1
      <4> QED
        BY <4>2 DEF y
    <3> HIDE DEF x
    <3> QED
      BY <2>1, <2>2, <3>1, <3>2, AppendCallback
  <2>4. /\ ~InSeq(ready', <<"put", s>>) /\ InSeq(ready', <<"resolve", s>>)
    BY <1>2, <2>2, <2>3
  <2>5. ASSUME NEW t \in StreamIds, t # s
        PROVE  /\ InSeq(ready', <<"put", t>>) <=> PutReady(t)
               /\ InSeq(ready', <<"resolve", t>>) <=> ResolveReady(t)
    <3>1. ASSUME NEW y, y[1] # "wake", y # x
          PROVE  InSeq(ready', y) <=> InSeq(r0, y)
      BY <2>2, <2>3, <3>1
    <3>2. ASSUME NEW kind \in {"put", "resolve"}
          PROVE  InSeq(ready', <<kind, t>>) <=> InSeq(r0, <<kind, t>>)
      <4> DEFINE y == <<kind, t>>
      <4>1. y[1] # "wake" /\ y # x
        BY <2>5
      <4> HIDE DEF y
      <4>2. InSeq(ready', y) <=> InSeq(r0, y)
        BY <3>1, <4>1
      <4> QED
        BY <4>2 DEF y
    <3>3. /\ InSeq(r0, <<"put", t>>) <=> PutReady(t)
          /\ InSeq(r0, <<"resolve", t>>) <=> ResolveReady(t)
      BY <1>3, <2>5
    <3>4. InSeq(ready', <<"put", t>>) <=> InSeq(r0, <<"put", t>>)
      BY <3>2
    <3>5. InSeq(ready', <<"resolve", t>>) <=> InSeq(r0, <<"resolve", t>>)
      BY <3>2
    <3> QED
      BY <3>3, <3>4, <3>5
  <2> QED
    BY <1>5, <2>3, <2>4, <2>5 DEF PutReady, ResolveReady, SameCallbacks
<1> QED
  BY <1>4, <1>5

LEMMA RunPutKeeps ==
    ASSUME BridgeInv, RunPut
    PROVE  BridgeInv'
<1>1. ready # << >> /\ Head(ready)[1] = "put"
  BY DEF RunPut, LoopRuns
<1>2. /\ Head(ready) \in Callbacks /\ InSeq(ready, Head(ready))
  BY <1>1, TailCallback DEF BridgeInv, BridgeTyped
<1>3. PICK s \in StreamIds : s = Head(ready)[2] /\ Head(ready) = <<"put", s>>
  BY <1>1, <1>2 DEF Callbacks
<1>4. /\ ready' \in Seq(Callbacks) /\ Once(ready')
      /\ ~PutReady(s)'
      /\ ResolveReady(s)' <=> PutResult(s) = "accept"
      /\ \A t \in StreamIds : t # s => SameCallbacks(t)
  BY <1>3, CallbacksAfterPut
<1>5. /\ UNCHANGED <<current, consumer, worker, received, outcome, stdout>>
      /\ PutResult(s) = "accept" =>
            /\ queue' = [queue EXCEPT ![s] = Append(@, worker[s].item)]
            /\ putters' = putters
      /\ PutResult(s) # "accept" =>
            queue' = queue /\ putters' = putters \union {s}
  BY <1>3 DEF RunPut, PutResult
<1>6. PutReady(s)
  BY <1>2, <1>3 DEF PutReady
<1>7. /\ worker[s] \in Workers /\ queue[s] \in Seq(Items)
      /\ worker[s].pc \in {"putting", "ending"} /\ s \notin putters
      /\ worker[s].pc = "putting" => worker[s].item = "chunk"
      /\ worker[s].pc = "ending" => worker[s].item = "end"
      /\ OnItsWay(s)
  BY <1>6 DEF BridgeInv, BridgeTyped, StreamInv, Handed, OnItsWay
<1>8. worker[s].item \in Items
  BY <1>7 DEF Items
<1>9. BridgeTyped'
  <2>1. queue' \in [StreamIds -> Seq(Items)]
    <3>1. Append(queue[s], worker[s].item) \in Seq(Items)
      BY <1>7, <1>8, AppendProperties
    <3> QED
      BY <1>5, <3>1 DEF BridgeInv, BridgeTyped
  <2>2. putters' \subseteq StreamIds
    BY <1>5 DEF BridgeInv, BridgeTyped
  <2> QED
    BY <1>4, <1>5, <2>1, <2>2 DEF BridgeInv, BridgeTyped
<1>10. ASSUME NEW t \in StreamIds, t # s
       PROVE  StreamInv(t)'
  <2>1. (PutReady(t)' <=> PutReady(t)) /\ (ResolveReady(t)' <=> ResolveReady(t))
    <3>1. SameCallbacks(t)
      BY <1>4, <1>10
    <3> QED
      BY <3>1 DEF SameCallbacks
  <2>2. queue'[t] = queue[t] /\ (t \in putters' <=> t \in putters)
    BY <1>5, <1>10 DEF BridgeInv, BridgeTyped
  <2> QED
    BY <1>5, <2>1, <2>2, OtherStream DEF BridgeInv, BridgeTyped
<1>11. StreamInv(s)'
  <2>1. ~EndDelivered(s) /\ ~StreamOver(s) /\ ~StreamOver(s)'
    BY <1>5, <1>7 DEF EndDelivered, StreamOver, BridgeInv, StreamInv, ChunksAccounted
  <2>2. /\ \A i \in 1..Len(queue[s]) : queue[s][i] = "chunk"
        /\ worker[s].made = received[s] + Len(queue[s]) + Pending(s)
        /\ Pending(s) = IF worker[s].pc = "putting" THEN 1 ELSE 0
        /\ received[s] \in Nat /\ Len(queue[s]) \in Nat
    BY <1>7, <2>1, LenProperties
    DEF BridgeInv, BridgeTyped, StreamInv, ChunksAccounted, Pending
  <2>3. (Unstarted(s) /\ s <= current)'
    BY <1>5, <1>7 DEF BridgeInv, BridgeTyped, StreamInv, Unstarted, StreamIds
  <2>4. CASE PutResult(s) = "accept"
    <3>1. ~OnItsWay(s)' /\ Pending(s)' = 0 /\ s \notin putters'
      BY <1>4, <1>5, <1>7, <2>4 DEF OnItsWay, Pending
    <3>2. Handed(s)'
      BY <1>5, <1>7, <3>1 DEF Handed
    <3> DEFINE n == Len(queue[s]) + 1
    <3>3. /\ Len(queue'[s]) = n /\ queue'[s][n] = worker[s].item
          /\ \A i \in 1..(n - 1) : queue'[s][i] = "chunk"
      <4>1. queue'[s] = Append(queue[s], worker[s].item)
        BY <1>5, <2>4 DEF BridgeInv, BridgeTyped
      <4> QED
        BY <1>7, <1>8, <2>2, <4>1, AppendProperties
    <3> HIDE DEF n
    <3>4. n \in Nat /\ n > 0 /\ Len(queue[s]) = n - 1
      BY <2>2 DEF n
    <3>5. CASE worker[s].pc = "putting"
      <4>1. ~EndDelivered(s)'
        BY <1>5, <3>5 DEF EndDelivered
      <4>2. \A i \in 1..n : queue'[s][i] = "chunk"
        BY <1>7, <3>3, <3>4, <3>5
      <4>3. ChunksAccounted(s)'
        BY <1>5, <2>1, <2>2, <3>1, <3>3, <3>4, <3>5, <4>1, <4>2 DEF ChunksAccounted
      <4> QED
        BY <2>3, <3>2, <4>3 DEF StreamInv
    <3>6. CASE worker[s].pc = "ending"
      <4>1. EndDelivered(s)'
        BY <1>5, <3>1, <3>6 DEF EndDelivered
      <4>2. ChunksAccounted(s)'
        BY <1>5, <1>7, <2>1, <2>2, <3>3, <3>4, <3>6, <4>1 DEF ChunksAccounted
      <4> QED
        BY <2>3, <3>2, <4>2 DEF StreamInv
    <3> QED
      BY <1>7, <3>5, <3>6
  <2>5. CASE PutResult(s) # "accept"
    <3>1. OnItsWay(s)' /\ ~ResolveReady(s)' /\ ~PutReady(s)'
      BY <1>4, <1>5, <2>5 DEF OnItsWay
    <3>2. Handed(s)'
      BY <1>5, <1>7, <3>1 DEF Handed
    <3>3. ~EndDelivered(s)' /\ Pending(s)' = Pending(s)
      BY <1>5, <1>7, <3>1 DEF EndDelivered, Pending
    <3>4. ChunksAccounted(s)'
      BY <1>5, <2>1, <2>2, <2>5, <3>3 DEF ChunksAccounted
    <3> QED
      BY <2>3, <3>2, <3>4 DEF StreamInv
  <2> QED
    BY <2>4, <2>5
<1>12. consumer' \in {"get", "wait", "yielded"} => ~StreamOver(current)'
  BY <1>5 DEF BridgeInv, StreamOver
<1> QED
  BY <1>4, <1>9, <1>10, <1>11, <1>12 DEF BridgeInv
-----------------------------------------------------------------------------
(* The generator on the loop. *)

(* A queue of items, looked at from its end. *)
LEMMA TailOfItems ==
    ASSUME NEW q \in Seq(Items), q # << >>
    PROVE  /\ Head(q) = q[1] /\ Head(q) \in Items /\ Len(q) \in Nat /\ Len(q) > 0
           /\ Tail(q) \in Seq(Items) /\ Len(Tail(q)) = Len(q) - 1
           /\ \A i \in 1..(Len(q) - 1) : Tail(q)[i] = q[i + 1]
  BY HeadTailProperties, EmptySeq, LenProperties, ElementOfSeq

(* Taking an item lets a put that waits for room try again. *)
LEMMA CallbacksAfterGet ==
    ASSUME BridgeInv, NEW s \in StreamIds, s = current, queue[s] # << >>, QueueGet
    PROVE  /\ ready' \in Seq(Callbacks) /\ Once(ready')
           /\ putters' = putters \ {s}
           /\ OnItsWay(s)' <=> OnItsWay(s)
           /\ ResolveReady(s)' <=> ResolveReady(s)
           /\ \A t \in StreamIds : t # s => SameCallbacks(t)
<1>1. /\ putters' = putters \ {s}
      /\ ready' = IF s \in putters THEN Append(ready, <<"put", s>>) ELSE ready
  BY DEF QueueGet
<1>2. ready \in Seq(Callbacks) /\ Once(ready)
  BY DEF BridgeInv, BridgeTyped
<1>3. CASE s \notin putters
  BY <1>1, <1>2, <1>3 DEF OnItsWay, PutReady, ResolveReady, SameCallbacks
<1>4. CASE s \in putters
  <2> DEFINE x == <<"put", s>>
  <2>1. x \in Callbacks /\ x[2] = s
    BY DEF Callbacks
  <2>2. ~InSeq(ready, <<"put", s>>) /\ ~InSeq(ready, <<"resolve", s>>)
    BY <1>4 DEF BridgeInv, StreamInv, Handed, PutReady, ResolveReady
  <2>3. /\ ready' \in Seq(Callbacks) /\ Once(ready')
        /\ \A y : InSeq(ready', y) <=> InSeq(ready, y) \/ y = x
    BY <1>1, <1>2, <1>4, <2>1, <2>2, AppendCallback
  <2>4. PutReady(s)' /\ OnItsWay(s)' /\ OnItsWay(s)
    BY <1>4, <2>3 DEF PutReady, OnItsWay
  <2>5. <<"resolve", s>> # x
    OBVIOUS
  <2>6. ResolveReady(s)' <=> ResolveReady(s)
    BY <2>3, <2>5 DEF ResolveReady
  <2>7. ASSUME NEW t \in StreamIds, t # s
        PROVE  SameCallbacks(t)
    <3>1. <<"put", t>> # x /\ <<"resolve", t>> # x
      BY <2>7
    <3> QED
      BY <2>3, <3>1 DEF SameCallbacks, PutReady, ResolveReady
  <2> QED
    BY <1>1, <2>3, <2>4, <2>6, <2>7
<1> QED
  BY <1>3, <1>4

LEMMA QueueGetKeeps ==
    ASSUME BridgeInv, QueueGet
    PROVE  BridgeInv'
<1>1. PICK s \in StreamIds : s = current /\ consumer = "get"
  BY DEF QueueGet, BridgeInv, BridgeTyped, StreamIds
<1>2. UNCHANGED <<current, worker, stdout>>
  BY DEF QueueGet
<1>3. ~StreamOver(s)
  BY <1>1 DEF BridgeInv
<1>4. CASE queue[s] = << >>
  <2>1. consumer' = "wait" /\ UNCHANGED <<queue, ready, putters, received, outcome>>
    BY <1>1, <1>4 DEF QueueGet
  <2>2. BridgeTyped'
    BY <1>1, <1>2, <2>1 DEF BridgeInv, BridgeTyped
  <2>3. ASSUME NEW t \in StreamIds
        PROVE  StreamInv(t)'
    BY <1>2, <2>1, OtherStream DEF BridgeInv, BridgeTyped, PutReady, ResolveReady
  <2> QED
    BY <1>1, <1>2, <1>3, <2>1, <2>2, <2>3 DEF BridgeInv, StreamOver
<1>5. CASE queue[s] # << >>
  <2> DEFINE item == Head(queue[s])
             n == Len(queue[s])
  <2>1. /\ ready' \in Seq(Callbacks) /\ Once(ready')
        /\ putters' = putters \ {s}
        /\ OnItsWay(s)' <=> OnItsWay(s)
        /\ ResolveReady(s)' <=> ResolveReady(s)
        /\ \A t \in StreamIds : t # s => SameCallbacks(t)
    BY <1>1, <1>5, CallbacksAfterGet
  <2>2. /\ queue[s] \in Seq(Items) /\ worker[s] \in Workers
        /\ received[s] \in Nat /\ worker[s].made \in Nat
    BY DEF BridgeInv, BridgeTyped, Workers
  <2>3. /\ item = queue[s][1] /\ item \in Items /\ n \in Nat /\ n > 0
        /\ Tail(queue[s]) \in Seq(Items) /\ Len(Tail(queue[s])) = n - 1
        /\ \A i \in 1..(n - 1) : Tail(queue[s])[i] = queue[s][i + 1]
    BY <1>5, <2>2, TailOfItems
  <2>4. /\ queue' = [queue EXCEPT ![s] = Tail(@)]
        /\ item # "end" =>
              received' = [received EXCEPT ![s] = @ + 1] /\ consumer' = "yielded"
        /\ item = "end" =>
              received' = received /\ consumer' = "join"
    BY <1>1, <1>5 DEF QueueGet, Leave, Meaning
  <2>13. /\ item # "end" => outcome' = outcome
         /\ item = "end" => outcome' = [outcome EXCEPT ![s] =
                               IF worker[s].failed THEN "raised" ELSE "complete"]
    BY <1>1, <1>5 DEF QueueGet, Leave, Meaning
  <2>14. item = queue[s][1] /\ item \in Items /\ n \in Nat /\ n > 0
    BY <2>3
  <2>5. queue'[s] = Tail(queue[s])
    BY <2>4 DEF BridgeInv, BridgeTyped
  <2> HIDE DEF item, n
  <2>6. BridgeTyped'
    <3>1. queue' \in [StreamIds -> Seq(Items)]
      BY <2>3, <2>4 DEF BridgeInv, BridgeTyped
    <3>2. received' \in [StreamIds -> Nat]
      <4>1. received' = received \/ received' = [received EXCEPT ![s] = @ + 1]
        BY <2>4
      <4> QED
        BY <2>2, <4>1 DEF BridgeInv, BridgeTyped
    <3>3. PICK how \in Outcomes : outcome' \in {outcome, [outcome EXCEPT ![s] = how]}
      BY <2>13 DEF Outcomes
    <3>4. outcome' \in [StreamIds -> Outcomes]
      BY <3>3 DEF BridgeInv, BridgeTyped
    <3>5. consumer' \in {"yielded", "join"}
      BY <2>4
    <3> QED
      BY <1>1, <1>2, <2>1, <3>1, <3>2, <3>4, <3>5 DEF BridgeInv, BridgeTyped
  <2>7. ASSUME NEW t \in StreamIds, t # s
        PROVE  StreamInv(t)'
    <3>1. SameCallbacks(t)
      BY <2>1, <2>7
    <3>2. /\ queue'[t] = queue[t] /\ received'[t] = received[t] /\ outcome'[t] = outcome[t]
          /\ t \in putters' <=> t \in putters
      BY <2>1, <2>4, <2>13, <2>7 DEF BridgeInv, BridgeTyped
    <3> QED
      BY <1>2, <3>1, <3>2, OtherStream DEF BridgeInv, BridgeTyped, SameCallbacks
  <2>8. Handed(s)'
    <3>1. s \notin putters'
      BY <2>1
    <3> QED
      BY <1>2, <2>1, <3>1 DEF BridgeInv, StreamInv, Handed
  <2>9. EndDelivered(s)' = EndDelivered(s) /\ Pending(s)' = Pending(s)
    BY <1>2, <2>1 DEF EndDelivered, Pending
  <2>10. Unstarted(s)'
    BY <1>1, <1>2 DEF BridgeInv, BridgeTyped, Unstarted, StreamIds
  <2>11. CASE item # "end"
    <3>1. /\ item = "chunk" /\ received'[s] = received[s] + 1
          /\ ~StreamOver(s)' /\ outcome'[s] = outcome[s]
      BY <1>3, <2>3, <2>4, <2>13, <2>11 DEF Items, StreamOver, BridgeInv, BridgeTyped
    <3>2. ASSUME EndDelivered(s) PROVE StreamInv(s)'
      <4>1. /\ queue[s][n] = "end" /\ worker[s].made = received[s] + n - 1
            /\ \A i \in 1..(n - 1) : queue[s][i] = "chunk"
        BY <1>3, <3>2 DEF BridgeInv, StreamInv, ChunksAccounted, n
      <4>2. n - 1 \in Nat /\ n - 1 > 0
        <5>1. n # 1
          BY <2>14, <3>1, <4>1
        <5> QED
          BY <2>14, <5>1
      <4>3. /\ queue'[s][n - 1] = "end"
            /\ \A i \in 1..((n - 1) - 1) : queue'[s][i] = "chunk"
        <5>1. \A i \in 1..(n - 1) : queue'[s][i] = queue[s][i + 1]
          BY <2>3, <2>5
        <5>2. n - 1 \in 1..(n - 1) /\ (n - 1) + 1 = n
          BY <2>14, <4>2
        <5>3. queue'[s][n - 1] = "end"
          BY <4>1, <5>1, <5>2
        <5>4. \A i \in 1..((n - 1) - 1) : i \in 1..(n - 1) /\ i + 1 \in 1..(n - 1)
          BY <2>14, <4>2
        <5> QED
          BY <4>1, <5>1, <5>3, <5>4
      <4>4. worker'[s].made = received'[s] + (n - 1) - 1
        <5>1. worker'[s].made = worker[s].made /\ received'[s] = received[s] + 1
          BY <1>2, <3>1
        <5>2. received[s] \in Nat /\ n \in Nat
          BY <2>2, <2>14
        <5>3. worker[s].made = received[s] + n - 1
          BY <4>1
        <5> QED
          BY <5>1, <5>2, <5>3
      <4>5. ChunksAccounted(s)'
        BY <2>3, <2>5, <2>9, <3>1, <3>2, <4>2, <4>3, <4>4 DEF ChunksAccounted
      <4> QED
        BY <2>8, <2>10, <4>5 DEF StreamInv
    <3>3. ASSUME ~EndDelivered(s) PROVE StreamInv(s)'
      <4>1. /\ worker[s].made = received[s] + n + Pending(s)
            /\ \A i \in 1..n : queue[s][i] = "chunk"
        BY <1>3, <3>3 DEF BridgeInv, StreamInv, ChunksAccounted, n
      <4>2. \A i \in 1..(n - 1) : queue'[s][i] = "chunk"
        BY <2>3, <2>5, <4>1
      <4>3. Pending(s) \in Nat
        BY DEF Pending
      <4>4. worker'[s].made = received'[s] + (n - 1) + Pending(s)'
        BY <1>2, <2>2, <2>3, <2>9, <3>1, <4>1, <4>3
      <4>5. ChunksAccounted(s)'
        BY <2>3, <2>5, <2>9, <3>1, <3>3, <4>2, <4>4 DEF ChunksAccounted
      <4> QED
        BY <2>8, <2>10, <4>5 DEF StreamInv
    <3>4. consumer' \in {"get", "wait", "yielded"} => ~StreamOver(current)'
      BY <1>1, <1>2, <3>1 DEF StreamOver
    <3> QED
      BY <2>1, <2>6, <2>7, <3>2, <3>3, <3>4 DEF BridgeInv
  <2>12. CASE item = "end"
    <3>1. EndDelivered(s)
      <4>1. ~EndDelivered(s) => \A i \in 1..n : queue[s][i] = "chunk"
        BY <1>3 DEF BridgeInv, StreamInv, ChunksAccounted, n
      <4> QED
        <5>1. ASSUME ~EndDelivered(s) PROVE FALSE
          <6>1. queue[s][1] = "chunk"
            BY <2>14, <4>1, <5>1
          <6> QED
            BY <2>14, <2>12, <6>1
        <5> QED
          BY <5>1
    <3>2. n = 1 /\ worker[s].made = received[s]
      <4>1. /\ worker[s].made = received[s] + n - 1
            /\ \A i \in 1..(n - 1) : queue[s][i] = "chunk"
        BY <1>3, <3>1 DEF BridgeInv, StreamInv, ChunksAccounted, n
      <4> QED
        <5>1. ASSUME n # 1 PROVE FALSE
          <6>1. 1 \in 1..(n - 1)
            BY <2>14, <5>1
          <6>2. queue[s][1] = "chunk"
            BY <4>1, <6>1
          <6> QED
            BY <2>14, <2>12, <6>2
        <5> QED
          BY <2>2, <4>1, <5>1
    <3>3. /\ StreamOver(s)'
          /\ (outcome'[s] = "raised") <=> worker[s].failed
      BY <2>13, <2>12 DEF StreamOver, BridgeInv, BridgeTyped
    <3>4. ChunksAccounted(s)'
      <4>1. Len(queue'[s]) = 0 /\ received'[s] = worker'[s].made
        <5>1. Len(queue'[s]) = 0
          BY <2>3, <2>5, <3>2
        <5>2. received' = received /\ worker' = worker
          BY <1>2, <2>4, <2>12
        <5> QED
          BY <3>2, <5>1, <5>2
      <4> QED
        BY <1>2, <2>9, <3>1, <3>3, <4>1 DEF ChunksAccounted
    <3>5. StreamInv(s)'
      BY <2>8, <2>10, <3>4 DEF StreamInv
    <3> QED
      BY <2>1, <2>4, <2>6, <2>7, <2>12, <3>5 DEF BridgeInv
  <2> QED
    BY <2>11, <2>12
<1> QED
  BY <1>4, <1>5

(* Going on, closing, and the join, which may give up. *)
LEMMA CallerKeeps ==
    ASSUME BridgeInv, CallerGoesOn \/ CallerCloses \/ JoinReturns \/ JoinTimesOut
    PROVE  BridgeInv'
<1>1. /\ UNCHANGED <<current, worker, queue, ready, putters, received, stdout>>
      /\ consumer' \in {"idle", "get", "join"} /\ consumer # "idle"
      /\ consumer' = "get" => consumer = "yielded" /\ outcome' = outcome
      /\ outcome' # outcome => /\ consumer \in {"yielded", "wait"}
                              /\ outcome' = [outcome EXCEPT ![current] = "closed"]
  BY DEF CallerGoesOn, CallerCloses, JoinReturns, JoinTimesOut, Leave
<1>2. PICK s \in StreamIds : s = current
  BY <1>1 DEF BridgeInv, BridgeTyped, StreamIds
<1>3. BridgeTyped'
  <2>1. outcome' \in [StreamIds -> Outcomes]
    BY <1>1, <1>2 DEF BridgeInv, BridgeTyped, Outcomes
  <2> QED
    BY <1>1, <2>1 DEF BridgeInv, BridgeTyped
<1>4. ASSUME NEW t \in StreamIds, t # s
      PROVE  StreamInv(t)'
  BY <1>1, <1>2, <1>4, OtherStream DEF BridgeInv, BridgeTyped, PutReady, ResolveReady
<1>5. StreamInv(s)'
  <2>1. CASE outcome' = outcome
    BY <1>1, <2>1, OtherStream DEF BridgeInv, BridgeTyped, PutReady, ResolveReady
  <2>2. CASE outcome' # outcome
    <3>1. ~StreamOver(s) /\ ~StreamOver(s)'
      BY <1>1, <1>2, <2>2 DEF BridgeInv, BridgeTyped, StreamOver
    <3>2. /\ EndDelivered(s)' = EndDelivered(s) /\ Pending(s)' = Pending(s)
          /\ Handed(s)'
      BY <1>1 DEF BridgeInv, StreamInv, Handed, EndDelivered, Pending, OnItsWay, PutReady, ResolveReady
    <3>3. ChunksAccounted(s)'
      BY <1>1, <3>1, <3>2 DEF BridgeInv, StreamInv, ChunksAccounted
    <3>4. Unstarted(s)'
      BY <1>1, <1>2 DEF BridgeInv, BridgeTyped, Unstarted, StreamIds
    <3> QED
      BY <3>2, <3>3, <3>4 DEF StreamInv
  <2> QED
    BY <2>1, <2>2
<1>6. consumer' \in {"get", "wait", "yielded"} => ~StreamOver(current)'
  BY <1>1, <1>2 DEF BridgeInv, StreamOver
<1> QED
  BY <1>1, <1>3, <1>4, <1>5, <1>6 DEF BridgeInv

LEMMA BridgeInvStep ==
    ASSUME LocalBridgeAssumption, BridgeInv, [BridgeNext]_bridgeVars
    PROVE  BridgeInv'
<1>1. CASE UNCHANGED bridgeVars
  <2>1. ASSUME NEW s \in StreamIds
        PROVE  StreamInv(s)'
    BY <1>1, OtherStream DEF bridgeVars, BridgeInv, BridgeTyped, PutReady, ResolveReady
  <2> QED
    BY <1>1, <2>1 DEF bridgeVars, BridgeInv, BridgeTyped, StreamOver
<1> QED
  BY <1>1, StartStreamKeeps, RedirectKeeps, ProduceKeeps, EndKeeps, RunPutKeeps,
     RunResolveKeeps, RunWakeKeeps, QueueGetKeeps, CallerKeeps
  DEF BridgeNext

(* A local answer that ends by itself was passed on whole and ended the    *)
(* way the backend did, for answers of every length, a queue of every      *)
(* capacity, and threads of earlier answers that are still at work         *)
(* (_astream_local_threaded: the worker thread, the loop and the queue).   *)
THEOREM StreamsFaithful ==
    ASSUME LocalBridgeAssumption
    PROVE  BridgeSpec => []StreamFaithful
<1>1. BridgeInit => BridgeInv
  BY BridgeInvInit
<1>2. BridgeInv /\ [BridgeNext]_bridgeVars => BridgeInv'
  BY BridgeInvStep
<1>3. BridgeInv => StreamFaithful
  BY DEF BridgeInv, StreamInv, ChunksAccounted, StreamOver, StreamFaithful
<1> QED
  BY <1>1, <1>2, <1>3, PTL DEF BridgeSpec
-----------------------------------------------------------------------------
(* ProviderRequests, for every number of users, clients, requests and      *)
(* retries, and whoever closes a client meanwhile.                         *)

AllReplies == Replies \union {"closed"}

(* A request that goes on has an attempt left, and so far saw only replies *)
(* that ask for another one.                                               *)
UnderWay(q) ==
    /\ Len(q.seen) < RequestRetries + 1
    /\ \A k \in 1..Len(q.seen) : q.seen[k] \in {"busy", "lost", "broken"}

Told(q) ==
    q.result # "none" =>
        LET last == q.seen[Len(q.seen)] IN
        /\ Len(q.seen) <= RequestRetries + 1
        /\ \A k \in 1..(Len(q.seen) - 1) : q.seen[k] \in {"busy", "lost", "broken"}
        /\ q.result \in Succeeded => last \in Answers
        /\ last = "refused" => q.result \in {"error", "failed", "fallback"}
        /\ q.op = "list" => q.result # "raised"

Results == {"discovered", "fallback", "failed", "error", "answer", "raised", "opened", "connected"}

Requests == [op : Operations \union {"none"}, client : Nat,
             seen : Seq(AllReplies), result : Results \union {"none"}]

RequestInv(q) == Told(q) /\ (q.op # "none" /\ q.result = "none" => UnderWay(q))

ClientsTyped == asyncClient \in Nat /\ IsFiniteSet(asyncClosed)

RequestsInv ==
    /\ provider_kind \in {"openai", "anthropic", "rest"}
    /\ ClientsTyped
    /\ request \in [Requesters -> Requests]
    /\ \A c \in Requesters : RequestInv(request[c])
-----------------------------------------------------------------------------
(* What each provider makes of a last reply keeps to the reply: an error   *)
(* is not an answer, a refusal is not an exception, and a listing does not *)
(* raise.                                                                  *)
Honest(op, reply, result) ==
    /\ result \in Results
    /\ result \in Succeeded => reply \in Answers
    /\ reply = "refused" => result \in {"error", "failed", "fallback"}
    /\ op = "list" => result # "raised"

LEMMA OpenAIHonest ==
    ASSUME NEW op \in Operations, NEW reply \in AllReplies
    PROVE  Honest(op, reply, OpenAIResult(op, reply))
<1> USE DEF Results, Operations, AllReplies, Replies, Answers, ReportedReply, Honest, Succeeded
<1>1. CASE op = "list"
  BY <1>1 DEF OpenAIResult
<1>2. CASE op = "generate"
  BY <1>2 DEF OpenAIResult
<1>3. CASE op = "stream"
  BY <1>3 DEF OpenAIResult
<1>4. CASE op = "test"
  BY <1>4 DEF OpenAIResult
<1> QED
  BY <1>1, <1>2, <1>3, <1>4

LEMMA AllHonest ==
    ASSUME provider_kind \in {"openai", "anthropic", "rest"},
           NEW op \in Operations, NEW reply \in AllReplies, NEW client
    PROVE  Honest(op, reply, ResultOf(op, client, reply))
<1>1. Honest(op, reply, OpenAIResult(op, reply))
  BY OpenAIHonest
<1>2. Honest(op, reply, AnthropicResult(op, reply))
  BY <1>1 DEF AnthropicResult, Honest, Results, Succeeded, Answers, Operations
<1>3. Honest(op, reply, RestResult(op, reply))
  <2>1. CASE op = "generate" /\ reply = "empty"
    BY <2>1 DEF RestResult, Honest, Results, Succeeded, Answers
  <2>2. CASE op = "test" /\ reply = "garbled"
    BY <2>2 DEF RestResult, Honest, Results, Succeeded, Answers
  <2>3. CASE ~(op = "generate" /\ reply = "empty") /\ ~(op = "test" /\ reply = "garbled")
    BY <1>1, <2>3 DEF RestResult
  <2> QED
    BY <2>1, <2>2, <2>3
<1> DEFINE r == ResultOf(op, client, reply)
<1>4. r \in {OpenAIResult(op, reply), AnthropicResult(op, reply), RestResult(op, reply)}
  <2>1. CASE provider_kind = "openai"
    BY <2>1 DEF ResultOf, OpenAIAsyncResult
  <2>2. CASE provider_kind = "anthropic"
    BY <2>2 DEF ResultOf, AnthropicAsyncResult
  <2>3. CASE provider_kind = "rest"
    BY <2>3 DEF ResultOf, RestAsyncResult
  <2> QED
    BY <2>1, <2>2, <2>3
<1> QED
  BY <1>1, <1>2, <1>3, <1>4
-----------------------------------------------------------------------------
(* A request that was just made, or none. *)
LEMMA FreshRequest ==
    ASSUME ProviderRequestsAssumption, NEW q \in Requests, Len(q.seen) = 0, q.result = "none"
    PROVE  RequestInv(q)
<1>1. 0 < RequestRetries + 1
  BY DEF ProviderRequestsAssumption
<1>2. UnderWay(q)
  BY <1>1 DEF UnderWay
<1>3. Told(q)
  BY Zenon DEF Told
<1> QED
  BY <1>2, <1>3 DEF RequestInv

LEMMA NoReplies == << >> \in Seq(AllReplies) /\ Len(<< >>) = 0
  BY EmptySeq

LEMMA IdleIsFresh == Idle \in Requests /\ Len(Idle.seen) = 0 /\ Idle.result = "none"
  BY NoReplies DEF Idle, Requests, Results

LEMMA RequestsInvInit == ProviderRequestsAssumption /\ RequestsInit => RequestsInv
<1> SUFFICES ASSUME ProviderRequestsAssumption, RequestsInit PROVE RequestsInv
  OBVIOUS
<1>1. RequestInv(Idle)
  BY FreshRequest, IdleIsFresh
<1>2. ClientsTyped
  BY FS_EmptySet DEF RequestsInit, ClientsTyped
<1> QED
  BY <1>1, <1>2, IdleIsFresh DEF ProviderRequestsAssumption, RequestsInit, RequestsInv

(* A client that is closed is remembered as such. *)
LEMMA ReleaseTyped ==
    ASSUME ClientsTyped, NEW release, ReleaseClient(release)
    PROVE  ClientsTyped'
  BY FS_AddElement DEF ClientsTyped, ReleaseClient

(* A new request, of either client. *)
LEMMA StartKeeps ==
    ASSUME ProviderRequestsAssumption, RequestsInv, NEW c \in Requesters, NEW op \in Operations,
           StartSync(c, op) \/ StartAsync(c, op)
    PROVE  RequestsInv'
<1>1. ClientsTyped'
  BY FS_CardinalityType DEF RequestsInv, ClientsTyped, StartSync, StartAsync
<1>2. PICK q \in Requests :
         request' = [request EXCEPT ![c] = q] /\ Len(q.seen) = 0 /\ q.result = "none"
  <2>1. CASE StartSync(c, op)
    <3> DEFINE q == [Idle EXCEPT !.op = op]
    <3>1. q \in Requests /\ Len(q.seen) = 0 /\ q.result = "none"
      BY IdleIsFresh DEF Requests
    <3> QED
      BY <2>1, <3>1 DEF StartSync
  <2>2. CASE StartAsync(c, op)
    <3> DEFINE q == [Idle EXCEPT !.op = op, !.client = asyncClient']
    <3>1. q \in Requests /\ Len(q.seen) = 0 /\ q.result = "none"
      BY <1>1, IdleIsFresh DEF Requests, ClientsTyped
    <3> QED
      BY <2>2, <3>1 DEF StartAsync
  <2> QED
    BY <2>1, <2>2
<1>3. RequestInv(q)
  BY <1>2, FreshRequest
<1>4. UNCHANGED provider_kind
  BY DEF StartSync, StartAsync
<1> QED
  BY <1>1, <1>2, <1>3, <1>4 DEF RequestsInv

LEMMA AttemptKeeps ==
    ASSUME ProviderRequestsAssumption, RequestsInv, NEW c \in Requesters, NEW reply \in AllReplies,
           Attempt(c, reply)
    PROVE  RequestsInv'
<1> DEFINE q == request[c]
           seen == Append(q.seen, reply)
           again == Retried(reply) /\ Len(seen) < AttemptLimit
           result == IF again THEN "none" ELSE ResultOf(q.op, q.client, reply)
           r == [q EXCEPT !.seen = seen, !.result = result]
<1>1. q \in Requests /\ q.op \in Operations /\ UnderWay(q)
  BY DEF RequestsInv, Attempt, Running, RequestInv, Requests
<1>2. request' = [request EXCEPT ![c] = r] /\ UNCHANGED provider_kind
  BY DEF Attempt, RequestsInv
<1>3. ClientsTyped'
  BY ReleaseTyped DEF RequestsInv, Attempt
<1>10. q.seen \in Seq(AllReplies)
  BY <1>1 DEF Requests
<1>4. /\ seen \in Seq(AllReplies) /\ Len(seen) = Len(q.seen) + 1 /\ seen[Len(seen)] = reply
      /\ \A k \in 1..Len(q.seen) : seen[k] = q.seen[k]
  BY <1>10, AppendProperties
<1>5. AttemptLimit = RequestRetries + 1 /\ RequestRetries \in Nat
  BY DEF AttemptLimit, ProviderRequestsAssumption
<1>6. /\ Len(q.seen) \in Nat /\ Len(q.seen) < RequestRetries + 1
      /\ \A k \in 1..Len(q.seen) : seen[k] \in {"busy", "lost", "broken"}
  BY <1>1, <1>4, LenProperties DEF Requests, UnderWay
<1>7. result \in Results \union {"none"} /\ (~again => Honest(q.op, reply, result))
  BY <1>1, AllHonest DEF RequestsInv, Honest
<1>8. /\ r \in Requests
      /\ r.op = q.op /\ r.seen = seen /\ r.result = result
  <2> HIDE DEF seen, result
  <2> QED
    BY <1>1, <1>4, <1>7 DEF Requests
<1> HIDE DEF seen, result, r
<1>9. RequestInv(r)
  <2>1. CASE again
    <3>1. r.result = "none"
      BY <1>8, <2>1 DEF result
    <3>2. Len(seen) < RequestRetries + 1 /\ reply \in {"busy", "lost", "broken"}
      BY <1>5, <2>1 DEF Retried
    <3>3. \A k \in 1..Len(seen) : seen[k] \in {"busy", "lost", "broken"}
      BY <1>4, <1>6, <3>2
    <3>4. UnderWay(r)
      BY <1>8, <3>2, <3>3 DEF UnderWay
    <3> QED
      BY <3>1, <3>4 DEF RequestInv, Told
  <2>2. CASE ~again
    <3>1. /\ Len(seen) <= RequestRetries + 1
          /\ \A k \in 1..(Len(seen) - 1) : seen[k] \in {"busy", "lost", "broken"}
      BY <1>4, <1>5, <1>6
    <3>2. Told(r)
      BY <1>4, <1>7, <1>8, <2>2, <3>1 DEF Told, Honest
    <3> QED
      BY <1>7, <1>8, <2>2, <3>2 DEF RequestInv, Honest, Results
  <2> QED
    BY <2>1, <2>2
<1> QED
  BY <1>2, <1>3, <1>8, <1>9 DEF RequestsInv

LEMMA RequestsInvStep ==
    ASSUME ProviderRequestsAssumption, RequestsInv, [RequestsNext]_requestVars
    PROVE  RequestsInv'
<1>1. CASE CloseProvider \/ UNCHANGED requestVars
  BY <1>1 DEF CloseProvider, requestVars, RequestsInv, ClientsTyped
<1>2. CASE CloseAsync
  BY <1>2, ReleaseTyped DEF CloseAsync, RequestsInv
<1> QED
  BY <1>1, <1>2, StartKeeps, AttemptKeeps DEF RequestsNext, AllReplies

(* A provider reports what the server said: a success only for an answer   *)
(* to its last attempt, a refusal as one, and no attempt beyond the        *)
(* configured retries or after a reply that may have been acted upon, for  *)
(* every provider, and with clients shared and closed at any moment        *)
(* (_request_with_retries and its callers).                                *)
THEOREM OutcomesHonest ==
    ASSUME ProviderRequestsAssumption
    PROVE  RequestsSpec => []OutcomeIsTheServers
<1>1. RequestsInit => RequestsInv
  BY RequestsInvInit
<1>2. RequestsInv /\ [RequestsNext]_requestVars => RequestsInv'
  BY RequestsInvStep
<1>3. RequestsInv => OutcomeIsTheServers
  BY DEF RequestsInv, RequestInv, Told, OutcomeIsTheServers
<1> QED
  BY <1>1, <1>2, <1>3, PTL DEF RequestsSpec
-----------------------------------------------------------------------------
(* ModelStore, for files of every size and any number of sources, versions *)
(* and removals: what a name with one source has in the cache is a part of *)
(* its file, and in its directories whole files.                           *)

Entries == [name : ModelNames, version : Versions, source : Sources]
Directory == [FileNames -> Seq(Sources)]

InstallJobs == [pc : {"request", "move", "detect", "hub"}, source : Sources,
                name : ModelNames, version : Versions]
TransferJobs == [pc : {"transfer", "move", "detect"}, source : Sources,
                 name : ModelNames, version : Versions, left : Nat]
RemovalJobs == [pc : {"rmtree"}, name : ModelNames, versions : SUBSET Versions]

ModelStoreTypeOK ==
    /\ registered \subseteq Entries
    /\ modelDir \in [ModelNames \X Versions -> Directory]
    /\ downloads \in [ModelNames -> Directory]
    /\ job \in {NoJob} \cup InstallJobs \cup TransferJobs \cup RemovalJobs

SourcesOf(name) == {s \in Sources : NameOf[s] = name}

(* The cache has at most a whole file, of chunks of sources of that name.  *)
IsPartial(name, content) == content \in Seq(SourcesOf(name)) /\ Len(content) <= Size
CacheIsPartial == \A name \in ModelNames, f \in FileNames : IsPartial(name, downloads[name][f])

(* Where a job is, and what it has in the cache.                           *)
JobFits ==
    /\ job.pc \in {"request", "transfer", "move", "detect", "hub"} =>
           job.name = NameOf[job.source]
    /\ job.pc \in {"request", "transfer", "move"} => job.source \in Urls
    /\ job.pc = "hub" => job.source \in Repos
    /\ job.pc = "transfer" => job.left + Len(Cached) = Size
    /\ job.pc = "move" => Len(Cached) = Size

(* In the directories of a name with one source, registered or not, every  *)
(* file is a whole file of that source or not there.                       *)
NothingHalf ==
    \A s \in Sources : OnlySource(s) =>
        \A v \in Versions, f \in FileNames :
            \/ modelDir[<<NameOf[s], v>>][f] = NoContent
            \/ f \in FilesOf(s) /\ modelDir[<<NameOf[s], v>>][f] = Whole(s)

InPlace(s, v) == \A f \in FilesOf(s) : modelDir[<<NameOf[s], v>>][f] = Whole(s)

(* All files are there before detection, and as long as the entry is.      *)
DetectedInPlace == job.pc = "detect" /\ OnlySource(job.source) => InPlace(job.source, job.version)
RegisteredInPlace ==
    \A e \in registered : /\ e.name = NameOf[e.source]
                          /\ OnlySource(e.source) => InPlace(e.source, e.version)

(* Only what is not registered is deleted. *)
DeletesUnregistered ==
    job.pc = "rmtree" =>
        \A e \in registered : ~(e.name = job.name /\ e.version \in job.versions)

ModelStoreInv ==
    /\ ModelStoreTypeOK /\ CacheIsPartial /\ JobFits
    /\ NothingHalf /\ DetectedInPlace /\ RegisteredInPlace /\ DeletesUnregistered

LEMMA NamesTyped ==
  /\ \A s \in Sources : NameOf[s] \in ModelNames
  /\ \A s \in Sources : FilesOf(s) \subseteq FileNames
  /\ \A u \in Urls : u \in Sources /\ FileOf[u] \in FileNames /\ FilesOf(u) = {FileOf[u]}
BY DEF ModelNames, FileNames, FilesOf, Sources

LEMMA WholeTyped ==
  ASSUME ModelStoreAssumption, NEW s \in Sources
  PROVE  Whole(s) \in Seq(Sources) /\ Whole(s) # NoContent
<1>1. Size \in Nat /\ Size > 0
  BY DEF ModelStoreAssumption
<1>2. Whole(s) \in Seq(Sources) /\ Len(Whole(s)) = Size
  BY <1>1 DEF Whole
<1>3. Len(NoContent) = 0
  BY DEF NoContent
<1> QED
  BY <1>1, <1>2, <1>3

\* A file of the cache that is long enough is whole, if one source fills it.
LEMMA LongIsWhole ==
  ASSUME ModelStoreAssumption, NEW s \in Sources, OnlySource(s), NEW content,
         IsPartial(NameOf[s], content), Len(content) = Size
  PROVE  content = Whole(s)
<1>1. \A t \in SourcesOf(NameOf[s]) : t = s
  BY DEF OnlySource, SourcesOf
<1>2. content \in Seq(SourcesOf(NameOf[s]))
  BY DEF IsPartial
<1>3. \A i \in 1 .. Size : content[i] = s
  BY <1>1, <1>2
<1>4. content = [i \in 1 .. Size |-> content[i]]
  BY <1>2
<1> QED
  BY <1>3, <1>4 DEF Whole

LEMMA NothingIsPartial ==
  ASSUME ModelStoreAssumption, NEW name PROVE IsPartial(name, NoContent) /\ Len(NoContent) = 0
<1>1. <<>> \in Seq(SourcesOf(name)) /\ Len(<<>>) = 0
  OBVIOUS
<1> QED
  BY <1>1 DEF IsPartial, NoContent, ModelStoreAssumption

LEMMA PartialTyped ==
  ASSUME NEW name, NEW content, IsPartial(name, content)
  PROVE  content \in Seq(Sources) /\ Len(content) \in Nat
BY DEF IsPartial, SourcesOf

LEMMA ModelStoreInvInit == ModelStoreAssumption /\ ModelStoreInit => ModelStoreInv
<1> SUFFICES ASSUME ModelStoreAssumption, ModelStoreInit PROVE ModelStoreInv
  OBVIOUS
<1>1. EmptyDir \in Directory /\ \A f \in FileNames : EmptyDir[f] = NoContent
  <2>1. NoContent \in Seq(Sources)
    BY DEF NoContent
  <2> QED
    BY <2>1 DEF EmptyDir, Directory
<1> HIDE DEF EmptyDir
<1>2. job.pc = "idle"
  BY DEF ModelStoreInit, NoJob
<1>3. ModelStoreTypeOK
  BY <1>1 DEF ModelStoreInit, ModelStoreTypeOK
<1>4. CacheIsPartial
  BY <1>1, NothingIsPartial DEF ModelStoreInit, CacheIsPartial
<1>5. NothingHalf
  BY <1>1, NamesTyped DEF ModelStoreInit, NothingHalf
<1>6. JobFits /\ DetectedInPlace /\ RegisteredInPlace /\ DeletesUnregistered
  BY <1>2 DEF ModelStoreInit, JobFits, DetectedInPlace, RegisteredInPlace, DeletesUnregistered
<1> QED
  BY <1>3, <1>4, <1>5, <1>6 DEF ModelStoreInv

(* What a step leaves alone. *)
StoreStands ==
    /\ registered' \subseteq registered
    /\ modelDir' \in [ModelNames \X Versions -> Directory]
    /\ NothingHalf'
    /\ \A e \in registered' : OnlySource(e.source) => InPlace(e.source, e.version)'

LEMMA DirKept ==
  ASSUME ModelStoreInv, UNCHANGED modelDir, registered' \subseteq registered
  PROVE  StoreStands
BY DEF ModelStoreInv, ModelStoreTypeOK, StoreStands, NothingHalf, RegisteredInPlace, InPlace

\* A whole file is put into a directory of its source.
LEMMA FileStored ==
  ASSUME ModelStoreAssumption, ModelStoreInv, NEW s \in Sources, NEW v \in Versions,
         NEW f \in FilesOf(s), NEW content \in Seq(Sources),
         OnlySource(s) => content = Whole(s),
         modelDir' = [modelDir EXCEPT ![<<NameOf[s], v>>][f] = content],
         UNCHANGED registered
  PROVE  StoreStands
<1> DEFINE d == <<NameOf[s], v>>
<1>1. modelDir \in [ModelNames \X Versions -> Directory] /\ d \in ModelNames \X Versions
      /\ f \in FileNames
  BY NamesTyped DEF ModelStoreInv, ModelStoreTypeOK
<1>2. modelDir[d] \in Directory
  BY <1>1
<1> HIDE DEF d
<1>3. modelDir' = [modelDir EXCEPT ![d] = [modelDir[d] EXCEPT ![f] = content]]
  BY <1>1 DEF d
<1>4. [modelDir[d] EXCEPT ![f] = content] \in Directory
  BY <1>1, <1>2 DEF Directory
<1>5. /\ modelDir' \in [ModelNames \X Versions -> Directory]
      /\ modelDir'[d] = [modelDir[d] EXCEPT ![f] = content]
      /\ \A x \in ModelNames \X Versions : x # d => modelDir'[x] = modelDir[x]
  BY <1>1, <1>3, <1>4
<1>6. /\ modelDir'[d][f] = content
      /\ \A g \in FileNames : g # f => modelDir'[d][g] = modelDir[d][g]
  BY <1>1, <1>2, <1>5 DEF Directory
<1>7. \A t \in Sources, w \in Versions, g \in FileNames :
         \/ modelDir'[<<NameOf[t], w>>][g] = modelDir[<<NameOf[t], w>>][g]
         \/ NameOf[t] = NameOf[s] /\ g = f /\ modelDir'[<<NameOf[t], w>>][g] = content
  <2>1. SUFFICES ASSUME NEW t \in Sources, NEW w \in Versions, NEW g \in FileNames
                 PROVE  \/ modelDir'[<<NameOf[t], w>>][g] = modelDir[<<NameOf[t], w>>][g]
                        \/ NameOf[t] = NameOf[s] /\ g = f
                           /\ modelDir'[<<NameOf[t], w>>][g] = content
    OBVIOUS
  <2>2. <<NameOf[t], w>> \in ModelNames \X Versions
    BY NamesTyped
  <2>3. CASE <<NameOf[t], w>> = d
    <3>1. NameOf[t] = NameOf[s]
      BY <2>3 DEF d
    <3> QED
      BY <1>6, <2>3, <3>1
  <2>4. CASE <<NameOf[t], w>> # d
    BY <1>5, <2>2, <2>4
  <2> QED
    BY <2>3, <2>4
<1>8. ASSUME NEW t \in Sources, OnlySource(t), NameOf[t] = NameOf[s]
      PROVE  t = s /\ content = Whole(t)
  <2>1. t = s
    BY <1>8 DEF OnlySource
  <2> QED
    BY <1>8, <2>1
<1>9. NothingHalf'
  <2>1. SUFFICES ASSUME NEW t \in Sources, OnlySource(t), NEW w \in Versions, NEW g \in FileNames
                 PROVE  \/ modelDir'[<<NameOf[t], w>>][g] = NoContent
                        \/ g \in FilesOf(t) /\ modelDir'[<<NameOf[t], w>>][g] = Whole(t)
    BY DEF NothingHalf
  <2>2. CASE modelDir'[<<NameOf[t], w>>][g] = modelDir[<<NameOf[t], w>>][g]
    BY <2>1, <2>2 DEF ModelStoreInv, NothingHalf
  <2>3. CASE NameOf[t] = NameOf[s] /\ g = f /\ modelDir'[<<NameOf[t], w>>][g] = content
    BY <1>8, <2>1, <2>3
  <2> QED
    BY <1>7, <2>2, <2>3
<1>10. \A e \in registered' : OnlySource(e.source) => InPlace(e.source, e.version)'
  <2>1. SUFFICES ASSUME NEW e \in registered, OnlySource(e.source), NEW g \in FilesOf(e.source)
                 PROVE  modelDir'[<<NameOf[e.source], e.version>>][g] = Whole(e.source)
    BY DEF InPlace
  <2>2. e.source \in Sources /\ e.version \in Versions /\ g \in FileNames
    BY NamesTyped DEF ModelStoreInv, ModelStoreTypeOK, Entries
  <2>3. modelDir[<<NameOf[e.source], e.version>>][g] = Whole(e.source)
    BY <2>1 DEF ModelStoreInv, RegisteredInPlace, InPlace
  <2> QED
    BY <1>7, <1>8, <2>1, <2>2, <2>3
<1> QED
  BY <1>5, <1>9, <1>10 DEF StoreStands

\* What the cache has for the job is written anew.
LEMMA CacheStored ==
  ASSUME ModelStoreInv, job.name \in ModelNames, job.source \in Urls,
         NEW content, IsPartial(job.name, content), StoreCached(content)
  PROVE  /\ downloads' \in [ModelNames -> Directory] /\ CacheIsPartial'
         /\ downloads'[job.name][FileOf[job.source]] = content
<1> DEFINE n == job.name
           g == FileOf[job.source]
<1>1. downloads \in [ModelNames -> Directory] /\ n \in ModelNames /\ g \in FileNames
  BY NamesTyped DEF ModelStoreInv, ModelStoreTypeOK
<1>2. downloads[n] \in Directory /\ content \in Seq(Sources)
  BY <1>1, PartialTyped
<1> HIDE DEF n, g
<1>3. downloads' = [downloads EXCEPT ![n] = [downloads[n] EXCEPT ![g] = content]]
  BY <1>1 DEF StoreCached, n, g
<1>4. [downloads[n] EXCEPT ![g] = content] \in Directory
  BY <1>1, <1>2 DEF Directory
<1>5. /\ downloads' \in [ModelNames -> Directory]
      /\ downloads'[n] = [downloads[n] EXCEPT ![g] = content]
      /\ \A m \in ModelNames : m # n => downloads'[m] = downloads[m]
  BY <1>1, <1>3, <1>4
<1>6. /\ downloads'[n][g] = content
      /\ \A f \in FileNames : f # g => downloads'[n][f] = downloads[n][f]
  BY <1>1, <1>2, <1>5 DEF Directory
<1>7. IsPartial(n, content)
  BY DEF n
<1>8. CacheIsPartial'
  <2>1. SUFFICES ASSUME NEW m \in ModelNames, NEW f \in FileNames
                 PROVE  IsPartial(m, downloads'[m][f])
    BY DEF CacheIsPartial, IsPartial
  <2>2. IsPartial(m, downloads[m][f])
    BY DEF ModelStoreInv, CacheIsPartial
  <2> QED
    BY <1>1, <1>5, <1>6, <1>7, <2>2
<1> QED
  BY <1>5, <1>6, <1>8 DEF n, g

(* A job that installs, and what it knows. *)
Installing(j) == j \in InstallJobs \/ j \in TransferJobs

LEMMA InstallFacts ==
  ASSUME ModelStoreInv,
         job.pc \in {"request", "transfer", "move", "detect", "hub"}
  PROVE  /\ Installing(job)
         /\ job.source \in Sources /\ job.name \in ModelNames /\ job.version \in Versions
         /\ job.name = NameOf[job.source]
         /\ job.pc \in {"request", "transfer", "move"} => job.source \in Urls
<1>1. NoJob.pc = "idle" /\ job \in {NoJob} \cup InstallJobs \cup TransferJobs \cup RemovalJobs
  BY DEF NoJob, ModelStoreInv, ModelStoreTypeOK
<1>2. Installing(job)
  BY <1>1 DEF RemovalJobs, Installing
<1>3. job.source \in Sources /\ job.name \in ModelNames /\ job.version \in Versions
  BY <1>2 DEF Installing, InstallJobs, TransferJobs
<1> QED
  BY <1>2, <1>3 DEF ModelStoreInv, JobFits

\* The job goes on to a point at which all files of its model are there.
LEMMA JobGoesOn ==
  ASSUME ModelStoreInv, NEW pc \in {"move", "detect"}, GoTo(pc), Installing(job)
  PROVE  /\ Installing(job') /\ job'.pc = pc /\ job'.source = job.source
         /\ job'.name = job.name /\ job'.version = job.version
BY DEF Installing, InstallJobs, TransferJobs, GoTo

\* A step after which no job is running.
LEMMA JobStops ==
  ASSUME StopJob
  PROVE  job' = NoJob /\ JobFits' /\ DetectedInPlace' /\ DeletesUnregistered'
<1>1. job' = NoJob /\ NoJob.pc = "idle"
  BY DEF StopJob, NoJob
<1> QED
  BY <1>1 DEF JobFits, DetectedInPlace, DeletesUnregistered

LEMMA InvFromParts ==
  ASSUME ModelStoreInv, StoreStands,
         downloads' \in [ModelNames -> Directory], CacheIsPartial',
         job' \in {NoJob} \cup InstallJobs \cup TransferJobs \cup RemovalJobs,
         JobFits', DetectedInPlace', DeletesUnregistered'
  PROVE  ModelStoreInv'
BY DEF ModelStoreInv, ModelStoreTypeOK, StoreStands, RegisteredInPlace

LEMMA CacheKept ==
  ASSUME ModelStoreInv, UNCHANGED downloads
  PROVE  downloads' \in [ModelNames -> Directory] /\ CacheIsPartial'
BY DEF ModelStoreInv, ModelStoreTypeOK, CacheIsPartial

LEMMA BeginStep ==
  ASSUME ModelStoreInv,
         (\E s \in Urls : InstallFromUrl(s)) \/ (\E s \in Repos : InstallFromHf(s))
  PROVE  ModelStoreInv'
<1>1. UNCHANGED <<registered, modelDir, downloads>>
  BY DEF InstallFromUrl, InstallFromHf
<1>2. PICK s \in Sources, pc \in {"request", "hub"} :
         /\ BeginInstall(s, pc)
         /\ pc = "request" => s \in Urls
         /\ pc = "hub" => s \in Repos
  BY DEF InstallFromUrl, InstallFromHf, Sources
<1>3. /\ job' = [pc |-> pc, source |-> s, name |-> NameOf[s], version |-> NextVersion(NameOf[s])]
      /\ NextVersion(NameOf[s]) \in Versions
  BY <1>2 DEF BeginInstall
<1>4. NameOf[s] \in ModelNames
  BY NamesTyped
<1>5. job' \in InstallJobs
  BY <1>3, <1>4 DEF InstallJobs
<1>6. JobFits' /\ DetectedInPlace' /\ DeletesUnregistered'
  BY <1>2, <1>3 DEF JobFits, DetectedInPlace, DeletesUnregistered
<1> QED
  BY <1>1, <1>5, <1>6, DirKept, CacheKept, InvFromParts

LEMMA RequestStep ==
  ASSUME ModelStoreAssumption, ModelStoreInv, RequestUrl
  PROVE  ModelStoreInv'
<1>1. job.pc = "request" /\ UNCHANGED <<registered, modelDir>>
  BY DEF RequestUrl
<1>2. /\ Installing(job) /\ job.source \in Sources /\ job.name \in ModelNames
      /\ job.version \in Versions /\ job.name = NameOf[job.source] /\ job.source \in Urls
  BY <1>1, InstallFacts
<1>3. IsPartial(job.name, Cached) /\ Len(Cached) \in Nat /\ Len(Cached) <= Size /\ Size \in Nat
  <2>1. IsPartial(job.name, Cached)
    BY <1>2, NamesTyped DEF ModelStoreInv, CacheIsPartial, Cached
  <2> QED
    BY <2>1, PartialTyped DEF IsPartial, ModelStoreAssumption
<1>4. StoreStands
  BY <1>1, DirKept
<1>5. CASE Len(Cached) >= Size /\ GoTo("move") /\ UNCHANGED downloads
  <2>1. /\ Installing(job') /\ job'.pc = "move" /\ job'.source = job.source
        /\ job'.name = job.name
    BY <1>2, <1>5, JobGoesOn
  <2>2. Cached' = Cached /\ Len(Cached) = Size
    BY <1>3, <1>5, <2>1 DEF Cached
  <2>3. JobFits' /\ DetectedInPlace' /\ DeletesUnregistered'
    BY <1>2, <2>1, <2>2 DEF JobFits, DetectedInPlace, DeletesUnregistered
  <2> QED
    BY <1>4, <1>5, <2>1, <2>3, CacheKept, InvFromParts DEF Installing
<1>6. ASSUME NEW partial \in BOOLEAN,
             Len(Cached) < Size /\ (partial => Cached # NoContent),
             StoreCached(TransferBase(Cached, partial)),
             job' = [pc |-> "transfer", source |-> job.source, name |-> job.name,
                     version |-> job.version,
                     left |-> IF partial THEN Size - Len(Cached) ELSE Size]
      PROVE  ModelStoreInv'
  <2> DEFINE base == TransferBase(Cached, partial)
             left == IF partial THEN Size - Len(Cached) ELSE Size
  <2>1. IsPartial(job.name, base) /\ left \in Nat /\ left + Len(base) = Size
    <3>1. CASE partial
      BY <1>3, <1>6, <3>1 DEF TransferBase
    <3>2. CASE ~ partial
      BY <1>3, <3>2, NothingIsPartial DEF TransferBase
    <3> QED
      BY <3>1, <3>2
  <2>2. job' = [pc |-> "transfer", source |-> job.source, name |-> job.name,
                version |-> job.version, left |-> left]
    BY <1>6
  <2> HIDE DEF base, left
  <2>3. /\ downloads' \in [ModelNames -> Directory] /\ CacheIsPartial'
        /\ downloads'[job.name][FileOf[job.source]] = base
    BY <1>2, <1>6, <2>1, CacheStored DEF base
  <2>4. /\ job' \in TransferJobs /\ job'.pc = "transfer" /\ job'.source = job.source
        /\ job'.name = job.name /\ job'.left = left
    BY <1>2, <2>1, <2>2 DEF TransferJobs
  <2>5. Cached' = base
    BY <2>3, <2>4 DEF Cached
  <2>6. JobFits' /\ DetectedInPlace' /\ DeletesUnregistered'
    BY <1>2, <2>1, <2>4, <2>5 DEF JobFits, DetectedInPlace, DeletesUnregistered
  <2> QED
    BY <1>4, <2>3, <2>4, <2>6, InvFromParts
<1> QED
  BY <1>5, <1>6 DEF RequestUrl

LEMMA ChunkStep ==
  ASSUME ModelStoreAssumption, ModelStoreInv, TransferChunk
  PROVE  ModelStoreInv'
<1>1. /\ job.pc = "transfer" /\ job.left > 0 /\ UNCHANGED <<registered, modelDir>>
      /\ job' = [job EXCEPT !.left = job.left - 1]
  BY DEF TransferChunk
<1>2. /\ Installing(job) /\ job.source \in Sources /\ job.name \in ModelNames
      /\ job.name = NameOf[job.source] /\ job.source \in Urls
  BY <1>1, InstallFacts
<1>3. job \in TransferJobs /\ job.left \in Nat
  BY <1>1, <1>2 DEF Installing, InstallJobs, TransferJobs
<1>4. IsPartial(job.name, Cached)
  BY <1>2, NamesTyped DEF ModelStoreInv, CacheIsPartial, Cached
<1>5. job.left + Len(Cached) = Size /\ Len(Cached) \in Nat
  BY <1>1, <1>4, PartialTyped DEF ModelStoreInv, JobFits
<1> DEFINE c == Append(Cached, job.source)
<1>6. IsPartial(job.name, c) /\ Len(c) = Len(Cached) + 1
  <2>1. job.source \in SourcesOf(job.name)
    BY <1>2 DEF SourcesOf
  <2>2. Cached \in Seq(SourcesOf(job.name))
    BY <1>4 DEF IsPartial
  <2>3. c \in Seq(SourcesOf(job.name)) /\ Len(c) = Len(Cached) + 1
    BY <2>1, <2>2
  <2> QED
    BY <1>1, <1>3, <1>5, <2>3 DEF IsPartial
<1> HIDE DEF c
<1>7. /\ downloads' \in [ModelNames -> Directory] /\ CacheIsPartial'
      /\ downloads'[job.name][FileOf[job.source]] = c
  BY <1>2, <1>6, CacheStored DEF TransferChunk, c
<1>8. /\ job' \in TransferJobs /\ job'.pc = "transfer" /\ job'.source = job.source
      /\ job'.name = job.name /\ job'.left = job.left - 1
  <2>1. job.left - 1 \in Nat
    BY <1>1, <1>3
  <2> QED
    BY <1>1, <1>3, <2>1 DEF TransferJobs
<1>9. Cached' = c
  BY <1>7, <1>8 DEF Cached
<1>10. job'.left + Len(Cached') = Size
  BY <1>3, <1>5, <1>6, <1>8, <1>9
<1>11. JobFits' /\ DetectedInPlace' /\ DeletesUnregistered'
  BY <1>2, <1>8, <1>10 DEF JobFits, DetectedInPlace, DeletesUnregistered
<1> QED
  BY <1>1, <1>7, <1>8, <1>11, DirKept, InvFromParts

LEMMA TransferDoneStep ==
  ASSUME ModelStoreInv, TransferDone
  PROVE  ModelStoreInv'
<1>1. job.pc = "transfer" /\ job.left = 0 /\ GoTo("move")
      /\ UNCHANGED <<registered, modelDir, downloads>>
  BY DEF TransferDone
<1>2. /\ Installing(job) /\ job.source \in Sources /\ job.name \in ModelNames
      /\ job.name = NameOf[job.source] /\ job.source \in Urls
  BY <1>1, InstallFacts
<1>3. IsPartial(job.name, Cached)
  BY <1>2, NamesTyped DEF ModelStoreInv, CacheIsPartial, Cached
<1>4. Len(Cached) = Size
  BY <1>1, <1>3, PartialTyped DEF ModelStoreInv, JobFits
<1>5. Installing(job') /\ job'.pc = "move" /\ job'.source = job.source /\ job'.name = job.name
  BY <1>1, <1>2, JobGoesOn
<1>6. Cached' = Cached
  BY <1>1, <1>5 DEF Cached
<1>7. JobFits' /\ DetectedInPlace' /\ DeletesUnregistered'
  BY <1>2, <1>4, <1>5, <1>6 DEF JobFits, DetectedInPlace, DeletesUnregistered
<1> QED
  BY <1>1, <1>5, <1>7, DirKept, CacheKept, InvFromParts DEF Installing

\* A failed download empties its file of the cache; a failed one from the
\* hub and an interruption leave everything as it is.
LEMMA StopStep ==
  ASSUME ModelStoreAssumption, ModelStoreInv, DownloadFails \/ HubFails \/ Interrupted
  PROVE  ModelStoreInv'
<1>1. StopJob /\ UNCHANGED <<registered, modelDir>>
  BY DEF DownloadFails, HubFails, Interrupted
<1>2. downloads' \in [ModelNames -> Directory] /\ CacheIsPartial'
  <2>1. CASE DownloadFails
    <3>1. job.pc \in {"request", "transfer"} /\ StoreCached(NoContent)
      BY <2>1 DEF DownloadFails
    <3>2. job.name \in ModelNames /\ job.source \in Urls
      BY <3>1, InstallFacts
    <3> QED
      BY <3>1, <3>2, NothingIsPartial, CacheStored
  <2>2. CASE HubFails \/ Interrupted
    BY <2>2, CacheKept DEF HubFails, Interrupted
  <2> QED
    BY <2>1, <2>2
<1> QED
  BY <1>1, <1>2, DirKept, JobStops, InvFromParts

LEMMA MoveStep ==
  ASSUME ModelStoreAssumption, ModelStoreInv, MoveToModelDir
  PROVE  ModelStoreInv'
<1>1. /\ job.pc = "move" /\ GoTo("detect") /\ StoreCached(NoContent) /\ registered' = registered
      /\ modelDir' = [modelDir EXCEPT ![Dir][FileOf[job.source]] = Cached]
  BY DEF MoveToModelDir
<1>2. /\ Installing(job) /\ job.source \in Sources /\ job.name \in ModelNames
      /\ job.version \in Versions /\ job.name = NameOf[job.source] /\ job.source \in Urls
  BY <1>1, InstallFacts
<1>3. IsPartial(job.name, Cached) /\ Cached \in Seq(Sources)
  BY <1>2, NamesTyped, PartialTyped DEF ModelStoreInv, CacheIsPartial, Cached
<1>4. OnlySource(job.source) => Cached = Whole(job.source)
  <2>1. Len(Cached) = Size
    BY <1>1 DEF ModelStoreInv, JobFits
  <2> QED
    BY <1>2, <1>3, <2>1, LongIsWhole
<1>5. FilesOf(job.source) = {FileOf[job.source]}
  BY <1>2, NamesTyped
<1>6. /\ StoreStands
      /\ modelDir'[<<NameOf[job.source], job.version>>][FileOf[job.source]] = Cached
  <2>1. modelDir' = [modelDir EXCEPT ![<<NameOf[job.source], job.version>>][FileOf[job.source]]
                        = Cached]
    BY <1>1, <1>2 DEF Dir
  <2> QED
    <3>1. FileOf[job.source] \in FilesOf(job.source)
      BY <1>5
    <3>2. StoreStands
      BY <1>1, <1>2, <1>3, <1>4, <3>1, <2>1, FileStored
    <3>3. /\ modelDir \in [ModelNames \X Versions -> Directory]
          /\ <<NameOf[job.source], job.version>> \in ModelNames \X Versions
          /\ FileOf[job.source] \in FileNames
      BY <1>2, NamesTyped DEF ModelStoreInv, ModelStoreTypeOK
    <3>4. modelDir'[<<NameOf[job.source], job.version>>][FileOf[job.source]] = Cached
      BY <2>1, <3>3 DEF Directory
    <3> QED
      BY <3>2, <3>4
<1>7. /\ downloads' \in [ModelNames -> Directory] /\ CacheIsPartial'
  BY <1>1, <1>2, NothingIsPartial, CacheStored
<1>8. /\ Installing(job') /\ job'.pc = "detect" /\ job'.source = job.source
      /\ job'.name = job.name /\ job'.version = job.version
  BY <1>1, <1>2, JobGoesOn
<1>9. JobFits' /\ DeletesUnregistered'
  BY <1>2, <1>8 DEF JobFits, DeletesUnregistered
<1>10. DetectedInPlace'
  <2>1. SUFFICES ASSUME OnlySource(job.source)
                 PROVE  \A f \in FilesOf(job.source) :
                           modelDir'[<<NameOf[job.source], job.version>>][f] = Whole(job.source)
    BY <1>8 DEF DetectedInPlace, InPlace
  <2> QED
    BY <1>4, <1>5, <1>6, <2>1
<1> QED
  BY <1>6, <1>7, <1>8, <1>9, <1>10, InvFromParts DEF Installing

LEMMA HubFileStep ==
  ASSUME ModelStoreAssumption, ModelStoreInv, HubDownloadsFile
  PROVE  ModelStoreInv'
<1>1. job.pc = "hub" /\ UNCHANGED <<registered, downloads, job>>
  BY DEF HubDownloadsFile
<1>2. /\ Installing(job) /\ job.source \in Sources /\ job.name \in ModelNames
      /\ job.version \in Versions /\ job.name = NameOf[job.source]
  BY <1>1, InstallFacts
<1>3. FilesOf(job.source) = RepoFiles
  BY <1>1 DEF ModelStoreInv, JobFits, FilesOf, ModelStoreAssumption
<1>4. PICK f \in RepoFiles : modelDir' = [modelDir EXCEPT ![Dir][f] = Whole(job.source)]
  BY DEF HubDownloadsFile
<1>5. Whole(job.source) \in Seq(Sources)
  BY <1>2, WholeTyped
<1>6. StoreStands
  <2>1. modelDir' = [modelDir EXCEPT ![<<NameOf[job.source], job.version>>][f]
                        = Whole(job.source)]
    BY <1>2, <1>4 DEF Dir
  <2> QED
    BY <1>1, <1>2, <1>3, <1>5, <2>1, FileStored
<1>7. JobFits' /\ DetectedInPlace' /\ DeletesUnregistered'
  BY <1>1 DEF ModelStoreInv, JobFits, DetectedInPlace, DeletesUnregistered, Cached
<1> QED
  BY <1>1, <1>2, <1>6, <1>7, CacheKept, InvFromParts DEF Installing

LEMMA HubDoneStep ==
  ASSUME ModelStoreAssumption, ModelStoreInv, HubDone
  PROVE  ModelStoreInv'
<1>1. /\ job.pc = "hub" /\ ~ HubMisses /\ GoTo("detect")
      /\ UNCHANGED <<registered, modelDir, downloads>>
  BY DEF HubDone
<1>2. /\ Installing(job) /\ job.source \in Sources /\ job.name = NameOf[job.source]
  BY <1>1, InstallFacts
<1>3. FilesOf(job.source) = RepoFiles
  BY <1>1 DEF ModelStoreInv, JobFits, FilesOf, ModelStoreAssumption
<1>4. \A f \in RepoFiles : modelDir[<<NameOf[job.source], job.version>>][f] = Whole(job.source)
  BY <1>1, <1>2 DEF HubMisses, Dir
<1>5. /\ Installing(job') /\ job'.pc = "detect" /\ job'.source = job.source
      /\ job'.name = job.name /\ job'.version = job.version
  BY <1>1, <1>2, JobGoesOn
<1>6. JobFits' /\ DeletesUnregistered' /\ DetectedInPlace'
  BY <1>1, <1>2, <1>3, <1>4, <1>5 DEF JobFits, DeletesUnregistered, DetectedInPlace, InPlace
<1> QED
  BY <1>1, <1>5, <1>6, DirKept, CacheKept, InvFromParts DEF Installing

LEMMA RegisterStep ==
  ASSUME ModelStoreInv, DetectAndRegister
  PROVE  ModelStoreInv'
<1>1. job.pc = "detect" /\ StopJob /\ UNCHANGED <<modelDir, downloads>>
  BY DEF DetectAndRegister
<1>2. /\ job.source \in Sources /\ job.name \in ModelNames /\ job.version \in Versions
      /\ job.name = NameOf[job.source]
  BY <1>1, InstallFacts
<1>3. CASE registered' = registered
  BY <1>1, <1>3, DirKept, CacheKept, JobStops, InvFromParts
<1>4. CASE registered' = registered \union
             {[name |-> job.name, version |-> job.version, source |-> job.source]}
  <2> DEFINE e == [name |-> job.name, version |-> job.version, source |-> job.source]
  <2>1. e \in Entries /\ e.name = NameOf[e.source]
    BY <1>2 DEF Entries
  <2>2. OnlySource(e.source) => InPlace(e.source, e.version)
    BY <1>1 DEF ModelStoreInv, DetectedInPlace
  <2> HIDE DEF e
  <2>3. registered' = registered \union {e}
    BY <1>4 DEF e
  <2>4. RegisteredInPlace'
    <3>1. SUFFICES ASSUME NEW x \in registered \union {e}
                   PROVE  /\ x.name = NameOf[x.source]
                          /\ OnlySource(x.source) => InPlace(x.source, x.version)
      BY <1>1, <2>3 DEF RegisteredInPlace, InPlace
    <3> QED
      BY <2>1, <2>2 DEF ModelStoreInv, RegisteredInPlace
  <2>5. NothingHalf'
    BY <1>1 DEF ModelStoreInv, NothingHalf
  <2>6. registered' \subseteq Entries
    BY <2>1, <2>3 DEF ModelStoreInv, ModelStoreTypeOK
  <2> QED
    BY <1>1, <2>4, <2>5, <2>6, CacheKept, JobStops DEF ModelStoreInv, ModelStoreTypeOK
<1> QED
  BY <1>3, <1>4 DEF DetectAndRegister

LEMMA RemoveStep ==
  ASSUME ModelStoreInv, RemoveModel
  PROVE  ModelStoreInv'
<1>1. PICK name \in ModelNames, versions \in SUBSET Versions : Unregister(name, versions)
  BY DEF RemoveModel
<1>2. /\ UNCHANGED <<modelDir, downloads>>
      /\ registered' = {e \in registered : ~(e.name = name /\ e.version \in versions)}
      /\ job' = [pc |-> "rmtree", name |-> name, versions |-> versions]
  BY <1>1 DEF Unregister
<1>3. job' \in RemovalJobs
  BY <1>2 DEF RemovalJobs
<1>4. JobFits' /\ DetectedInPlace' /\ DeletesUnregistered'
  BY <1>2 DEF JobFits, DetectedInPlace, DeletesUnregistered
<1> QED
  BY <1>2, <1>3, <1>4, DirKept, CacheKept, InvFromParts

LEMMA DeleteStep ==
  ASSUME ModelStoreInv, DeleteFiles
  PROVE  ModelStoreInv'
<1>1. /\ job.pc = "rmtree" /\ StopJob /\ UNCHANGED <<registered, downloads>>
      /\ modelDir' = [d \in ModelNames \X Versions |->
                        IF d[1] = job.name /\ d[2] \in job.versions THEN EmptyDir ELSE modelDir[d]]
  BY DEF DeleteFiles
<1>2. EmptyDir \in Directory /\ \A f \in FileNames : EmptyDir[f] = NoContent
  <2>1. NoContent \in Seq(Sources)
    BY DEF NoContent
  <2> QED
    BY <2>1 DEF EmptyDir, Directory
<1>3. modelDir' \in [ModelNames \X Versions -> Directory]
  BY <1>1, <1>2 DEF ModelStoreInv, ModelStoreTypeOK
<1>4. \A s \in Sources, v \in Versions :
         modelDir'[<<NameOf[s], v>>] =
             IF NameOf[s] = job.name /\ v \in job.versions THEN EmptyDir
             ELSE modelDir[<<NameOf[s], v>>]
  BY <1>1, NamesTyped
<1>5. NothingHalf'
  BY <1>2, <1>4 DEF ModelStoreInv, NothingHalf
<1>6. \A e \in registered : OnlySource(e.source) => InPlace(e.source, e.version)'
  <2>1. SUFFICES ASSUME NEW e \in registered, OnlySource(e.source)
                 PROVE  InPlace(e.source, e.version)'
    OBVIOUS
  <2>2. e.source \in Sources /\ e.version \in Versions
    BY DEF ModelStoreInv, ModelStoreTypeOK, Entries
  <2>3. InPlace(e.source, e.version) /\ e.name = NameOf[e.source]
    BY <2>1 DEF ModelStoreInv, RegisteredInPlace
  <2>4. ~(NameOf[e.source] = job.name /\ e.version \in job.versions)
    BY <1>1, <2>3 DEF ModelStoreInv, DeletesUnregistered
  <2> QED
    BY <1>4, <2>2, <2>3, <2>4 DEF InPlace
<1>7. StoreStands
  BY <1>1, <1>3, <1>5, <1>6 DEF StoreStands
<1> QED
  BY <1>1, <1>7, CacheKept, JobStops, InvFromParts

LEMMA ModelStoreInvStep ==
  ASSUME ModelStoreAssumption, ModelStoreInv, [ModelStoreNext]_modelStoreVars
  PROVE  ModelStoreInv'
<1>1. CASE UNCHANGED modelStoreVars
  BY <1>1 DEF modelStoreVars, ModelStoreInv, ModelStoreTypeOK, CacheIsPartial, JobFits, Cached,
     NothingHalf, DetectedInPlace, RegisteredInPlace, DeletesUnregistered, InPlace
<1> QED
  BY <1>1, BeginStep, RequestStep, ChunkStep, TransferDoneStep, StopStep, MoveStep, HubFileStep,
     HubDoneStep, RegisterStep, RemoveStep, DeleteStep DEF ModelStoreNext

(* A registered model whose name has one source holds exactly the files of *)
(* that source, for files of every size, any number of sources, versions   *)
(* and removals, with downloads that fail, are interrupted and are resumed *)
(* in any order (models/installer.py, models/registry.py).                 *)
THEOREM RegisteredWhole == ModelStoreSpec => []RegisteredIsWhole
<1>0. ModelStoreAssumption
  BY ModelStoreAssumption
<1>1. ModelStoreInit => ModelStoreInv
  BY <1>0, ModelStoreInvInit
<1>2. ModelStoreInv /\ [ModelStoreNext]_modelStoreVars => ModelStoreInv'
  BY <1>0, ModelStoreInvStep
<1>3. ModelStoreInv => RegisteredIsWhole
  <2>1. SUFFICES ASSUME ModelStoreInv, NEW e \in registered, OnlySource(e.source)
                 PROVE  modelDir[<<e.name, e.version>>] = DirOf(e.source)
    BY DEF RegisteredIsWhole
  <2>2. /\ e.source \in Sources /\ e.version \in Versions /\ e.name = NameOf[e.source]
        /\ InPlace(e.source, e.version)
    BY <2>1 DEF ModelStoreInv, ModelStoreTypeOK, Entries, RegisteredInPlace
  <2> DEFINE d == modelDir[<<e.name, e.version>>]
  <2>3. d \in [FileNames -> Seq(Sources)]
    BY <2>1, <2>2, NamesTyped DEF ModelStoreInv, ModelStoreTypeOK, Directory
  <2>4. \A f \in FileNames :
           d[f] = IF f \in FilesOf(e.source) THEN Whole(e.source) ELSE NoContent
    BY <2>1, <2>2 DEF ModelStoreInv, NothingHalf, InPlace
  <2> HIDE DEF d
  <2>5. d = [f \in FileNames |->
                IF f \in FilesOf(e.source) THEN Whole(e.source) ELSE NoContent]
    BY <2>3, <2>4
  <2> QED
    BY <2>5 DEF d, DirOf
<1> QED
  BY <1>1, <1>2, <1>3, PTL DEF ModelStoreSpec

-----------------------------------------------------------------------------
(* RemoteStream, for every number of calls, fragments and attempts: what   *)
(* the provider has accumulated of a call is what the server has sent of   *)
(* it, until the call is passed on as a whole.                             *)

WholeCall(i) == CallChunk(i, Fragments)
Reasons == {"stop", "error", "cancelled", ""}
AllChunks ==
    {Chunk(kind) : kind \in {"notification", "final_text", "error"}}
        \cup {WholeCall(i) : i \in CallIds}
        \cup {DoneChunk(reason) : reason \in Reasons}

\* What a sequence of chunks says.
Says(s, c) == \E k \in 1..Len(s) : s[k] = c
SaysOnce(s, c) == \A j, k \in 1..Len(s) : s[j] = c /\ s[k] = c => j = k
NoDone(s) == \A k \in 1..Len(s) : ~ IsDone(s[k])
DoneAtEnd(s) == \A k \in 1..Len(s) : IsDone(s[k]) => k = Len(s)
EndsDone(s) == Len(s) > 0 /\ IsDone(s[Len(s)])

LEMMA ChunksAre ==
  /\ \A kind : Chunk(kind).kind = kind
  /\ \A i : /\ WholeCall(i).kind = "tool_call" /\ WholeCall(i).call = i
            /\ WholeCall(i).parts = Fragments
  /\ \A reason : DoneChunk(reason).kind = "done" /\ DoneChunk(reason).reason = reason
BY DEF Chunk, WholeCall, CallChunk, DoneChunk

LEMMA ChunkKinds ==
  ASSUME NEW c \in AllChunks
  PROVE  /\ c.kind = "tool_call" => \E i \in CallIds : c = WholeCall(i)
         /\ IsDone(c) => \E reason \in Reasons : c = DoneChunk(reason)
<1>1. CASE \E kind \in {"notification", "final_text", "error"} : c = Chunk(kind)
  BY <1>1, ChunksAre DEF IsDone
<1>2. CASE \E i \in CallIds : c = WholeCall(i)
  BY <1>2, ChunksAre DEF IsDone
<1>3. CASE \E reason \in Reasons : c = DoneChunk(reason)
  BY <1>3, ChunksAre DEF IsDone
<1> QED
  BY <1>1, <1>2, <1>3 DEF AllChunks

LEMMA SomeChunks ==
  /\ Chunk("notification") \in AllChunks /\ Chunk("final_text") \in AllChunks
  /\ Chunk("error") \in AllChunks
  /\ DoneChunk("stop") \in AllChunks /\ DoneChunk("error") \in AllChunks
  /\ DoneChunk("cancelled") \in AllChunks /\ DoneChunk("") \in AllChunks
  /\ \A i \in CallIds : WholeCall(i) \in AllChunks
BY Zenon DEF AllChunks, Reasons

LEMMA ReasonsDiffer ==
  /\ DoneChunk("error") # DoneChunk("stop")
  /\ DoneChunk("cancelled") # DoneChunk("stop")
  /\ DoneChunk("") # DoneChunk("stop")
<1>1. "error" # "stop" /\ "cancelled" # "stop" /\ "" # "stop"
  BY Zenon
<1> QED
  BY <1>1, ChunksAre, Zenon

\* More chunks.
LEMMA MoreChunks ==
  ASSUME NEW s \in Seq(AllChunks), NEW new \in Seq(AllChunks)
  PROVE  /\ s \o new \in Seq(AllChunks)
         /\ \A c : Says(s \o new, c) <=> Says(s, c) \/ Says(new, c)
         /\ \A c : SaysOnce(s, c) /\ SaysOnce(new, c) /\ ~ (Says(s, c) /\ Says(new, c))
                      => SaysOnce(s \o new, c)
         /\ NoDone(s) /\ NoDone(new) => NoDone(s \o new)
         /\ NoDone(s) /\ DoneAtEnd(new) => DoneAtEnd(s \o new)
         /\ EndsDone(new) => EndsDone(s \o new)
<1> DEFINE all == s \o new
<1>1. /\ Len(s) \in Nat /\ Len(new) \in Nat /\ Len(all) = Len(s) + Len(new)
      /\ all \in Seq(AllChunks)
  OBVIOUS
<1>2. \A k \in 1..Len(s) : all[k] = s[k] /\ k \in 1..Len(all)
  OBVIOUS
<1>3. \A k \in 1..Len(new) : all[Len(s) + k] = new[k] /\ Len(s) + k \in 1..Len(all)
  OBVIOUS
<1>4. \A k \in 1..Len(all) : k \in 1..Len(s) \/ \E j \in 1..Len(new) : k = Len(s) + j
  <2> SUFFICES ASSUME NEW k \in 1..Len(all), ~ (k \in 1..Len(s))
               PROVE  \E j \in 1..Len(new) : k = Len(s) + j
    OBVIOUS
  <2>1. k - Len(s) \in 1..Len(new) /\ k = Len(s) + (k - Len(s))
    BY <1>1
  <2> QED
    BY <2>1
<1> HIDE DEF all
<1>5. \A c : Says(all, c) <=> Says(s, c) \/ Says(new, c)
  BY <1>2, <1>3, <1>4 DEF Says
<1>6. ASSUME NEW c, SaysOnce(s, c), SaysOnce(new, c), ~ (Says(s, c) /\ Says(new, c))
      PROVE  SaysOnce(all, c)
  <2> SUFFICES ASSUME NEW j \in 1..Len(all), NEW k \in 1..Len(all), all[j] = c, all[k] = c
               PROVE  j = k
    BY DEF SaysOnce
  <2>1. CASE j \in 1..Len(s) /\ k \in 1..Len(s)
    BY <1>2, <1>6, <2>1 DEF SaysOnce
  <2>2. CASE ~ (j \in 1..Len(s)) /\ ~ (k \in 1..Len(s))
    BY <1>3, <1>4, <1>6, <2>2 DEF SaysOnce
  <2>3. CASE j \in 1..Len(s) /\ ~ (k \in 1..Len(s))
    BY <1>2, <1>3, <1>4, <1>6, <2>3 DEF Says
  <2>4. CASE ~ (j \in 1..Len(s)) /\ k \in 1..Len(s)
    BY <1>2, <1>3, <1>4, <1>6, <2>4 DEF Says
  <2> QED
    BY <2>1, <2>2, <2>3, <2>4
<1>7. NoDone(s) /\ NoDone(new) => NoDone(all)
  BY <1>2, <1>3, <1>4 DEF NoDone
<1>8. ASSUME NoDone(s), DoneAtEnd(new)
      PROVE  DoneAtEnd(all)
  <2> SUFFICES ASSUME NEW k \in 1..Len(all), IsDone(all[k]) PROVE k = Len(all)
    BY DEF DoneAtEnd
  <2>1. ~ (k \in 1..Len(s))
    BY <1>2, <1>8 DEF NoDone
  <2>2. PICK j \in 1..Len(new) : k = Len(s) + j
    BY <1>4, <2>1
  <2>3. IsDone(new[j])
    BY <1>3, <2>2
  <2>4. j = Len(new)
    BY <1>8, <2>3 DEF DoneAtEnd
  <2> QED
    BY <1>1, <2>2, <2>4
<1>9. EndsDone(new) => EndsDone(all)
  <2> SUFFICES ASSUME EndsDone(new) PROVE EndsDone(all)
    OBVIOUS
  <2>1. Len(new) \in 1..Len(new) /\ Len(new) > 0
    BY <1>1 DEF EndsDone
  <2>2. all[Len(s) + Len(new)] = new[Len(new)]
    BY <1>3, <2>1
  <2> QED
    BY <1>1, <2>1, <2>2 DEF EndsDone
<1> QED
  BY <1>1, <1>5, <1>6, <1>7, <1>8, <1>9 DEF all

LEMMA OneChunk ==
  ASSUME NEW c \in AllChunks
  PROVE  /\ <<c>> \in Seq(AllChunks)
         /\ \A d : (Says(<<c>>, d) <=> d = c) /\ SaysOnce(<<c>>, d)
         /\ DoneAtEnd(<<c>>)
         /\ ~ IsDone(c) => NoDone(<<c>>)
         /\ IsDone(c) => EndsDone(<<c>>)
<1> DEFINE s == <<c>>
<1>1. s \in Seq(AllChunks) /\ Len(s) = 1 /\ s[1] = c
  OBVIOUS
<1> HIDE DEF s
<1>2. \A d : (Says(s, d) <=> d = c) /\ SaysOnce(s, d)
  BY <1>1 DEF Says, SaysOnce
<1>3. DoneAtEnd(s) /\ (~ IsDone(c) => NoDone(s)) /\ (IsDone(c) => EndsDone(s))
  BY <1>1 DEF DoneAtEnd, NoDone, EndsDone
<1> QED
  BY <1>1, <1>2, <1>3 DEF s

LEMMA ClosingChunks ==
  ASSUME NEW c \in AllChunks, NEW d \in AllChunks, ~ IsDone(c), IsDone(d)
  PROVE  /\ <<c, d>> \in Seq(AllChunks)
         /\ \A e : (Says(<<c, d>>, e) <=> e = c \/ e = d) /\ SaysOnce(<<c, d>>, e)
         /\ DoneAtEnd(<<c, d>>) /\ EndsDone(<<c, d>>)
<1> DEFINE s == <<c, d>>
<1>1. s \in Seq(AllChunks) /\ Len(s) = 2 /\ s[1] = c /\ s[2] = d
  OBVIOUS
<1> HIDE DEF s
<1>2. \A k \in 1..Len(s) : k = 1 \/ k = 2
  BY <1>1
<1>3. c # d
  OBVIOUS
<1>4. \A e : (Says(s, e) <=> e = c \/ e = d) /\ SaysOnce(s, e)
  BY <1>1, <1>2, <1>3 DEF Says, SaysOnce
<1>5. DoneAtEnd(s) /\ EndsDone(s)
  BY <1>1, <1>2 DEF DoneAtEnd, EndsDone
<1> QED
  BY <1>1, <1>4, <1>5 DEF s

LEMMA NoChunks ==
  /\ << >> \in Seq(AllChunks)
  /\ \A d : ~ Says(<< >>, d) /\ SaysOnce(<< >>, d)
  /\ NoDone(<< >>) /\ DoneAtEnd(<< >>)
<1> DEFINE s == << >>
<1>1. s \in Seq(AllChunks) /\ Len(s) = 0
  OBVIOUS
<1> HIDE DEF s
<1>2. \A k : ~ (k \in 1..Len(s))
  BY <1>1
<1> QED
  BY <1>1, <1>2 DEF Says, SaysOnce, NoDone, DoneAtEnd, s

LEMMA WhatIsDone ==
  /\ \A reason : IsDone(DoneChunk(reason))
  /\ ~ IsDone(Chunk("notification")) /\ ~ IsDone(Chunk("final_text")) /\ ~ IsDone(Chunk("error"))
  /\ \A i : ~ IsDone(WholeCall(i))
BY ChunksAre DEF IsDone

\* Chunks that close a stream although the server has not: they pass on no
\* call and do not say that it stopped.
Closes(s) ==
    /\ s \in Seq(AllChunks)
    /\ \A i \in CallIds : ~ Says(s, WholeCall(i)) /\ SaysOnce(s, WholeCall(i))
    /\ ~ Says(s, DoneChunk("stop"))
    /\ DoneAtEnd(s) /\ EndsDone(s)

LEMMA FailuresClose ==
  Closes(Failure) /\ Closes(<<Chunk("notification"), DoneChunk("cancelled")>>)
<1>1. ASSUME NEW c \in AllChunks, NEW d \in AllChunks, ~ IsDone(c), IsDone(d),
             d # DoneChunk("stop"), \A i : c # WholeCall(i)
      PROVE  Closes(<<c, d>>)
  <2>1. \A i : d # WholeCall(i)
    BY <1>1, WhatIsDone
  <2>2. c # DoneChunk("stop")
    BY <1>1, WhatIsDone
  <2> QED
    BY <1>1, <2>1, <2>2, ClosingChunks DEF Closes
<1>2. \A i : Chunk("error") # WholeCall(i) /\ Chunk("notification") # WholeCall(i)
  BY ChunksAre
<1>3. Closes(<<Chunk("error"), DoneChunk("error")>>)
  BY <1>1, <1>2, SomeChunks, WhatIsDone, ReasonsDiffer
<1>4. Closes(<<Chunk("notification"), DoneChunk("cancelled")>>)
  BY <1>1, <1>2, SomeChunks, WhatIsDone, ReasonsDiffer
<1> QED
  BY <1>3, <1>4 DEF Failure

RemoteTyped ==
    /\ format \in {"openai", "anthropic", "rest"}
    /\ phase \in {"open", "reading", "ended", "raised", "finished"}
    /\ sent \in [CallIds -> 0..Fragments + 1]
    /\ chunks \in Seq(AllChunks)

NothingYet ==
    phase = "open" => chunks = << >> /\ parts = << >> /\ \A i \in CallIds : sent[i] = 0

\* The accumulators hold what was sent, and the calls passed on were sent
\* as a whole.
OpenAIAccounted ==
    /\ \E n \in 0..CallCount : DOMAIN parts = 1..n
    /\ \A i \in CallIds : /\ i \in DOMAIN parts <=> sent[i] > 0
                          /\ i \in DOMAIN parts => parts[i] = sent[i]
                          /\ ~ Says(chunks, WholeCall(i))
AnthropicAccounted ==
    /\ DOMAIN parts \subseteq CallIds
    /\ \A i \in CallIds : /\ i \in DOMAIN parts <=> BlockOpen(i)
                          /\ i \in DOMAIN parts => parts[i] = sent[i]
                          /\ Says(chunks, WholeCall(i)) <=> sent[i] = Fragments + 1
RestAccounted ==
    \A i \in CallIds : /\ sent[i] \in {0, Fragments}
                       /\ Says(chunks, WholeCall(i)) <=> sent[i] = Fragments
Accounted ==
    /\ format = "openai" => OpenAIAccounted
    /\ format = "anthropic" => AnthropicAccounted
    /\ format = "rest" => RestAccounted

Reading == phase = "reading" => NoDone(chunks) /\ Accounted

PassedOnce == \A i \in CallIds : SaysOnce(chunks, WholeCall(i))
StopPassesAll ==
    Says(chunks, DoneChunk("stop")) =>
        \A i \in CallIds : sent[i] > 0 => Says(chunks, WholeCall(i))
DoneCloses == DoneAtEnd(chunks) /\ (phase = "finished" => EndsDone(chunks))

RemoteInv ==
    /\ RemoteTyped /\ NothingYet /\ Reading /\ PassedOnce /\ StopPassesAll /\ DoneCloses

LEMMA RemoteInvInit == RemoteInit => RemoteInv
<1> SUFFICES ASSUME RemoteInit PROVE RemoteInv
  OBVIOUS
<1> USE RemoteStreamAssumption
<1>1. chunks = << >> /\ parts = << >> /\ phase = "open"
  BY DEF RemoteInit
<1>2. sent \in [CallIds -> 0..Fragments + 1] /\ \A i \in CallIds : sent[i] = 0
  BY DEF RemoteInit
<1>3. RemoteTyped /\ NothingYet
  BY <1>1, <1>2, NoChunks DEF RemoteInit, RemoteTyped, NothingYet
<1>4. PassedOnce /\ StopPassesAll /\ DoneAtEnd(chunks)
  BY <1>1, NoChunks DEF PassedOnce, StopPassesAll
<1> QED
  BY <1>1, <1>3, <1>4 DEF RemoteInv, Reading, DoneCloses

\* A done chunk in what was passed on: the stream is not read any more.
LEMMA DoneSaid == ASSUME NoDone(chunks) PROVE ~ Says(chunks, DoneChunk("stop"))
BY WhatIsDone DEF NoDone, Says

\* A stream that is closed, or just stops, with what it has.
LEMMA StreamStops ==
  ASSUME RemoteInv, phase \in {"open", "reading"}, format' = format,
         sent' \in [CallIds -> 0..Fragments + 1],
         \/ phase' = "ended" /\ \E s : Closes(s) /\ chunks' = chunks \o s
         \/ phase' \in {"ended", "raised"} /\ chunks' = chunks
  PROVE  RemoteInv'
<1> USE DEF RemoteInv
<1>1. NoDone(chunks)
  BY NoChunks DEF NothingYet, Reading
<1>2. phase' \in {"ended", "raised"}
  OBVIOUS
<1>3. /\ chunks' \in Seq(AllChunks) /\ DoneAtEnd(chunks') /\ ~ Says(chunks', DoneChunk("stop"))
      /\ \A i \in CallIds : SaysOnce(chunks', WholeCall(i))
  <2>1. CASE chunks' = chunks
    BY <1>1, <2>1, DoneSaid DEF RemoteTyped, PassedOnce, DoneCloses
  <2>2. CASE \E s : Closes(s) /\ chunks' = chunks \o s
    <3>0. PICK s : Closes(s) /\ chunks' = chunks \o s
      BY <2>2
    <3>1. s \in Seq(AllChunks) /\ chunks \in Seq(AllChunks)
      BY <3>0 DEF Closes, RemoteTyped
    <3>2. chunks' \in Seq(AllChunks) /\ DoneAtEnd(chunks')
      BY <1>1, <3>0, <3>1, MoreChunks DEF Closes
    <3>3. ~ Says(chunks', DoneChunk("stop"))
      BY <1>1, <3>0, <3>1, DoneSaid, MoreChunks DEF Closes
    <3>4. \A i \in CallIds : SaysOnce(chunks', WholeCall(i))
      BY <3>0, <3>1, MoreChunks DEF Closes, PassedOnce
    <3> QED
      BY <3>2, <3>3, <3>4
  <2> QED
    BY <2>1, <2>2
<1> QED
  BY <1>2, <1>3
     DEF RemoteTyped, NothingYet, Reading, PassedOnce, StopPassesAll, DoneCloses

\* After a cancellation no line is parsed.
LEMMA CancelledLine ==
  ASSUME RemoteInv, phase = "reading", format' = format,
         sent' \in [CallIds -> 0..Fragments + 1], cancelAsked, NEW new, Emit(new)
  PROVE  RemoteInv'
<1>1. /\ chunks' = chunks \o <<Chunk("notification"), DoneChunk("cancelled")>>
      /\ phase' = "ended"
  BY DEF Emit
<1> QED
  BY <1>1, FailuresClose, StreamStops

\* A line that passes on at most one chunk, and does not end the stream.
LEMMA LineRead ==
  ASSUME RemoteInv, phase = "reading", format' = format, ~ cancelAsked,
         sent' \in [CallIds -> 0..Fragments + 1],
         NEW new \in Seq(AllChunks), NoDone(new), Emit(new),
         \A i \in CallIds : SaysOnce(new, WholeCall(i)),
         \A i \in CallIds : ~ (Says(chunks, WholeCall(i)) /\ Says(new, WholeCall(i))),
         Accounted'
  PROVE  RemoteInv'
<1> USE DEF RemoteInv
<1>1. chunks' = chunks \o new /\ chunks \in Seq(AllChunks) /\ NoDone(chunks)
  BY DEF Emit, RemoteTyped, Reading
<1>2. phase' = "reading"
  <2>1. \A k \in DOMAIN new : ~ IsDone(new[k])
    BY DEF NoDone
  <2> QED
    BY <2>1 DEF Emit
<1>3. chunks' \in Seq(AllChunks) /\ NoDone(chunks')
  BY <1>1, MoreChunks
<1>4. \A i \in CallIds : SaysOnce(chunks', WholeCall(i))
  BY <1>1, MoreChunks DEF PassedOnce
<1>5. ~ Says(chunks', DoneChunk("stop"))
  BY <1>3, WhatIsDone DEF NoDone, Says
<1>6. DoneAtEnd(chunks')
  BY <1>3 DEF NoDone, DoneAtEnd
<1> QED
  BY <1>2, <1>3, <1>4, <1>5, <1>6
     DEF RemoteTyped, NothingYet, Reading, PassedOnce, StopPassesAll, DoneCloses

\* The last line of a format.
LEMMA LastLine ==
  ASSUME RemoteInv, phase = "reading", format' = format, ~ cancelAsked, sent' = sent,
         NEW new \in Seq(AllChunks), Emit(new), DoneAtEnd(new), EndsDone(new),
         \A i \in CallIds : SaysOnce(new, WholeCall(i)),
         \A i \in CallIds : ~ (Says(chunks, WholeCall(i)) /\ Says(new, WholeCall(i))),
         \A i \in CallIds : sent[i] > 0 => Says(chunks, WholeCall(i)) \/ Says(new, WholeCall(i))
  PROVE  RemoteInv'
<1> USE DEF RemoteInv
<1>1. chunks' = chunks \o new /\ chunks \in Seq(AllChunks) /\ NoDone(chunks)
  BY DEF Emit, RemoteTyped, Reading
<1>2. phase' = "ended"
  <2>1. Len(new) \in DOMAIN new /\ IsDone(new[Len(new)])
    BY DEF EndsDone
  <2> QED
    BY <2>1 DEF Emit
<1>3. chunks' \in Seq(AllChunks) /\ DoneAtEnd(chunks')
  BY <1>1, MoreChunks
<1>4. \A i \in CallIds : SaysOnce(chunks', WholeCall(i))
  BY <1>1, MoreChunks DEF PassedOnce
<1>5. \A i \in CallIds : sent'[i] > 0 => Says(chunks', WholeCall(i))
  BY <1>1, MoreChunks
<1> QED
  BY <1>2, <1>3, <1>4, <1>5
     DEF RemoteTyped, NothingYet, Reading, PassedOnce, StopPassesAll, DoneCloses

LEMMA TextLineRead == ASSUME RemoteInv, TextLine PROVE RemoteInv'
<1> DEFINE new == <<Chunk("final_text")>>
<1>1. /\ phase = "reading" /\ Emit(new)
      /\ UNCHANGED <<format, sent, parts, cancelAsked>>
  BY DEF TextLine
<1>2. sent' \in [CallIds -> 0..Fragments + 1] /\ chunks \in Seq(AllChunks)
  BY <1>1 DEF RemoteInv, RemoteTyped
<1>3. /\ new \in Seq(AllChunks) /\ NoDone(new)
      /\ \A i \in CallIds : SaysOnce(new, WholeCall(i)) /\ ~ Says(new, WholeCall(i))
  <2>1. \A i : Chunk("final_text") # WholeCall(i)
    BY WhatIsDone, ChunksAre
  <2> QED
    BY <2>1, OneChunk, SomeChunks, WhatIsDone
<1> HIDE DEF new
<1>4. CASE cancelAsked
  BY <1>1, <1>2, <1>4, CancelledLine
<1>5. CASE ~ cancelAsked
  <2>1. chunks' = chunks \o new
    BY <1>1, <1>5 DEF Emit
  <2>2. \A i \in CallIds : Says(chunks', WholeCall(i)) <=> Says(chunks, WholeCall(i))
    BY <1>2, <1>3, <2>1, MoreChunks
  <2>3. Accounted
    BY <1>1 DEF RemoteInv, Reading
  <2>4. Accounted'
    BY <1>1, <2>2, <2>3
       DEF Accounted, OpenAIAccounted, AnthropicAccounted, RestAccounted, BlockOpen
  <2> QED
    BY <1>1, <1>2, <1>3, <1>5, <2>4, LineRead
<1> QED
  BY <1>4, <1>5

\* One fragment more, where the accumulator has what was sent.
LEMMA Accumulated ==
  ASSUME NEW i \in CallIds, Accumulate(i), sent \in [CallIds -> 0..Fragments + 1],
         sent' = [sent EXCEPT ![i] = @ + 1],
         i \in DOMAIN parts <=> sent[i] > 0,
         i \in DOMAIN parts => parts[i] = sent[i]
  PROVE  /\ DOMAIN parts' = DOMAIN parts \cup {i} /\ parts'[i] = sent'[i]
         /\ sent'[i] = sent[i] + 1 /\ sent[i] \in Nat
         /\ \A j \in DOMAIN parts \ {i} : parts'[j] = parts[j]
         /\ \A j \in CallIds \ {i} : sent'[j] = sent[j]
<1> USE RemoteStreamAssumption
<1>1. parts' = [j \in DOMAIN parts \cup {i} |->
                   IF j \notin DOMAIN parts THEN 1
                   ELSE IF j = i THEN parts[j] + 1 ELSE parts[j]]
  BY DEF Accumulate, Index
<1>2. sent[i] \in Nat /\ sent'[i] = sent[i] + 1
  OBVIOUS
<1>3. DOMAIN parts' = DOMAIN parts \cup {i}
  BY <1>1
<1>4. parts'[i] = IF i \notin DOMAIN parts THEN 1 ELSE parts[i] + 1
  BY <1>1
<1>5. parts'[i] = sent'[i]
  BY <1>2, <1>4
<1>6. \A j \in DOMAIN parts \ {i} : parts'[j] = parts[j]
  BY <1>1
<1> QED
  BY <1>2, <1>3, <1>5, <1>6

\* What the provider yields when a call begins.
LEMMA Notified ==
  ASSUME NEW i
  PROVE  LET new == IF i \in DOMAIN parts THEN << >> ELSE <<Chunk("notification")>>
         IN  /\ new \in Seq(AllChunks) /\ NoDone(new)
             /\ \A j \in CallIds : SaysOnce(new, WholeCall(j)) /\ ~ Says(new, WholeCall(j))
<1>1. \A j : Chunk("notification") # WholeCall(j)
  BY ChunksAre
<1> QED
  BY <1>1, NoChunks, OneChunk, SomeChunks, WhatIsDone

LEMMA OpenAIDeltaRead ==
  ASSUME RemoteInv, NEW i \in CallIds, OpenAIDelta(i)
  PROVE  RemoteInv'
<1> USE RemoteStreamAssumption
<1> DEFINE new == IF i \in DOMAIN parts THEN << >> ELSE <<Chunk("notification")>>
<1>1. /\ format = "openai" /\ format' = format /\ phase = "reading" /\ Emit(new)
      /\ sent[i] < Fragments /\ sent' = [sent EXCEPT ![i] = @ + 1]
      /\ \A j \in 1..(i - 1) : sent[j] > 0
      /\ ~ cancelAsked => Accumulate(i)
  BY DEF OpenAIDelta
<1>2. sent \in [CallIds -> 0..Fragments + 1] /\ chunks \in Seq(AllChunks)
  BY DEF RemoteInv, RemoteTyped
<1>3. sent' \in [CallIds -> 0..Fragments + 1]
  BY <1>1, <1>2
<1>4. /\ new \in Seq(AllChunks) /\ NoDone(new)
      /\ \A j \in CallIds : SaysOnce(new, WholeCall(j)) /\ ~ Says(new, WholeCall(j))
  BY Notified
<1> HIDE DEF new
<1>5. CASE cancelAsked
  BY <1>1, <1>3, <1>5, CancelledLine
<1>6. CASE ~ cancelAsked
  <2>1. chunks' = chunks \o new
    BY <1>1, <1>6 DEF Emit
  <2>2. \A j \in CallIds : Says(chunks', WholeCall(j)) <=> Says(chunks, WholeCall(j))
    BY <1>2, <1>4, <2>1, MoreChunks
  <2>3. OpenAIAccounted
    BY <1>1 DEF RemoteInv, Reading, Accounted
  <2>4. /\ DOMAIN parts' = DOMAIN parts \cup {i} /\ parts'[i] = sent'[i]
        /\ sent'[i] = sent[i] + 1 /\ sent[i] \in Nat
        /\ \A j \in DOMAIN parts \ {i} : parts'[j] = parts[j]
        /\ \A j \in CallIds \ {i} : sent'[j] = sent[j]
    BY <1>1, <1>2, <1>6, <2>3, Accumulated DEF OpenAIAccounted
  <2>5. \E n \in 0..CallCount : DOMAIN parts' = 1..n
    <3>1. PICK n \in 0..CallCount : DOMAIN parts = 1..n
      BY <2>3 DEF OpenAIAccounted
    <3>2. \A j \in 1..(i - 1) : j \in 1..n
      <4> TAKE j \in 1..(i - 1)
      <4>1. j \in CallIds
        BY DEF CallIds
      <4> QED
        BY <1>1, <2>3, <3>1, <4>1 DEF OpenAIAccounted
    <3>3. i \in 1..CallCount
      BY DEF CallIds
    <3>4. i <= n + 1
      <4>1. CASE i = 1
        BY <3>1, <4>1
      <4>2. CASE i # 1
        <5>1. i - 1 \in 1..(i - 1)
          BY <3>3, <4>2
        <5> QED
          BY <3>1, <3>2, <3>3, <5>1
      <4> QED
        BY <4>1, <4>2
    <3>5. CASE i <= n
      <4>1. i \in 1..n
        BY <3>1, <3>3, <3>5
      <4> QED
        BY <2>4, <3>1, <4>1
    <3>6. CASE i = n + 1
      <4>1. 1..n \cup {i} = 1..(n + 1)
        BY <3>1, <3>3, <3>6
      <4>2. n + 1 \in 0..CallCount
        BY <3>1, <3>3, <3>6
      <4> QED
        BY <2>4, <3>1, <4>1, <4>2
    <3> QED
      BY <3>1, <3>3, <3>4, <3>5, <3>6
  <2>6. ASSUME NEW j \in CallIds
        PROVE  /\ j \in DOMAIN parts' <=> sent'[j] > 0
               /\ j \in DOMAIN parts' => parts'[j] = sent'[j]
               /\ ~ Says(chunks', WholeCall(j))
    <3>1. CASE j = i
      BY <2>2, <2>3, <2>4, <3>1 DEF OpenAIAccounted
    <3>2. CASE j # i
      BY <2>2, <2>3, <2>4, <3>2 DEF OpenAIAccounted
    <3> QED
      BY <3>1, <3>2
  <2>7. Accounted'
    BY <1>1, <2>5, <2>6 DEF Accounted, OpenAIAccounted
  <2> QED
    BY <1>1, <1>3, <1>4, <1>6, <2>7, LineRead
<1> QED
  BY <1>5, <1>6

\* The sorted list of what is accumulated has every call once.
LEMMA FinalizedAll ==
  ASSUME NEW n \in Nat, DOMAIN parts = 1..n
  PROVE  /\ FinalizedCalls \in [1..n -> 1..n]
         /\ \A i \in 1..n : \E k \in 1..n : FinalizedCalls[k] = i
         /\ \A j, k \in 1..n : FinalizedCalls[j] = FinalizedCalls[k] => j = k
<1> DEFINE InOrder(calls) ==
              /\ calls \in [1..n -> 1..n]
              /\ \A i \in 1..n : \E k \in DOMAIN calls : calls[k] = i
              /\ \A j, k \in DOMAIN calls : j < k => calls[j] < calls[k]
<1>1. Cardinality(DOMAIN parts) = n
  BY FS_Interval
<1>2. FinalizedCalls = CHOOSE calls : InOrder(calls)
  <2>1. FinalizedCalls =
           CHOOSE calls \in [1..n -> 1..n] :
              /\ \A i \in 1..n : \E k \in DOMAIN calls : calls[k] = i
              /\ \A j, k \in DOMAIN calls : j < k => calls[j] < calls[k]
    BY <1>1 DEF FinalizedCalls
  <2> QED
    BY <2>1
<1>3. InOrder([k \in 1..n |-> k])
  OBVIOUS
<1>4. InOrder(FinalizedCalls)
  BY <1>2, <1>3
<1>5. \A j, k \in 1..n : j < k \/ k < j \/ j = k
  OBVIOUS
<1>6. \A j, k \in 1..n : j < k => FinalizedCalls[j] # FinalizedCalls[k]
  BY <1>4
<1> QED
  BY <1>4, <1>5, <1>6

LEMMA FinalizedWhole ==
  ASSUME NEW n \in 0..CallCount, DOMAIN parts = 1..n, \A i \in 1..n : parts[i] = Fragments
  PROVE  /\ FinalizedChunks \in Seq(AllChunks) /\ NoDone(FinalizedChunks)
         /\ \A i \in CallIds : /\ SaysOnce(FinalizedChunks, WholeCall(i))
                               /\ Says(FinalizedChunks, WholeCall(i)) <=> i \in 1..n
<1> USE RemoteStreamAssumption
<1> DEFINE calls == FinalizedCalls
<1>1. n \in Nat /\ \A i \in 1..n : i \in CallIds
  BY DEF CallIds
<1>2. /\ calls \in [1..n -> 1..n]
      /\ \A i \in 1..n : \E k \in 1..n : calls[k] = i
      /\ \A j, k \in 1..n : calls[j] = calls[k] => j = k
  BY <1>1, FinalizedAll
<1>3. FinalizedChunks = [k \in 1..n |-> WholeCall(calls[k])]
  BY <1>2 DEF FinalizedChunks, WholeCall
<1> HIDE DEF calls
<1>4. \A k \in 1..n : WholeCall(calls[k]) \in AllChunks
  BY <1>1, <1>2, SomeChunks
<1> DEFINE s == FinalizedChunks
<1>5. s \in Seq(AllChunks) /\ Len(s) = n /\ \A k \in 1..n : s[k] = WholeCall(calls[k])
  BY <1>1, <1>3, <1>4
<1> HIDE DEF s
<1>6. NoDone(s)
  BY <1>5, WhatIsDone DEF NoDone
<1>7. ASSUME NEW i \in CallIds
      PROVE  /\ SaysOnce(s, WholeCall(i))
             /\ Says(s, WholeCall(i)) <=> i \in 1..n
  <2>1. \A k \in 1..n : s[k] = WholeCall(i) <=> calls[k] = i
    BY <1>5, ChunksAre
  <2>2. SaysOnce(s, WholeCall(i))
    BY <1>2, <1>5, <2>1 DEF SaysOnce
  <2>3. Says(s, WholeCall(i)) <=> i \in 1..n
    BY <1>2, <1>5, <2>1 DEF Says
  <2> QED
    BY <2>2, <2>3
<1> QED
  BY <1>5, <1>6, <1>7 DEF s

LEMMA OpenAIFinishRead == ASSUME RemoteInv, OpenAIFinish PROVE RemoteInv'
<1> USE RemoteStreamAssumption
<1> DEFINE stop == <<DoneChunk("stop")>>
           new == FinalizedChunks \o stop
<1>1. /\ format = "openai" /\ format' = format /\ phase = "reading" /\ Emit(new)
      /\ sent' = sent /\ \A i \in CallIds : sent[i] \in {0, Fragments}
  BY DEF OpenAIFinish
<1>2. sent \in [CallIds -> 0..Fragments + 1] /\ sent' \in [CallIds -> 0..Fragments + 1]
  BY <1>1 DEF RemoteInv, RemoteTyped
<1>3. OpenAIAccounted
  BY <1>1 DEF RemoteInv, Reading, Accounted
<1>4. PICK n \in 0..CallCount : DOMAIN parts = 1..n
  BY <1>3 DEF OpenAIAccounted
<1>5. \A i \in 1..n : parts[i] = Fragments
  <2> TAKE i \in 1..n
  <2>1. i \in CallIds
    BY <1>4 DEF CallIds
  <2> QED
    BY <1>1, <1>3, <1>4, <2>1 DEF OpenAIAccounted
<1>6. /\ FinalizedChunks \in Seq(AllChunks) /\ NoDone(FinalizedChunks)
      /\ \A i \in CallIds : /\ SaysOnce(FinalizedChunks, WholeCall(i))
                            /\ Says(FinalizedChunks, WholeCall(i)) <=> i \in 1..n
  BY <1>4, <1>5, FinalizedWhole
<1>7. /\ stop \in Seq(AllChunks) /\ DoneAtEnd(stop) /\ EndsDone(stop)
      /\ \A i : ~ Says(stop, WholeCall(i)) /\ SaysOnce(stop, WholeCall(i))
  <2>1. DoneChunk("stop") \in AllChunks /\ IsDone(DoneChunk("stop"))
    BY SomeChunks, WhatIsDone
  <2>2. \A i : DoneChunk("stop") # WholeCall(i)
    BY WhatIsDone
  <2> QED
    BY <2>1, <2>2, OneChunk
<1> HIDE DEF stop
<1>8. /\ new \in Seq(AllChunks) /\ DoneAtEnd(new) /\ EndsDone(new)
      /\ \A i \in CallIds : SaysOnce(new, WholeCall(i)) /\ (Says(new, WholeCall(i)) <=> i \in 1..n)
  BY <1>6, <1>7, MoreChunks
<1> HIDE DEF new
<1>9. CASE cancelAsked
  BY <1>1, <1>2, <1>9, CancelledLine
<1>10. CASE ~ cancelAsked
  <2>1. \A i \in CallIds : /\ ~ Says(chunks, WholeCall(i))
                           /\ sent[i] > 0 => Says(new, WholeCall(i))
    BY <1>3, <1>4, <1>8 DEF OpenAIAccounted
  <2> QED
    BY <1>1, <1>8, <1>10, <2>1, LastLine
<1> QED
  BY <1>9, <1>10

\* A last line that only closes, when all that was sent is passed on.
LEMMA StopRead ==
  ASSUME RemoteInv, phase = "reading", format' = format, sent' = sent,
         Emit(<<DoneChunk("stop")>>),
         \A i \in CallIds : sent[i] > 0 => Says(chunks, WholeCall(i))
  PROVE  RemoteInv'
<1> DEFINE new == <<DoneChunk("stop")>>
<1>1. /\ new \in Seq(AllChunks) /\ DoneAtEnd(new) /\ EndsDone(new)
      /\ \A i : ~ Says(new, WholeCall(i)) /\ SaysOnce(new, WholeCall(i))
  <2>1. DoneChunk("stop") \in AllChunks /\ IsDone(DoneChunk("stop"))
    BY SomeChunks, WhatIsDone
  <2>2. \A i : DoneChunk("stop") # WholeCall(i)
    BY WhatIsDone
  <2> QED
    BY <2>1, <2>2, OneChunk
<1>2. Emit(new)
  OBVIOUS
<1> HIDE DEF new
<1>3. sent' \in [CallIds -> 0..Fragments + 1]
  BY DEF RemoteInv, RemoteTyped
<1>4. CASE cancelAsked
  BY <1>2, <1>3, <1>4, CancelledLine
<1>5. CASE ~ cancelAsked
  BY <1>1, <1>2, <1>5, LastLine
<1> QED
  BY <1>4, <1>5

LEMMA AnthropicDeltaRead ==
  ASSUME RemoteInv, NEW i \in CallIds, AnthropicDelta(i)
  PROVE  RemoteInv'
<1> USE RemoteStreamAssumption
<1> DEFINE new == IF i \in DOMAIN parts THEN << >> ELSE <<Chunk("notification")>>
<1>1. /\ format = "anthropic" /\ format' = format /\ phase = "reading" /\ Emit(new)
      /\ sent[i] < Fragments /\ sent' = [sent EXCEPT ![i] = @ + 1]
      /\ ~ cancelAsked => Accumulate(i)
  BY DEF AnthropicDelta
<1>2. sent \in [CallIds -> 0..Fragments + 1] /\ chunks \in Seq(AllChunks)
  BY DEF RemoteInv, RemoteTyped
<1>3. sent' \in [CallIds -> 0..Fragments + 1]
  BY <1>1, <1>2
<1>4. /\ new \in Seq(AllChunks) /\ NoDone(new)
      /\ \A j \in CallIds : SaysOnce(new, WholeCall(j)) /\ ~ Says(new, WholeCall(j))
  BY Notified
<1> HIDE DEF new
<1>5. CASE cancelAsked
  BY <1>1, <1>3, <1>5, CancelledLine
<1>6. CASE ~ cancelAsked
  <2>1. chunks' = chunks \o new
    BY <1>1, <1>6 DEF Emit
  <2>2. \A j \in CallIds : Says(chunks', WholeCall(j)) <=> Says(chunks, WholeCall(j))
    BY <1>2, <1>4, <2>1, MoreChunks
  <2>3. AnthropicAccounted
    BY <1>1 DEF RemoteInv, Reading, Accounted
  <2>4. i \in DOMAIN parts <=> sent[i] > 0
    BY <1>1, <1>2, <2>3 DEF AnthropicAccounted, BlockOpen
  <2>5. /\ DOMAIN parts' = DOMAIN parts \cup {i} /\ parts'[i] = sent'[i]
        /\ sent'[i] = sent[i] + 1 /\ sent[i] \in Nat
        /\ \A j \in DOMAIN parts \ {i} : parts'[j] = parts[j]
        /\ \A j \in CallIds \ {i} : sent'[j] = sent[j]
    BY <1>1, <1>2, <1>6, <2>3, <2>4, Accumulated DEF AnthropicAccounted
  <2>6. DOMAIN parts' \subseteq CallIds
    BY <2>3, <2>5 DEF AnthropicAccounted
  <2>7. ASSUME NEW j \in CallIds
        PROVE  /\ j \in DOMAIN parts' <=> BlockOpen(j)'
               /\ j \in DOMAIN parts' => parts'[j] = sent'[j]
               /\ Says(chunks', WholeCall(j)) <=> sent'[j] = Fragments + 1
    <3>1. CASE j = i
      BY <1>1, <2>2, <2>3, <2>5, <3>1 DEF AnthropicAccounted, BlockOpen
    <3>2. CASE j # i
      BY <2>2, <2>3, <2>5, <3>2 DEF AnthropicAccounted, BlockOpen
    <3> QED
      BY <3>1, <3>2
  <2>8. Accounted'
    BY <1>1, <2>6, <2>7 DEF Accounted, AnthropicAccounted
  <2> QED
    BY <1>1, <1>3, <1>4, <1>6, <2>8, LineRead
<1> QED
  BY <1>5, <1>6

LEMMA AnthropicStopRead ==
  ASSUME RemoteInv, NEW i \in CallIds, AnthropicStop(i)
  PROVE  RemoteInv'
<1> USE RemoteStreamAssumption
<1> DEFINE new == <<WholeCall(i)>>
<1>1. /\ format = "anthropic" /\ format' = format /\ phase = "reading"
      /\ sent[i] = Fragments /\ sent' = [sent EXCEPT ![i] = @ + 1]
      /\ parts' = IF cancelAsked THEN parts ELSE [k \in DOMAIN parts \ {i} |-> parts[k]]
      /\ Emit(IF i \in DOMAIN parts THEN <<CallChunk(i, parts[i])>> ELSE << >>)
  BY DEF AnthropicStop, Index
<1>2. sent \in [CallIds -> 0..Fragments + 1] /\ chunks \in Seq(AllChunks)
  BY DEF RemoteInv, RemoteTyped
<1>3. sent' \in [CallIds -> 0..Fragments + 1]
  BY <1>1, <1>2
<1>4. AnthropicAccounted
  BY <1>1 DEF RemoteInv, Reading, Accounted
<1>5. i \in DOMAIN parts /\ parts[i] = Fragments /\ ~ Says(chunks, WholeCall(i))
  BY <1>1, <1>4 DEF AnthropicAccounted, BlockOpen
<1>6. Emit(new)
  BY <1>1, <1>5 DEF WholeCall
<1>7. /\ new \in Seq(AllChunks) /\ NoDone(new)
      /\ \A j \in CallIds : SaysOnce(new, WholeCall(j)) /\ (Says(new, WholeCall(j)) <=> j = i)
  <2>1. \A j \in CallIds : WholeCall(j) = WholeCall(i) <=> j = i
    BY ChunksAre
  <2> QED
    BY <2>1, OneChunk, SomeChunks, WhatIsDone
<1> HIDE DEF new
<1>8. CASE cancelAsked
  BY <1>1, <1>3, <1>6, <1>8, CancelledLine
<1>9. CASE ~ cancelAsked
  <2>1. chunks' = chunks \o new
    BY <1>6, <1>9 DEF Emit
  <2>2. \A j \in CallIds : Says(chunks', WholeCall(j)) <=> Says(chunks, WholeCall(j)) \/ j = i
    BY <1>2, <1>7, <2>1, MoreChunks
  <2>3. /\ DOMAIN parts' = DOMAIN parts \ {i}
        /\ \A k \in DOMAIN parts' : parts'[k] = parts[k]
    BY <1>1, <1>9
  <2>4. sent'[i] = Fragments + 1 /\ \A j \in CallIds \ {i} : sent'[j] = sent[j]
    BY <1>1, <1>2
  <2>5. DOMAIN parts' \subseteq CallIds
    BY <1>4, <2>3 DEF AnthropicAccounted
  <2>6. ASSUME NEW j \in CallIds
        PROVE  /\ j \in DOMAIN parts' <=> BlockOpen(j)'
               /\ j \in DOMAIN parts' => parts'[j] = sent'[j]
               /\ Says(chunks', WholeCall(j)) <=> sent'[j] = Fragments + 1
    <3>1. CASE j = i
      BY <2>2, <2>3, <2>4, <3>1 DEF BlockOpen
    <3>2. CASE j # i
      BY <1>4, <2>2, <2>3, <2>4, <3>2 DEF AnthropicAccounted, BlockOpen
    <3> QED
      BY <3>1, <3>2
  <2>7. Accounted'
    BY <1>1, <2>5, <2>6 DEF Accounted, AnthropicAccounted
  <2>8. \A j \in CallIds : ~ (Says(chunks, WholeCall(j)) /\ Says(new, WholeCall(j)))
    BY <1>5, <1>7
  <2> QED
    BY <1>1, <1>3, <1>6, <1>7, <1>9, <2>7, <2>8, LineRead
<1> QED
  BY <1>8, <1>9

LEMMA RestCallRead ==
  ASSUME RemoteInv, NEW i \in CallIds, RestCall(i)
  PROVE  RemoteInv'
<1> USE RemoteStreamAssumption
<1> DEFINE new == <<WholeCall(i)>>
<1>1. /\ format = "rest" /\ format' = format /\ phase = "reading" /\ Emit(new)
      /\ sent[i] = 0 /\ sent' = [sent EXCEPT ![i] = Fragments]
  BY DEF RestCall, WholeCall
<1>2. sent \in [CallIds -> 0..Fragments + 1] /\ chunks \in Seq(AllChunks)
  BY DEF RemoteInv, RemoteTyped
<1>3. /\ sent' \in [CallIds -> 0..Fragments + 1] /\ sent'[i] = Fragments
      /\ \A j \in CallIds \ {i} : sent'[j] = sent[j]
  BY <1>1, <1>2
<1>4. RestAccounted
  BY <1>1 DEF RemoteInv, Reading, Accounted
<1>5. ~ Says(chunks, WholeCall(i))
  BY <1>1, <1>4 DEF RestAccounted
<1>6. /\ new \in Seq(AllChunks) /\ NoDone(new)
      /\ \A j \in CallIds : SaysOnce(new, WholeCall(j)) /\ (Says(new, WholeCall(j)) <=> j = i)
  <2>1. \A j \in CallIds : WholeCall(j) = WholeCall(i) <=> j = i
    BY ChunksAre
  <2> QED
    BY <2>1, OneChunk, SomeChunks, WhatIsDone
<1> HIDE DEF new
<1>7. CASE cancelAsked
  BY <1>1, <1>3, <1>7, CancelledLine
<1>8. CASE ~ cancelAsked
  <2>1. chunks' = chunks \o new
    BY <1>1, <1>8 DEF Emit
  <2>2. \A j \in CallIds : Says(chunks', WholeCall(j)) <=> Says(chunks, WholeCall(j)) \/ j = i
    BY <1>2, <1>6, <2>1, MoreChunks
  <2>3. Accounted'
    BY <1>1, <1>3, <1>4, <2>2 DEF Accounted, RestAccounted
  <2>4. \A j \in CallIds : ~ (Says(chunks, WholeCall(j)) /\ Says(new, WholeCall(j)))
    BY <1>5, <1>6
  <2> QED
    BY <1>1, <1>3, <1>6, <1>8, <2>3, <2>4, LineRead
<1> QED
  BY <1>7, <1>8

LEMMA StopsRead == ASSUME RemoteInv, AnthropicFinish \/ RestDone PROVE RemoteInv'
<1> USE RemoteStreamAssumption
<1>1. /\ phase = "reading" /\ format' = format /\ sent' = sent
      /\ Emit(<<DoneChunk("stop")>>)
  BY DEF AnthropicFinish, RestDone
<1>2. sent \in [CallIds -> 0..Fragments + 1] /\ Accounted
  BY <1>1 DEF RemoteInv, RemoteTyped, Reading
<1>3. \A i \in CallIds : sent[i] > 0 => Says(chunks, WholeCall(i))
  <2>1. CASE AnthropicFinish
    BY <1>2, <2>1 DEF AnthropicFinish, Accounted, AnthropicAccounted, BlockOpen
  <2>2. CASE RestDone
    BY <1>2, <2>2 DEF RestDone, Accounted, RestAccounted
  <2> QED
    BY <2>1, <2>2
<1> QED
  BY <1>1, <1>3, StopRead

\* What closes the stream before the server does.
LEMMA BreaksOff ==
  ASSUME RemoteInv,
         OpenFails \/ OpenRefused \/ ErrorLine \/ StreamTimesOut \/ StreamEnds \/ StreamBreaks
  PROVE  RemoteInv'
<1>1. sent' = sent /\ format' = format /\ sent' \in [CallIds -> 0..Fragments + 1]
  BY DEF RemoteInv, RemoteTyped, OpenFails, OpenRefused, ErrorLine, StreamTimesOut, StreamEnds,
     StreamBreaks
<1>2. ASSUME phase = "open", phase' = "ended", chunks' = Failure
      PROVE  RemoteInv'
  <2>1. Failure \in Seq(AllChunks) /\ chunks = << >>
    BY <1>2, FailuresClose DEF Closes, RemoteInv, NothingYet
  <2>2. chunks' = chunks \o Failure
    BY <1>2, <2>1
  <2> QED
    BY <1>1, <1>2, <2>2, FailuresClose, StreamStops
<1>3. CASE OpenFails
  <2>1. CASE phase' = phase /\ UNCHANGED <<chunks, sent, parts, format>>
    BY <2>1 DEF RemoteInv, RemoteTyped, NothingYet, Reading, Accounted, OpenAIAccounted,
       AnthropicAccounted, RestAccounted, BlockOpen, PassedOnce, StopPassesAll, DoneCloses
  <2>2. CASE phase = "open" /\ phase' = "raised" /\ chunks' = chunks
    BY <1>1, <2>2, StreamStops
  <2> QED
    BY <1>2, <1>3, <2>1, <2>2 DEF OpenFails
<1>4. CASE OpenRefused
  BY <1>2, <1>4 DEF OpenRefused
<1>5. CASE StreamEnds \/ StreamBreaks
  BY <1>1, <1>5, StreamStops DEF StreamEnds, StreamBreaks
<1>6. CASE StreamTimesOut
  BY <1>1, <1>6, FailuresClose, StreamStops DEF StreamTimesOut
<1>7. CASE ErrorLine
  <2>1. phase = "reading" /\ Emit(Failure)
    BY <1>7 DEF ErrorLine
  <2>2. CASE cancelAsked
    BY <1>1, <2>1, <2>2, CancelledLine
  <2>3. CASE ~ cancelAsked
    <3>1. chunks' = chunks \o Failure
      BY <2>1, <2>3 DEF Emit
    <3>2. Len(Failure) \in DOMAIN Failure /\ IsDone(Failure[Len(Failure)])
      BY FailuresClose DEF Closes, EndsDone
    <3>3. phase' = "ended"
      BY <2>1, <2>3, <3>2 DEF Emit
    <3> QED
      BY <1>1, <2>1, <3>1, <3>3, FailuresClose, StreamStops
  <2> QED
    BY <2>2, <2>3
<1> QED
  BY <1>3, <1>4, <1>5, <1>6, <1>7

\* The layer above closes what has no done chunk.
LEMMA FinishRead == ASSUME RemoteInv, FinishStream PROVE RemoteInv'
<1> USE DEF RemoteInv
<1> DEFINE last == DoneChunk("")
<1>1. last \in AllChunks /\ IsDone(last) /\ last # DoneChunk("stop") /\ \A i : last # WholeCall(i)
  BY SomeChunks, WhatIsDone, ReasonsDiffer
<1>2. MissingDone = IF Ended THEN << >> ELSE <<last>>
  BY DEF MissingDone
<1> HIDE DEF last
<1>3. /\ phase' = "finished" /\ format' = format /\ sent' = sent
      /\ chunks' = chunks \o MissingDone /\ chunks \in Seq(AllChunks)
  BY DEF FinishStream, RemoteTyped
<1>4. /\ chunks' \in Seq(AllChunks) /\ DoneAtEnd(chunks') /\ EndsDone(chunks')
      /\ \A i \in CallIds : /\ SaysOnce(chunks', WholeCall(i))
                            /\ Says(chunks', WholeCall(i)) <=> Says(chunks, WholeCall(i))
      /\ Says(chunks', DoneChunk("stop")) <=> Says(chunks, DoneChunk("stop"))
  <2>1. CASE Ended
    <3>1. chunks' = chunks
      BY <1>2, <1>3, <2>1
    <3>2. EndsDone(chunks)
      BY <1>3, <2>1 DEF Ended, DoneCloses, DoneAtEnd, EndsDone
    <3> QED
      BY <1>3, <3>1, <3>2 DEF DoneCloses, PassedOnce
  <2>2. CASE ~ Ended
    <3>1. NoDone(chunks) /\ chunks' = chunks \o <<last>>
      BY <1>2, <1>3, <2>2 DEF Ended, NoDone
    <3> DEFINE t == <<last>>
    <3>2. /\ t \in Seq(AllChunks) /\ DoneAtEnd(t) /\ EndsDone(t)
          /\ \A c : (Says(t, c) <=> c = last) /\ SaysOnce(t, c)
      BY <1>1, OneChunk
    <3> HIDE DEF t
    <3>3. chunks' = chunks \o t
      BY <3>1 DEF t
    <3>4. chunks' \in Seq(AllChunks) /\ DoneAtEnd(chunks') /\ EndsDone(chunks')
      BY <1>3, <3>1, <3>2, <3>3, MoreChunks
    <3>5. \A c : Says(chunks', c) <=> Says(chunks, c) \/ c = last
      BY <1>3, <3>2, <3>3, MoreChunks
    <3>6. \A i \in CallIds : SaysOnce(chunks', WholeCall(i))
      BY <1>1, <1>3, <3>2, <3>3, MoreChunks DEF PassedOnce
    <3> QED
      BY <1>1, <3>4, <3>5, <3>6
  <2> QED
    BY <2>1, <2>2
<1> QED
  BY <1>3, <1>4
     DEF RemoteTyped, NothingYet, Reading, PassedOnce, StopPassesAll, DoneCloses

LEMMA OpensOrIsCancelled ==
  ASSUME RemoteInv, OpenStream \/ Cancel \/ UNCHANGED remoteVars
  PROVE  RemoteInv'
<1>1. CASE OpenStream
  <2>1. /\ phase = "open" /\ phase' = "reading"
        /\ UNCHANGED <<format, sent, parts, chunks>>
    BY <1>1 DEF OpenStream
  <2>2. chunks = << >> /\ parts = << >> /\ \A i \in CallIds : sent[i] = 0
    BY <2>1 DEF RemoteInv, NothingYet
  <2>3. NoDone(chunks) /\ \A i \in CallIds : ~ Says(chunks, WholeCall(i))
    BY <2>2, NoChunks
  <2>4. DOMAIN parts = {} /\ DOMAIN parts = 1..0 /\ 0 \in 0..CallCount
    BY <2>2, RemoteStreamAssumption
  <2>5. OpenAIAccounted
    BY <2>2, <2>3, <2>4 DEF OpenAIAccounted
  <2>6. AnthropicAccounted /\ RestAccounted
    BY <2>2, <2>3, <2>4, RemoteStreamAssumption DEF AnthropicAccounted, RestAccounted, BlockOpen
  <2>7. Accounted'
    BY <2>1, <2>5, <2>6
       DEF Accounted, OpenAIAccounted, AnthropicAccounted, RestAccounted, BlockOpen
  <2> QED
    BY <2>1, <2>3, <2>7
       DEF RemoteInv, RemoteTyped, NothingYet, Reading, PassedOnce, StopPassesAll, DoneCloses
<1>2. CASE UNCHANGED <<format, phase, sent, parts, chunks>>
  BY <1>2 DEF RemoteInv, RemoteTyped, NothingYet, Reading, Accounted, OpenAIAccounted,
     AnthropicAccounted, RestAccounted, BlockOpen, PassedOnce, StopPassesAll, DoneCloses
<1> QED
  BY <1>1, <1>2 DEF Cancel, remoteVars

LEMMA RemoteInvStep == RemoteInv /\ [RemoteNext]_remoteVars => RemoteInv'
<1> SUFFICES ASSUME RemoteInv, [RemoteNext]_remoteVars PROVE RemoteInv'
  OBVIOUS
<1>1. CASE OpenStream \/ Cancel \/ UNCHANGED remoteVars
  BY <1>1, OpensOrIsCancelled
<1>2. CASE OpenFails \/ OpenRefused \/ ErrorLine \/ StreamTimesOut \/ StreamEnds \/ StreamBreaks
  BY <1>2, BreaksOff
<1>3. CASE AnthropicFinish \/ RestDone
  BY <1>3, StopsRead
<1>4. CASE \E i \in CallIds : OpenAIDelta(i) \/ AnthropicDelta(i) \/ AnthropicStop(i) \/ RestCall(i)
  BY <1>4, OpenAIDeltaRead, AnthropicDeltaRead, AnthropicStopRead, RestCallRead
<1> QED
  BY <1>1, <1>2, <1>3, <1>4, TextLineRead, OpenAIFinishRead, FinishRead DEF RemoteNext

(* A tool call reaches the caller of a stream once and with all its parts, *)
(* a finished stream has one done chunk, its last, and one that says it    *)
(* stopped has passed on every call the server sent, in each of the three  *)
(* formats, for any number of calls and fragments, wherever the stream is  *)
(* broken off or cancelled (providers/openai.py, anthropic.py, rest.py,    *)
(* models/abstraction.py).                                                 *)
THEOREM CallsWhole == RemoteSpec => []ToolCallsWhole
<1>1. RemoteInit => RemoteInv
  BY RemoteInvInit
<1>2. RemoteInv /\ [RemoteNext]_remoteVars => RemoteInv'
  BY RemoteInvStep
<1>3. RemoteInv => ToolCallsWhole
  <2> SUFFICES ASSUME RemoteInv PROVE ToolCallsWhole
    OBVIOUS
  <2> USE DEF RemoteInv
  <2>1. chunks \in Seq(AllChunks) /\ \A k \in DOMAIN chunks : chunks[k] \in AllChunks
    BY DEF RemoteTyped
  <2>2. ASSUME NEW k \in DOMAIN chunks, chunks[k].kind = "tool_call"
        PROVE  /\ chunks[k].parts = Fragments
               /\ \A j \in DOMAIN chunks :
                     chunks[j].kind = "tool_call" /\ chunks[j].call = chunks[k].call => j = k
    <3>1. PICK i \in CallIds : chunks[k] = WholeCall(i)
      BY <2>1, <2>2, ChunkKinds
    <3>2. ASSUME NEW j \in DOMAIN chunks, chunks[j].kind = "tool_call",
                 chunks[j].call = chunks[k].call
          PROVE  j = k
      <4>1. chunks[j] = WholeCall(i)
        BY <2>1, <3>1, <3>2, ChunkKinds, ChunksAre
      <4> QED
        BY <2>1, <3>1, <4>1 DEF PassedOnce, SaysOnce
    <3> QED
      BY <3>1, <3>2, ChunksAre
  <2>3. ASSUME phase = "finished"
        PROVE  /\ \A k \in DOMAIN chunks : IsDone(chunks[k]) <=> k = Len(chunks)
               /\ ReasonOf = "stop" => \A i \in CallIds : sent[i] > 0 =>
                     \E k \in DOMAIN chunks : chunks[k].kind = "tool_call" /\ chunks[k].call = i
    <3>1. Len(chunks) \in DOMAIN chunks /\ IsDone(chunks[Len(chunks)])
      BY <2>1, <2>3 DEF DoneCloses, EndsDone
    <3>2. \A k \in DOMAIN chunks : IsDone(chunks[k]) <=> k = Len(chunks)
      BY <2>1, <3>1 DEF DoneCloses, DoneAtEnd
    <3>3. ASSUME ReasonOf = "stop", NEW i \in CallIds, sent[i] > 0
          PROVE  \E k \in DOMAIN chunks : chunks[k].kind = "tool_call" /\ chunks[k].call = i
      <4> DEFINE e == CHOOSE j \in DOMAIN chunks : IsDone(chunks[j])
      <4>1. e \in DOMAIN chunks /\ IsDone(chunks[e])
        BY <3>1
      <4>2. chunks[e].reason = "stop"
        BY <3>3 DEF ReasonOf
      <4> HIDE DEF e
      <4>3. \E reason \in Reasons : chunks[e] = DoneChunk(reason)
        BY <2>1, <4>1, ChunkKinds
      <4>4. chunks[e] = DoneChunk("stop")
        BY <4>2, <4>3, ChunksAre
      <4>5. Says(chunks, WholeCall(i))
        BY <2>1, <3>3, <4>1, <4>4 DEF StopPassesAll, Says
      <4> QED
        BY <2>1, <4>5, ChunksAre DEF Says
    <3> QED
      BY <3>2, <3>3
  <2> QED
    BY <2>2, <2>3 DEF ToolCallsWhole
<1> QED
  BY <1>1, <1>2, <1>3, PTL DEF RemoteSpec
=============================================================================
