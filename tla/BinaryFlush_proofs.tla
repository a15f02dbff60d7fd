------------------------- MODULE BinaryFlush_proofs -------------------------
(***************************************************************************)
(* Proofs about BinaryFlush: all its invariants, for any number of spans,  *)
(* connections, addresses and retries and any lengths of batches.  None is *)
(* inductive alone.  A span is in no two whole frames because flush sends  *)
(* what is stored and clears it only after its frame went out (FlushInv),  *)
(* and the agent accepts a frame once because a connection carries one     *)
(* (ConnInv) and is read past it or not at all afterwards (ReadOff).       *)
(* A step is one of the worker, which leaves the reader's variables alone  *)
(* and no whole frame changed (Unread), or one of the agent, which leaves  *)
(* frames and what was sent (Kept): each invariant has a lemma for each.   *)
(***************************************************************************)
EXTENDS BinaryFlush, SequenceTheorems, TLAPS

-----------------------------------------------------------------------------
(* The connections. *)

\* A connection that changes keeps its place among the others.
LEMMA ConnUpdate ==
    ASSUME NEW s \in Seq(ConnType), NEW c \in DOMAIN s, NEW r \in ConnType
    PROVE  /\ [s EXCEPT ![c] = r] \in Seq(ConnType)
           /\ Len([s EXCEPT ![c] = r]) = Len(s)
           /\ DOMAIN [s EXCEPT ![c] = r] = DOMAIN s
<1>1. s \in [1 .. Len(s) -> ConnType]
  BY LenProperties
<1>2. [s EXCEPT ![c] = r] \in [1 .. Len(s) -> ConnType]
  BY <1>1
<1>3. [s EXCEPT ![c] = r] \in Seq(ConnType)
  BY <1>2, LenProperties, SeqDef
<1>4. QED  BY <1>1, <1>2, <1>3, LenProperties

\* What most steps do to a connection: its frame and what was sent stay.
Kept ==
    /\ conns' \in Seq(ConnType) /\ Len(conns') = Len(conns)
    /\ \A c \in DOMAIN conns :
          /\ conns'[c].frames = conns[c].frames /\ conns'[c].sent = conns[c].sent
          /\ conns[c].agent = "closed" => conns'[c].agent = "closed"

\* The worker's hang-up changes only where the agent finds the end.
LEMMA HangUpWorkerKeeps ==
    ASSUME conns \in Seq(ConnType), peer \in 0 .. Len(conns), NEW l \in BOOLEAN,
           HangUpWorker(peer, l)
    PROVE  /\ Kept
           /\ \A c \in DOMAIN conns :
                 /\ conns'[c].agent = conns[c].agent /\ conns'[c].taken = conns[c].taken
                 /\ conns'[c].cut \in {conns[c].cut, 0, conns[c].taken, conns[c].sent}
<1>1. CASE peer = 0
  BY <1>1 DEF HangUpWorker, Kept
<1>2. CASE peer # 0
  <2>1. peer \in DOMAIN conns /\ DOMAIN conns = 1 .. Len(conns) /\ conns[peer] \in ConnType
    BY <1>2, LenProperties, ElementOfSeq
  <2>2. PICK cut \in Cuts(peer, l) : conns' = [conns EXCEPT ![peer].worker = "closed", ![peer].cut = cut]
    BY <1>2 DEF HangUpWorker
  <2>3. cut \in {0, conns[peer].taken, conns[peer].sent}
    BY DEF Cuts
  <2> DEFINE r == [conns[peer] EXCEPT !.worker = "closed", !.cut = cut]
  <2>4. cut \in Nat
    BY <2>1, <2>3 DEF ConnType
  <2>5. /\ r \in ConnType /\ r.frames = conns[peer].frames /\ r.sent = conns[peer].sent
        /\ r.agent = conns[peer].agent /\ r.taken = conns[peer].taken /\ r.cut = cut
    BY <2>1, <2>4 DEF ConnType
  <2>6. conns' = [conns EXCEPT ![peer] = r]
    BY <2>1, <2>2, LenProperties
  <2> HIDE DEF r
  <2>7. conns' \in Seq(ConnType) /\ Len(conns') = Len(conns)
    BY <2>1, <2>5, <2>6, ConnUpdate
  <2>8. \A c \in DOMAIN conns : conns'[c] = IF c = peer THEN r ELSE conns[c]
    BY <2>1, <2>6, LenProperties
  <2>9. QED  BY <2>3, <2>5, <2>7, <2>8 DEF Kept
<1>3. QED  BY <1>1, <1>2

\* A new connection is the last one and is the peer.
LEMMA EstablishedGrows ==
    ASSUME conns \in Seq(ConnType), NEW l, Established(l)
    PROVE  /\ conns' \in Seq(ConnType) /\ Len(conns') = Len(conns) + 1
           /\ peer' = Len(conns')
           /\ \A c \in DOMAIN conns : conns'[c] = conns[c]
           /\ conns'[peer'] = NewConn
           /\ DOMAIN conns' = 1 .. peer' /\ DOMAIN conns = 1 .. Len(conns)
           /\ Len(conns) \in Nat
<1>1. NewConn \in ConnType /\ Len(conns) \in Nat /\ DOMAIN conns = 1 .. Len(conns)
  BY EmptySeq, LenProperties DEF NewConn, ConnType
<1>2. conns' = Append(conns, NewConn) /\ peer' = Len(conns) + 1
  BY DEF Established
<1>3. QED  BY <1>1, <1>2, AppendProperties, LenProperties

\* A sum of natural numbers is one.
LEMMA SumIsNat == \A m, n \in Nat : m + n \in Nat
OBVIOUS

\* send moves bytes from the transport to the peer.
LEMMA SendToPeer ==
    ASSUME conns \in Seq(ConnType), peer \in 0 .. Len(conns), out \in Nat, Send
    PROVE  /\ conns' \in Seq(ConnType) /\ Len(conns') = Len(conns)
           /\ peer \in DOMAIN conns /\ conns[peer].sent \in Nat
           /\ \A c \in DOMAIN conns :
                 /\ conns'[c].frames = conns[c].frames /\ conns'[c].agent = conns[c].agent
                 /\ conns'[c].taken = conns[c].taken /\ conns'[c].cut = conns[c].cut
                 /\ c # peer => conns'[c].sent = conns[c].sent
           /\ out' \in Nat /\ conns'[peer].sent \in Nat
           /\ conns'[peer].sent + out' = conns[peer].sent + out
           /\ pc' = IF out' = 0 THEN "frame" ELSE "write"
           /\ conns'[peer].sent > conns[peer].sent
<1>1. peer \in DOMAIN conns /\ DOMAIN conns = 1 .. Len(conns) /\ conns[peer] \in ConnType
  BY LenProperties, ElementOfSeq DEF Send
<1>2. PICK k \in 1 .. out :
         /\ conns' = [conns EXCEPT ![peer].sent = @ + k]
         /\ out' = out - k
         /\ pc' = IF out = k THEN "frame" ELSE "write"
  BY DEF Send
<1>3. conns[peer].sent \in Nat /\ k \in Nat /\ conns[peer].sent + k \in Nat
  <2>1. conns[peer].sent \in Nat
    BY <1>1 DEF ConnType
  <2>2. k \in Nat
    OBVIOUS
  <2>3. QED  BY <2>1, <2>2, SumIsNat
<1> DEFINE n == conns[peer].sent + k
<1> DEFINE r == [conns[peer] EXCEPT !.sent = n]
<1>4. /\ r \in ConnType /\ r.frames = conns[peer].frames /\ r.agent = conns[peer].agent
      /\ r.taken = conns[peer].taken /\ r.cut = conns[peer].cut /\ r.sent = n
  <2>1. n \in Nat
    BY <1>3
  <2> HIDE DEF n
  <2>2. QED  BY <1>1, <2>1 DEF ConnType
<1>5. conns' = [conns EXCEPT ![peer] = r]
  BY <1>1, <1>2, LenProperties
<1>6. n = conns[peer].sent + k
  OBVIOUS
<1> HIDE DEF r, n
<1>7. conns' \in Seq(ConnType) /\ Len(conns') = Len(conns)
  BY <1>1, <1>4, <1>5, ConnUpdate
<1>8. \A c \in DOMAIN conns : conns'[c] = IF c = peer THEN r ELSE conns[c]
  BY <1>1, <1>5, LenProperties
<1>9. out' \in Nat /\ n + out' = conns[peer].sent + out /\ n > conns[peer].sent /\ n \in Nat
  BY <1>2, <1>3, <1>6
<1>10. out' = 0 <=> out = k
  BY <1>2
<1>11. QED  BY <1>1, <1>2, <1>3, <1>4, <1>7, <1>8, <1>9, <1>10

\* A frame begins at the peer.
LEMMA BegunAtPeer ==
    ASSUME conns \in Seq(ConnType), peer \in 0 .. Len(conns), batch \in Batches, conns' = Begun
    PROVE  /\ conns' \in Seq(ConnType) /\ Len(conns') = Len(conns)
           /\ \A c \in DOMAIN conns :
                 /\ conns'[c].sent = conns[c].sent /\ conns'[c].agent = conns[c].agent
                 /\ conns'[c].taken = conns[c].taken /\ conns'[c].cut = conns[c].cut
                 /\ c # peer => conns'[c].frames = conns[c].frames
           /\ peer # 0 => conns'[peer].frames = Append(conns[peer].frames, batch)
<1>1. CASE peer = 0
  BY <1>1 DEF Begun
<1>2. CASE peer # 0
  <2>1. peer \in DOMAIN conns /\ DOMAIN conns = 1 .. Len(conns) /\ conns[peer] \in ConnType
    BY <1>2, LenProperties, ElementOfSeq
  <2> DEFINE f == Append(conns[peer].frames, batch)
  <2> DEFINE r == [conns[peer] EXCEPT !.frames = f]
  <2>2. f \in Seq(Batches)
    BY <2>1, AppendProperties DEF ConnType
  <2>3. conns' = [conns EXCEPT ![peer] = r]
    BY <1>2, <2>1, LenProperties DEF Begun
  <2> HIDE DEF f
  <2>4. /\ r \in ConnType /\ r.frames = f /\ r.agent = conns[peer].agent
        /\ r.taken = conns[peer].taken /\ r.cut = conns[peer].cut /\ r.sent = conns[peer].sent
    BY <2>1, <2>2 DEF ConnType
  <2> HIDE DEF r
  <2>5. conns' \in Seq(ConnType) /\ Len(conns') = Len(conns)
    BY <2>1, <2>3, <2>4, ConnUpdate
  <2>6. \A c \in DOMAIN conns : conns'[c] = IF c = peer THEN r ELSE conns[c]
    BY <2>1, <2>3, LenProperties
  <2>7. QED  BY <1>2, <2>1, <2>4, <2>5, <2>6 DEF f
<1>3. QED  BY <1>1, <1>2

\* An agent that goes closes some connections.
LEMMA DroppedKeeps ==
    ASSUME conns \in Seq(ConnType), NEW cs, conns' = Dropped(cs)
    PROVE  /\ Kept
           /\ \A c \in DOMAIN conns :
                 \/ conns'[c] = conns[c] /\ c \notin cs
                 \/ conns'[c].agent = "closed" /\ conns'[c].taken = 0 /\ conns'[c].cut = 0 /\ c \in cs
<1>1. DOMAIN conns = 1 .. Len(conns) /\ \A c \in DOMAIN conns : conns[c] \in ConnType
  BY LenProperties, ElementOfSeq
<1>2. \A c \in DOMAIN conns :
         LET r == [conns[c] EXCEPT !.agent = "closed", !.taken = 0, !.cut = 0]
         IN /\ r \in ConnType /\ r.agent = "closed" /\ r.taken = 0 /\ r.cut = 0
            /\ r.frames = conns[c].frames /\ r.sent = conns[c].sent
  BY <1>1 DEF ConnType
<1>3. /\ DOMAIN conns' = 1 .. Len(conns)
      /\ \A c \in DOMAIN conns :
            conns'[c] = IF c \in cs THEN [conns[c] EXCEPT !.agent = "closed", !.taken = 0, !.cut = 0]
                        ELSE conns[c]
  BY <1>1 DEF Dropped
<1>4. conns' \in [1 .. Len(conns) -> ConnType]
  <2>1. \A c \in 1 .. Len(conns) : conns'[c] \in ConnType
    BY <1>1, <1>2, <1>3
  <2>2. conns' = [c \in 1 .. Len(conns) |-> conns'[c]]
    BY <1>1 DEF Dropped
  <2>3. QED  BY <2>1, <2>2
<1>5. conns' \in Seq(ConnType) /\ Len(conns') = Len(conns)
  BY <1>4, LenProperties, SeqDef
<1>6. \A c \in DOMAIN conns :
         (conns'[c] = conns[c] /\ c \notin cs) \/
            (/\ conns'[c].frames = conns[c].frames /\ conns'[c].sent = conns[c].sent
             /\ conns'[c].agent = "closed" /\ conns'[c].taken = 0 /\ conns'[c].cut = 0 /\ c \in cs)
  <2>1. TAKE c \in DOMAIN conns
  <2>2. CASE c \in cs
    <3>1. conns'[c] = [conns[c] EXCEPT !.agent = "closed", !.taken = 0, !.cut = 0]
      BY <1>3, <2>2
    <3>2. QED  BY <1>2, <2>2, <3>1
  <2>3. CASE c \notin cs
    BY <1>3, <2>3
  <2>4. QED  BY <2>2, <2>3
<1>7. Kept
  BY <1>5, <1>6 DEF Kept
<1>8. QED  BY <1>6, <1>7

\* An accepted connection is served and otherwise as it was.
LEMMA ServeKeeps ==
    ASSUME conns \in Seq(ConnType), NEW c \in DOMAIN conns,
           conns' = [conns EXCEPT ![c].agent = "served"], conns[c].agent = "queued"
    PROVE  /\ Kept
           /\ \A d \in DOMAIN conns : d # c => conns'[d] = conns[d]
           /\ conns'[c].agent = "served" /\ conns'[c].taken = conns[c].taken
           /\ conns'[c].cut = conns[c].cut
<1>1. DOMAIN conns = 1 .. Len(conns) /\ conns[c] \in ConnType
  BY LenProperties, ElementOfSeq
<1> DEFINE r == [conns[c] EXCEPT !.agent = "served"]
<1>2. /\ r \in ConnType /\ r.frames = conns[c].frames /\ r.agent = "served"
      /\ r.taken = conns[c].taken /\ r.cut = conns[c].cut /\ r.sent = conns[c].sent
  BY <1>1 DEF ConnType
<1>3. conns' = [conns EXCEPT ![c] = r]
  BY <1>1, LenProperties
<1> HIDE DEF r
<1>4. conns' \in Seq(ConnType) /\ Len(conns') = Len(conns)
  BY <1>1, <1>2, <1>3, ConnUpdate
<1>5. \A d \in DOMAIN conns : conns'[d] = IF d = c THEN r ELSE conns[d]
  BY <1>1, <1>3, LenProperties
<1>6. QED  BY <1>2, <1>4, <1>5 DEF Kept

\* recv takes bytes of the served connection.
LEMMA ReceivedKeeps ==
    ASSUME conns \in Seq(ConnType), serving \in DOMAIN conns, NEW k \in Nat, Received(k)
    PROVE  /\ Kept
           /\ \A d \in DOMAIN conns : d # serving => conns'[d] = conns[d]
           /\ conns'[serving].agent = conns[serving].agent
           /\ conns'[serving].taken = conns[serving].taken + k
           /\ conns'[serving].cut = conns[serving].cut
<1>1. DOMAIN conns = 1 .. Len(conns) /\ conns[serving] \in ConnType
  BY LenProperties, ElementOfSeq
<1>2. conns[serving].taken \in Nat /\ conns[serving].taken + k \in Nat
  <2>1. conns[serving].taken \in Nat
    BY <1>1 DEF ConnType
  <2>2. QED  BY <2>1, SumIsNat
<1> DEFINE n == conns[serving].taken + k
<1> DEFINE r == [conns[serving] EXCEPT !.taken = n]
<1>3. n \in Nat
  BY <1>2
<1>4. conns' = [conns EXCEPT ![serving] = r]
  BY <1>1, LenProperties DEF Received
<1> HIDE DEF n
<1>5. /\ r \in ConnType /\ r.frames = conns[serving].frames /\ r.agent = conns[serving].agent
      /\ r.taken = n /\ r.cut = conns[serving].cut /\ r.sent = conns[serving].sent
  BY <1>1, <1>3 DEF ConnType
<1> HIDE DEF r
<1>6. conns' \in Seq(ConnType) /\ Len(conns') = Len(conns)
  BY <1>1, <1>4, <1>5, ConnUpdate
<1>7. \A d \in DOMAIN conns : conns'[d] = IF d = serving THEN r ELSE conns[d]
  BY <1>1, <1>4, LenProperties
<1>8. QED  BY <1>5, <1>6, <1>7 DEF Kept, n

-----------------------------------------------------------------------------
(* The invariant. *)

Holding == {"connect", "poll", "connected", "opened", "frame", "write"}
Free    == {"script", "open", "socket", "returned"}

SocketInv ==
    /\ fds = IF IsOpen THEN {socket} ELSE {}
    /\ pc \in Free => ~IsOpen
    /\ pc \in Holding => IsOpen
    /\ ~IsOpen => peer = 0
    /\ pc \in {"connect", "poll"} => peer = 0
    /\ pc \in {"socket", "connect", "poll", "connected", "failed"} => addresses > 0

Fresh(c) == conns[c].frames = <<>> /\ conns[c].sent = 0

\* A connection carries one frame, and no more bytes of it than it has.
Sound(c) ==
    /\ Len(conns[c].frames) <= 1
    /\ conns[c].frames = <<>> => conns[c].sent = 0
    /\ conns[c].frames # <<>> =>
           conns[c].frames[1] \subseteq started /\ conns[c].sent <= FrameBytes(conns[c].frames[1])
    /\ conns[c].taken <= conns[c].sent
    /\ conns[c].cut <= conns[c].sent
    /\ conns[c].agent = "queued" => conns[c].taken = 0

ConnInv == \A c \in DOMAIN conns : Sound(c)

\* Where flush stands in sending its batch, which is what is stored.
FlushInv ==
    /\ stored \subseteq started
    /\ ~marked => stored = {}
    /\ pc = "returned" => stored = {}
    /\ pc \in {"connected", "opened"} /\ peer # 0 => Fresh(peer)
    /\ pc \notin {"frame", "write", "thrown"} => flushes = 0
    /\ pc \in {"frame", "write"} => batch = stored
    /\ pc = "frame" /\ flushes = 0 => wbuf = PayloadOf[batch] /\ (peer # 0 => Fresh(peer))
    /\ pc = "frame" /\ flushes # 0 =>
           wbuf = 0 /\ peer # 0 /\ conns[peer].frames = <<batch>> /\ SentWhole(peer)
    /\ pc = "write" =>
           /\ wbuf = 0 /\ flushes # 0 /\ out > 0
           /\ peer # 0 => conns[peer].frames = <<batch>> /\ conns[peer].sent + out = FrameBytes(batch)

\* The agent has read what it got of the first frame, or all there is.
ReaderInv ==
    /\ serving = 0 => nth = 1
    /\ serving # 0 =>
           /\ conns[serving].agent = "served"
           /\ nth \in {1, 2}
           /\ nth = 1 => conns[serving].taken = got
           /\ nth = 2 => SentWhole(serving) /\ conns[serving].taken = conns[serving].sent

\* Frames that were sent whole have no span in common, nor any that is stored,
\* but for the frame flush has just sent.
SentApart ==
    /\ \A c, d \in DOMAIN conns : c # d /\ SentWhole(c) /\ SentWhole(d) =>
           conns[c].frames[1] \cap conns[d].frames[1] = {}
    /\ \A c \in DOMAIN conns : SentWhole(c) /\ (c = peer => pc # "frame") =>
           conns[c].frames[1] \cap stored = {}

\* The agent will not read the first frame of c again.
ReadOff(c) == conns[c].agent = "closed" \/ (c = serving /\ nth = 2)

AcceptedInv ==
    \A i \in DOMAIN accepted : \E c \in DOMAIN conns :
        SentWhole(c) /\ accepted[i] = conns[c].frames[1] /\ ReadOff(c)

Sending == ConnInv /\ FlushInv /\ SentApart
Reading == ReaderInv /\ AcceptedInv

IInv ==
    /\ TypeOK /\ SocketInv /\ Sending /\ Reading
    /\ AcceptedOnce /\ SpansKeptUntilSent

-----------------------------------------------------------------------------
(* What steps do. *)

\* What is the same after every step of the worker.
Unread ==
    /\ conns' \in Seq(ConnType)
    /\ DOMAIN conns \subseteq DOMAIN conns'
    /\ \A c \in DOMAIN conns :
          /\ conns'[c].agent = conns[c].agent /\ conns'[c].taken = conns[c].taken
          /\ SentWhole(c) => conns'[c].frames = conns[c].frames /\ conns'[c].sent = conns[c].sent

\* A frame has a header and at least a byte.
LEMMA Payload ==
    ASSUME NEW b \in Batches
    PROVE  PayloadOf[b] \in Nat /\ PayloadOf[b] > 0 /\ FrameBytes(b) \in Nat /\ FrameBytes(b) > HeaderBytes
<1>1. PayloadOf[b] \in Nat \ {0}
  BY LoopbackAssumption
<1>2. QED  BY <1>1 DEF FrameBytes, HeaderBytes

\* The parts of a connection have their types.
LEMMA ConnTypes ==
    ASSUME TypeOK, NEW c \in DOMAIN conns
    PROVE  /\ DOMAIN conns = 1 .. Len(conns) /\ Len(conns) \in Nat
           /\ conns[c] \in ConnType
           /\ conns[c].sent \in Nat /\ conns[c].taken \in Nat /\ conns[c].cut \in Nat
           /\ conns[c].frames \in Seq(Batches)
           /\ conns[c].frames # <<>> => conns[c].frames[1] \in Batches
<1>1. conns \in Seq(ConnType)
  BY DEF TypeOK
<1>2. DOMAIN conns = 1 .. Len(conns) /\ Len(conns) \in Nat /\ conns[c] \in ConnType
  BY <1>1, LenProperties, ElementOfSeq
<1>3. conns[c].frames \in Seq(Batches)
  BY <1>2 DEF ConnType
<1>4. conns[c].frames # <<>> => conns[c].frames[1] \in Batches
  BY <1>3, EmptySeq, LenProperties, ElementOfSeq
<1>5. QED  BY <1>2, <1>3, <1>4 DEF ConnType

\* Connections that stay the same leave the reader's alone.
LEMMA SameUnread ==
    ASSUME conns \in Seq(ConnType), conns' = conns
    PROVE  Unread
BY DEF Unread

\* The worker's hang-up takes nothing that was read.
LEMMA HangUpUnread ==
    ASSUME conns \in Seq(ConnType), peer \in 0 .. Len(conns), NEW l \in BOOLEAN,
           HangUpWorker(peer, l)
    PROVE  Unread
<1>1. DOMAIN conns = 1 .. Len(conns) /\ (conns' \in Seq(ConnType) => DOMAIN conns' = 1 .. Len(conns'))
  BY LenProperties
<1>2. QED  BY <1>1, HangUpWorkerKeeps DEF Unread, Kept

\* A new connection has nothing read.
LEMMA EstablishedUnread ==
    ASSUME conns \in Seq(ConnType), NEW l, Established(l)
    PROVE  Unread
BY EstablishedGrows DEF Unread

\* Sending reads nothing.
LEMMA SendUnread ==
    ASSUME TypeOK, Sending, Send
    PROVE  Unread
<1>1. /\ conns \in Seq(ConnType) /\ peer \in 0 .. Len(conns) /\ out \in Nat /\ pc = "write"
  BY DEF TypeOK, Send
<1>2. DOMAIN conns = 1 .. Len(conns) /\ (conns' \in Seq(ConnType) => DOMAIN conns' = 1 .. Len(conns'))
  BY <1>1, LenProperties
<1>3. peer \in DOMAIN conns /\ peer # 0
  BY <1>1, <1>2, SendToPeer
<1>4. conns[peer].frames = <<batch>> /\ conns[peer].sent + out = FrameBytes(batch) /\ out > 0
  BY <1>1, <1>3 DEF Sending, FlushInv
<1>5. ~SentWhole(peer)
  <2>1. conns[peer].frames[1] = batch
    BY <1>4
  <2>2. conns[peer].sent \in Nat
    BY <1>3, ConnTypes
  <2>3. QED  BY <1>1, <1>4, <2>1, <2>2 DEF SentWhole
<1>6. QED  BY <1>1, <1>2, <1>5, SendToPeer DEF Unread

\* The begin of a frame reads nothing.
LEMMA BegunUnread ==
    ASSUME TypeOK, Sending, FrameFlush
    PROVE  Unread
<1>1. /\ conns \in Seq(ConnType) /\ peer \in 0 .. Len(conns) /\ batch \in Batches
      /\ conns' = Begun /\ pc = "frame" /\ wbuf > 0
  BY DEF TypeOK, FrameFlush
<1>2. DOMAIN conns = 1 .. Len(conns) /\ (conns' \in Seq(ConnType) => DOMAIN conns' = 1 .. Len(conns'))
  BY <1>1, LenProperties
<1>3. peer # 0 => ~SentWhole(peer)
  BY <1>1 DEF Sending, FlushInv, SentWhole, Fresh
<1>4. \A c \in DOMAIN conns : SentWhole(c) => c # peer
  BY <1>2, <1>3
<1>5. QED  BY <1>1, <1>2, <1>4, BegunAtPeer DEF Unread

\* The steps of the worker: what the agent sees of them.
WorkerStep == Script \/ FlushStep \/ Signal

\* No step of the worker reads.
LEMMA WorkerUnread ==
    ASSUME TypeOK, Sending, WorkerStep
    PROVE  Unread /\ UNCHANGED readerVars
<1>1. /\ conns \in Seq(ConnType) /\ peer \in 0 .. Len(conns) /\ linger \in BOOLEAN
  BY DEF TypeOK
<1>2. CASE Script
  BY <1>1, <1>2, SameUnread DEF Script, NewTracer, StartSpan, CallFlush, ScriptOnly
<1>3. CASE Signal
  BY <1>1, <1>3, SameUnread DEF Signal, SendInterrupted
<1>4. CASE SocketStep(listening) /\ UNCHANGED <<readerVars, tracerVars, caller, frameVars>>
  <2>1. CASE LocalOpen
    BY <1>1, <1>4, <2>1, SameUnread, HangUpUnread DEF LocalOpen, Close
  <2>2. CASE OpenSocket
    BY <1>1, <1>4, <2>2, SameUnread DEF OpenSocket
  <2>3. CASE Connect(listening)
    BY <1>1, <1>4, <2>3, SameUnread, EstablishedUnread DEF Connect, NotEstablished
  <2>4. CASE Poll(listening)
    BY <1>1, <1>4, <2>4, SameUnread, EstablishedUnread DEF Poll, NotEstablished
  <2>5. CASE Connected
    BY <1>1, <1>4, <2>5, SameUnread DEF Connected
  <2>6. CASE CatchOpen
    BY <1>1, <1>4, <2>6, HangUpUnread DEF CatchOpen, Close
  <2>7. CASE Send
    BY <1>1, <1>4, <2>7, SendUnread
  <2>8. CASE SendFails
    BY <1>1, <1>4, <2>8, SameUnread DEF SendFails
  <2>9. QED  BY <1>4, <2>1, <2>2, <2>3, <2>4, <2>5, <2>6, <2>7, <2>8 DEF SocketStep
<1>5. CASE EmitBatch \/ FrameFlushNothing
  BY <1>1, <1>5, SameUnread DEF EmitBatch, FrameFlushNothing
<1>6. CASE FrameFlush
  BY <1>6, BegunUnread DEF FrameFlush
<1>7. CASE CloseAndClear \/ ThrowToScript \/ WorkerDies
  BY <1>1, <1>7, HangUpUnread DEF CloseAndClear, ThrowToScript, WorkerDies, Close
<1>8. CASE ReturnToScript \/ ReturnToOnIdle \/ ReturnToDelete
  BY <1>1, <1>8, SameUnread DEF ReturnToScript, ReturnToOnIdle, ReturnToDelete, ScriptOnly
<1>9. QED  BY <1>2, <1>3, <1>4, <1>5, <1>6, <1>7, <1>8 DEF WorkerStep, FlushStep

\* What recv returns belongs to the first frame and was sent.
LEMMA RecvReturns ==
    ASSUME TypeOK, ConnInv, ReaderInv, RecvData
    PROVE  /\ serving \in DOMAIN conns /\ serving # 0 /\ nth = 1 /\ Frame \in Batches
           /\ conns[serving].frames # <<>> /\ Frame = conns[serving].frames[1]
           /\ conns[serving].sent <= FrameBytes(Frame)
           /\ \E k \in Nat \ {0} :
                 /\ conns[serving].taken + k <= conns[serving].sent
                 /\ got + k <= FrameBytes(Frame)
                 /\ conns[serving].taken = got
                 /\ ReadSome(k) \/ ReadTheRest(k) \/ (got + k = HeaderBytes /\ HangUp)
<1>1. /\ conns \in Seq(ConnType) /\ serving \in 0 .. Len(conns) /\ got \in Nat
      /\ serving # 0 /\ Available(serving) > 0
  BY DEF TypeOK, RecvData
<1>2. serving \in DOMAIN conns
  BY <1>1, LenProperties
<1>3. /\ conns[serving].sent \in Nat /\ conns[serving].taken \in Nat /\ conns[serving].cut \in Nat
      /\ conns[serving].frames # <<>> => conns[serving].frames[1] \in Batches
  BY <1>2, ConnTypes
<1>4. Sound(serving)
  BY <1>2 DEF ConnInv
<1>5. /\ Available(serving) \in Int /\ Available(serving) > 0
      /\ conns[serving].taken + Available(serving) <= conns[serving].sent
  BY <1>1, <1>3, <1>4 DEF Available, Sound
<1>6. conns[serving].taken < conns[serving].sent
  BY <1>3, <1>5
<1>7. nth = 1 /\ conns[serving].taken = got
  BY <1>1, <1>3, <1>6 DEF ReaderInv
<1>8. conns[serving].frames # <<>>
  BY <1>3, <1>4, <1>6 DEF Sound
<1>9. Frame = conns[serving].frames[1] /\ Frame \in Batches
  BY <1>3, <1>7, <1>8 DEF Frame
<1>10. conns[serving].sent <= FrameBytes(Frame)
  BY <1>4, <1>8, <1>9 DEF Sound
<1>11. FrameBytes(Frame) \in Nat
  BY <1>9, Payload
<1>12. Want \in Nat /\ Want > 0 /\ got + Want <= FrameBytes(Frame)
  <2>1. got < FrameBytes(Frame)
    BY <1>1, <1>3, <1>6, <1>7, <1>10, <1>11
  <2>2. FrameBytes(Frame) > HeaderBytes
    BY <1>9, Payload
  <2>3. QED  BY <1>1, <1>11, <2>1, <2>2 DEF Want, HeaderBytes
<1> DEFINE k == IF Available(serving) < Want THEN Available(serving) ELSE Want
<1>13. k \in Nat \ {0} /\ k <= Want /\ k <= Available(serving)
  BY <1>5, <1>12
<1>14. ReadSome(k) \/ ReadTheRest(k) \/ ReadOversized(k)
  BY DEF RecvData
<1> HIDE DEF k
<1>15. conns[serving].taken + k <= conns[serving].sent
  BY <1>3, <1>5, <1>13
<1>16. got + k <= FrameBytes(Frame)
  BY <1>1, <1>11, <1>12, <1>13
<1>17. ReadSome(k) \/ ReadTheRest(k) \/ (got + k = HeaderBytes /\ HangUp)
  BY <1>14 DEF ReadOversized
<1>18. QED  BY <1>1, <1>2, <1>7, <1>8, <1>9, <1>10, <1>13, <1>15, <1>16, <1>17

\* What the agent can do, the counts of RecvData aside; the worker stands still.
LEMMA AgentCases ==
    ASSUME TypeOK, ConnInv, ReaderInv, AgentStep \/ AgentFails
    PROVE  /\ WorkerIdle
           /\ \/ \E c \in DOMAIN conns : Serve(c)
              \/ RecvData
              \/ serving # 0 /\ HangUp
              \/ Retry
              \/ AgentStops \/ AgentStarts
<1>1. WorkerIdle
  BY DEF AgentStep, AgentFails
<1>2. CASE ReaderStep
  BY <1>1, <1>2 DEF ReaderStep, RecvEnd
<1>3. CASE RecvFails
  BY <1>1, <1>3 DEF RecvFails
<1>4. ASSUME NEW w \in Waits, Interrupted(w) \/ Again(w)
      PROVE  (serving # 0 /\ HangUp) \/ Retry
  BY <1>4 DEF Interrupted, Again, RecvWaits
<1>5. QED  BY <1>1, <1>2, <1>3, <1>4 DEF AgentStep, AgentFails, ReaderErrors

-----------------------------------------------------------------------------
(* Steps of the agent. *)

\* The agent changes no frames and no bytes that were sent.
LEMMA AgentKeeps ==
    ASSUME TypeOK, ConnInv, ReaderInv, AgentStep \/ AgentFails
    PROVE  Kept /\ WorkerIdle
<1> SUFFICES Kept
  BY AgentCases
<1>1. conns \in Seq(ConnType)
  BY DEF TypeOK
<1>2. CASE \E c \in DOMAIN conns : Serve(c)
  BY <1>1, <1>2, ServeKeeps DEF Serve
<1>3. CASE RecvData
  <2>1. PICK k \in Nat : ReadSome(k) \/ ReadTheRest(k) \/ HangUp
    BY <1>3, RecvReturns
  <2>2. CASE HangUp
    BY <1>1, <2>2, DroppedKeeps DEF HangUp
  <2>3. CASE Received(k)
    BY <1>1, <1>3, <2>3, RecvReturns, ReceivedKeeps
  <2>4. QED  BY <2>1, <2>2, <2>3 DEF ReadSome, ReadTheRest
<1>4. CASE HangUp
  BY <1>1, <1>4, DroppedKeeps DEF HangUp
<1>5. CASE conns' = conns
  BY <1>1, <1>5 DEF Kept
<1>6. CASE AgentStops
  BY <1>1, <1>6, DroppedKeeps DEF AgentStops
<1>7. QED
  <2>1. Retry => conns' = conns
    BY DEF Retry
  <2>2. AgentStarts => conns' = conns
    BY DEF AgentStarts
  <2>3. QED  BY <1>2, <1>3, <1>4, <1>5, <1>6, <2>1, <2>2, AgentCases

\* No connection is lost or made.
LEMMA KeptDomain ==
    ASSUME TypeOK, Kept
    PROVE  DOMAIN conns = 1 .. Len(conns) /\ DOMAIN conns' = DOMAIN conns /\ Len(conns') = Len(conns)
           /\ Len(conns) \in Nat
BY LenProperties DEF TypeOK, Kept

\* What was sent whole stays so.
LEMMA KeptWhole ==
    ASSUME TypeOK, Kept
    PROVE  \A c \in DOMAIN conns : SentWhole(c)' <=> SentWhole(c)
BY DEF Kept, SentWhole, FrameBytes, HeaderBytes

\* The reader's variables after each of its steps.
LEMMA AgentReaderType ==
    ASSUME TypeOK, ConnInv, ReaderInv, AgentStep \/ AgentFails
    PROVE  /\ listening' \in BOOLEAN /\ serving' \in 0 .. Len(conns)
           /\ recvTimeout' \in RecvTimeouts \cup {0}
           /\ nth' \in Nat \ {0} /\ got' \in Nat
           /\ retries' \in 0 .. MaxRecvRetries
           /\ accepted' \in Seq(Batches)
<1>1. /\ listening \in BOOLEAN /\ serving \in 0 .. Len(conns)
      /\ recvTimeout \in RecvTimeouts \cup {0}
      /\ nth \in Nat \ {0} /\ got \in Nat
      /\ retries \in 0 .. MaxRecvRetries
      /\ accepted \in Seq(Batches) /\ conns \in Seq(ConnType)
  BY DEF TypeOK
<1>2. MaxRecvRetries \in Nat /\ Len(conns) \in Nat /\ DOMAIN conns = 1 .. Len(conns)
  BY <1>1, ReaderAssumption, LenProperties
<1>3. CASE \E c \in DOMAIN conns : Serve(c)
  BY <1>1, <1>2, <1>3 DEF Serve
<1>4. CASE RecvData
  <2>1. PICK k \in Nat \ {0} : ReadSome(k) \/ ReadTheRest(k) \/ HangUp
    BY <1>4, RecvReturns
  <2>2. CASE ReadSome(k)
    BY <1>1, <1>2, <2>2 DEF ReadSome, Received
  <2>3. CASE ReadTheRest(k)
    <3>1. accepted' \in Seq(Batches)
      BY <1>1, <1>4, <2>3, RecvReturns, AppendProperties DEF ReadTheRest
    <3>2. QED  BY <1>1, <1>2, <2>3, <3>1 DEF ReadTheRest, Received
  <2>4. CASE HangUp
    BY <1>1, <1>2, <2>4 DEF HangUp
  <2>5. QED  BY <2>1, <2>2, <2>3, <2>4
<1>5. CASE HangUp
  BY <1>1, <1>2, <1>5 DEF HangUp
<1>6. ASSUME Retry
      PROVE  /\ listening' \in BOOLEAN /\ serving' \in 0 .. Len(conns)
             /\ recvTimeout' \in RecvTimeouts \cup {0}
             /\ nth' \in Nat \ {0} /\ got' \in Nat
             /\ retries' \in 0 .. MaxRecvRetries
             /\ accepted' \in Seq(Batches)
  <2>1. retries < MaxRecvRetries /\ retries' = retries + 1
    BY <1>6 DEF Retry
  <2>2. retries' \in 0 .. MaxRecvRetries
    BY <1>1, <1>2, <2>1
  <2>3. QED  BY <1>1, <1>6, <2>2 DEF Retry
<1>7. CASE AgentStops
  <2>1. /\ listening' = FALSE /\ serving' = 0 /\ recvTimeout' = 0
        /\ nth' = 1 /\ got' = 0 /\ retries' = 0 /\ accepted' = accepted
    BY <1>7 DEF AgentStops
  <2>2. listening' \in BOOLEAN
    BY <2>1
  <2>3. QED  BY <1>1, <1>2, <2>1, <2>2
<1>8. CASE AgentStarts
  <2>1. /\ listening' = TRUE /\ serving' = serving /\ recvTimeout' = recvTimeout
        /\ nth' = nth /\ got' = got /\ retries' = retries
        /\ accepted' = accepted
    BY <1>8 DEF AgentStarts
  <2>2. QED  BY <1>1, <2>1
<1>9. QED  BY <1>3, <1>4, <1>5, <1>6, <1>7, <1>8, AgentCases

\* The agent keeps the types.
LEMMA AgentTypeOK ==
    ASSUME TypeOK, ConnInv, ReaderInv, AgentStep \/ AgentFails
    PROVE  TypeOK'
<1>1. Kept /\ WorkerIdle
  BY AgentKeeps
<1>2. conns' \in Seq(ConnType) /\ Len(conns') = Len(conns)
  BY <1>1 DEF Kept
<1>3. QED
  BY <1>1, <1>2, AgentReaderType
  DEF TypeOK, WorkerIdle, socketVars, tracerVars, frameVars

\* The agent keeps what is known of connections.
LEMMA AgentConnInv ==
    ASSUME TypeOK, ConnInv, ReaderInv, AgentStep \/ AgentFails
    PROVE  ConnInv'
<1> SUFFICES ASSUME NEW c \in DOMAIN conns'
             PROVE  Sound(c)'
  BY DEF ConnInv
<1>1. Kept /\ WorkerIdle
  BY AgentKeeps
<1>2. c \in DOMAIN conns /\ conns \in Seq(ConnType) /\ DOMAIN conns = 1 .. Len(conns)
  BY <1>1, KeptDomain DEF TypeOK
<1>3. Sound(c) /\ conns[c].sent \in Nat /\ conns[c].taken \in Nat /\ conns[c].cut \in Nat
  BY <1>2, ConnTypes DEF ConnInv
<1>4. conns'[c].frames = conns[c].frames /\ conns'[c].sent = conns[c].sent /\ started' = started
  BY <1>1, <1>2 DEF Kept, WorkerIdle, tracerVars
<1>5. /\ conns'[c].taken <= conns'[c].sent /\ conns'[c].cut <= conns'[c].sent
      /\ conns'[c].agent = "queued" => conns'[c].taken = 0
  <2>1. CASE conns'[c] = conns[c]
    BY <1>3, <1>4, <2>1 DEF Sound
  <2>2. CASE conns'[c].agent = "closed" /\ conns'[c].taken = 0 /\ conns'[c].cut = 0
    BY <1>3, <1>4, <2>2
  <2>3. ASSUME NEW d \in DOMAIN conns, Serve(d)
        PROVE  conns'[c] = conns[c] \/
               (conns'[c].agent = "served" /\ conns'[c].taken = conns[c].taken /\ conns'[c].cut = conns[c].cut)
    BY <1>2, <2>3, ServeKeeps DEF Serve
  <2>4. CASE conns'[c].agent = "served" /\ conns'[c].taken = conns[c].taken /\ conns'[c].cut = conns[c].cut
    BY <1>3, <1>4, <2>4 DEF Sound
  <2>5. HangUp \/ AgentStops => conns'[c] = conns[c] \/
            (conns'[c].agent = "closed" /\ conns'[c].taken = 0 /\ conns'[c].cut = 0)
    BY <1>2, DroppedKeeps DEF HangUp, AgentStops
  <2>6. CASE RecvData
    <3>1. PICK k \in Nat \ {0} :
             /\ conns[serving].taken + k <= conns[serving].sent
             /\ Received(k) \/ HangUp
      BY <2>6, RecvReturns DEF ReadSome, ReadTheRest
    <3>2. serving \in DOMAIN conns /\ serving # 0
      BY <2>6, RecvReturns
    <3>3. CASE Received(k)
      <4>1. conns[serving].agent = "served"
        BY <3>2 DEF ReaderInv
      <4>2. CASE c = serving
        BY <1>2, <1>3, <1>4, <3>1, <3>3, <4>1, <4>2, ReceivedKeeps DEF Sound
      <4>3. CASE c # serving
        BY <1>2, <2>1, <3>2, <3>3, <4>3, ReceivedKeeps
      <4>4. QED  BY <4>2, <4>3
    <3>4. QED  BY <2>1, <2>2, <2>5, <3>1, <3>3
  <2>7. Retry => conns'[c] = conns[c]
    BY DEF Retry
  <2>8. AgentStarts => conns'[c] = conns[c]
    BY DEF AgentStarts
  <2>9. QED  BY <2>1, <2>2, <2>3, <2>4, <2>5, <2>6, <2>7, <2>8, AgentCases
<1>6. QED
  BY <1>3, <1>4, <1>5 DEF Sound, FrameBytes, HeaderBytes

\* The agent keeps what is known of the connection it reads.
LEMMA AgentReaderInv ==
    ASSUME TypeOK, ConnInv, ReaderInv, AgentStep \/ AgentFails
    PROVE  ReaderInv'
<1>1. /\ conns \in Seq(ConnType) /\ serving \in 0 .. Len(conns) /\ got \in Nat
      /\ DOMAIN conns = 1 .. Len(conns) /\ Len(conns) \in Nat
  BY LenProperties DEF TypeOK
<1>2. serving # 0 => serving \in DOMAIN conns
  BY <1>1
<1>3. CASE serving' = 0 /\ nth' = 1
  BY <1>3 DEF ReaderInv
<1>4. ASSUME NEW c \in DOMAIN conns, Serve(c)
      PROVE  ReaderInv'
  <2>1. conns'[c].agent = "served" /\ conns'[c].taken = conns[c].taken
    BY <1>1, <1>4, ServeKeeps DEF Serve
  <2>2. conns[c].taken = 0
    BY <1>4 DEF Serve, ConnInv, Sound
  <2>3. serving' = c /\ nth' = 1 /\ got' = 0
    BY <1>4 DEF Serve
  <2>4. QED  BY <1>1, <2>1, <2>2, <2>3 DEF ReaderInv
<1>5. CASE RecvData
  <2>1. /\ serving \in DOMAIN conns /\ serving # 0 /\ nth = 1 /\ Frame \in Batches
        /\ conns[serving].frames # <<>> /\ Frame = conns[serving].frames[1]
        /\ conns[serving].sent <= FrameBytes(Frame) /\ conns[serving].agent = "served"
    BY <1>5, RecvReturns DEF ReaderInv
  <2>2. PICK k \in Nat \ {0} :
           /\ conns[serving].taken + k <= conns[serving].sent
           /\ got + k <= FrameBytes(Frame)
           /\ conns[serving].taken = got
           /\ ReadSome(k) \/ ReadTheRest(k) \/ HangUp
    BY <1>5, RecvReturns
  <2>3. ASSUME Received(k)
        PROVE  /\ conns'[serving].agent = "served" /\ conns'[serving].taken = got + k
               /\ conns'[serving].sent = conns[serving].sent
               /\ conns'[serving].frames = conns[serving].frames
               /\ serving' = serving
    BY <1>1, <2>1, <2>2, <2>3, ReceivedKeeps DEF Kept, Received
  <2>4. CASE ReadSome(k)
    <3>1. nth' = 1 /\ got' = got + k /\ Received(k)
      BY <2>1, <2>4 DEF ReadSome
    <3>2. QED  BY <2>1, <2>3, <3>1 DEF ReaderInv
  <2>5. CASE ReadTheRest(k)
    <3>1. nth' = 2 /\ got' = 0 /\ Received(k) /\ got + k = FrameBytes(Frame)
      BY <2>1, <2>5 DEF ReadTheRest
    <3>2. conns[serving].sent \in Nat /\ FrameBytes(Frame) \in Nat
      BY <2>1, ConnTypes, Payload
    <3>3. conns[serving].sent = FrameBytes(Frame)
      BY <2>1, <2>2, <3>1, <3>2
    <3>4. SentWhole(serving)'
      BY <2>1, <2>3, <3>1, <3>3 DEF SentWhole, FrameBytes, HeaderBytes
    <3>5. QED  BY <2>1, <2>3, <3>1, <3>3, <3>4 DEF ReaderInv
  <2>6. CASE HangUp
    BY <1>3, <2>6 DEF HangUp
  <2>7. QED  BY <2>2, <2>4, <2>5, <2>6
<1>6. CASE conns' = conns /\ serving' = serving /\ nth' = nth /\ got' = got
  BY <1>6 DEF ReaderInv, SentWhole, FrameBytes, HeaderBytes
<1>7. Retry => ReaderInv'
  BY <1>6 DEF Retry
<1>8. AgentStarts => ReaderInv'
  BY <1>6 DEF AgentStarts
<1>9. HangUp \/ AgentStops => ReaderInv'
  BY <1>3 DEF HangUp, AgentStops
<1>10. QED  BY <1>4, <1>5, <1>7, <1>8, <1>9, AgentCases

\* accepted, and whether c is read off.
LEMMA AgentReads ==
    ASSUME TypeOK, ConnInv, ReaderInv, AgentStep \/ AgentFails
    PROVE  \/ accepted' = accepted /\ \A c \in DOMAIN conns : ReadOff(c) => ReadOff(c)'
           \/ /\ \A c \in DOMAIN conns : ReadOff(c) => ReadOff(c)'
              /\ \E c \in DOMAIN conns :
                    /\ ~ReadOff(c) /\ ReadOff(c)' /\ SentWhole(c)
                    /\ accepted' = Append(accepted, conns[c].frames[1])
<1>1. Kept
  BY AgentKeeps
<1>2. \A c \in DOMAIN conns : conns[c].agent = "closed" => conns'[c].agent = "closed"
  BY <1>1 DEF Kept
<1>3. conns \in Seq(ConnType)
  BY DEF TypeOK
<1>4. ASSUME NEW c, Serve(c)
      PROVE  accepted' = accepted /\ \A d \in DOMAIN conns : ReadOff(d) => ReadOff(d)'
  <2>1. accepted' = accepted /\ serving = 0 /\ nth = 1
    BY <1>4 DEF Serve, ReaderInv
  <2>2. QED  BY <1>2, <2>1 DEF ReadOff
<1>5. CASE HangUp
  <2>1. accepted' = accepted /\ conns' = Dropped({serving})
    BY <1>5 DEF HangUp
  <2>2. \A c \in DOMAIN conns : c = serving => conns'[c].agent = "closed"
    BY <1>3, <2>1, DroppedKeeps
  <2>3. QED  BY <1>2, <2>1, <2>2 DEF ReadOff
<1>6. CASE RecvData
  <2>1. /\ serving \in DOMAIN conns /\ serving # 0 /\ nth = 1 /\ Frame \in Batches
        /\ conns[serving].frames # <<>> /\ Frame = conns[serving].frames[1]
        /\ conns[serving].sent <= FrameBytes(Frame) /\ conns[serving].agent = "served"
    BY <1>6, RecvReturns DEF ReaderInv
  <2>2. PICK k \in Nat \ {0} :
           /\ conns[serving].taken + k <= conns[serving].sent
           /\ conns[serving].taken = got
           /\ ReadSome(k) \/ ReadTheRest(k) \/ HangUp
    BY <1>6, RecvReturns
  <2>3. CASE ReadSome(k)
    BY <1>2, <2>1, <2>3 DEF ReadSome, Received, ReadOff
  <2>4. CASE ReadTheRest(k)
    <3>1. /\ nth' = 2 /\ serving' = serving /\ accepted' = Append(accepted, Frame)
          /\ got + k = FrameBytes(Frame)
      BY <2>1, <2>4 DEF ReadTheRest, Received
    <3>2. conns[serving].sent \in Nat /\ FrameBytes(Frame) \in Nat
      BY <2>1, ConnTypes, Payload
    <3>3. conns[serving].sent = FrameBytes(Frame)
      BY <2>1, <2>2, <3>1, <3>2
    <3>4. SentWhole(serving)
      BY <2>1, <3>3 DEF SentWhole
    <3>5. \A c \in DOMAIN conns : c = serving => ~ReadOff(c) /\ ReadOff(c)'
      BY <2>1, <3>1 DEF ReadOff
    <3>6. \A c \in DOMAIN conns : ReadOff(c) => ReadOff(c)'
      BY <1>2, <3>1 DEF ReadOff
    <3>7. PICK c \in DOMAIN conns : c = serving
      BY <2>1
    <3>8. QED  BY <2>1, <3>1, <3>4, <3>5, <3>6, <3>7
  <2>5. QED  BY <1>5, <2>2, <2>3, <2>4
<1>7. ASSUME Retry
      PROVE  accepted' = accepted /\ \A d \in DOMAIN conns : ReadOff(d) => ReadOff(d)'
  BY <1>7 DEF Retry, ReadOff
<1>8. CASE AgentStarts
  BY <1>8 DEF AgentStarts, ReadOff
<1>9. CASE AgentStops
  <2>1. accepted' = accepted /\ \A c \in DOMAIN conns : conns'[c].agent = "closed"
    BY <1>3, <1>9, DroppedKeeps DEF AgentStops
  <2>2. QED  BY <2>1 DEF ReadOff
<1>10. QED  BY <1>4, <1>5, <1>6, <1>7, <1>8, <1>9, AgentCases

\* The agent accepts only what was sent whole, and that once.
LEMMA AgentAccepted ==
    ASSUME IInv, AgentStep \/ AgentFails
    PROVE  AcceptedInv' /\ AcceptedOnce'
<1>1. TypeOK /\ ConnInv /\ ReaderInv /\ SentApart /\ AcceptedInv /\ AcceptedOnce
  BY DEF IInv, Sending, Reading
<1>2. Kept /\ started' = started
  BY <1>1, AgentKeeps DEF WorkerIdle, tracerVars
<1>3. /\ DOMAIN conns' = DOMAIN conns
      /\ \A c \in DOMAIN conns : SentWhole(c)' <=> SentWhole(c)
      /\ \A c \in DOMAIN conns : conns'[c].frames = conns[c].frames
  BY <1>1, <1>2, KeptDomain, KeptWhole DEF Kept
<1>4. CASE accepted' = accepted /\ \A c \in DOMAIN conns : ReadOff(c) => ReadOff(c)'
  <2>1. AcceptedInv'
    BY <1>1, <1>3, <1>4 DEF AcceptedInv
  <2>2. QED  BY <1>1, <1>2, <1>4, <2>1 DEF AcceptedOnce
<1>5. ASSUME NEW r \in DOMAIN conns, ~ReadOff(r), ReadOff(r)', SentWhole(r),
             accepted' = Append(accepted, conns[r].frames[1]),
             \A c \in DOMAIN conns : ReadOff(c) => ReadOff(c)'
      PROVE  AcceptedInv' /\ AcceptedOnce'
  <2> DEFINE f == conns[r].frames[1]
  <2>1. f \in Batches /\ f \subseteq started
    BY <1>1, <1>5, ConnTypes DEF SentWhole, ConnInv, Sound
  <2>2. accepted \in Seq(Batches) /\ DOMAIN accepted = 1 .. Len(accepted) /\ Len(accepted) \in Nat
    BY <1>1, LenProperties DEF TypeOK
  <2>3. accepted' = Append(accepted, f)
    BY <1>5
  <2> HIDE DEF f
  <2>4. /\ DOMAIN accepted' = 1 .. Len(accepted) + 1
        /\ \A i \in DOMAIN accepted : accepted'[i] = accepted[i]
        /\ accepted'[Len(accepted) + 1] = f
    BY <2>1, <2>2, <2>3, AppendProperties, LenProperties
  <2>5. AcceptedInv'
    <3> SUFFICES ASSUME NEW i \in DOMAIN accepted'
                 PROVE  \E c \in DOMAIN conns :
                           SentWhole(c)' /\ accepted'[i] = conns'[c].frames[1] /\ ReadOff(c)'
      BY <1>3 DEF AcceptedInv
    <3>1. CASE i \in DOMAIN accepted
      BY <1>1, <1>3, <1>5, <2>4, <3>1 DEF AcceptedInv
    <3>2. CASE i = Len(accepted) + 1
      BY <1>3, <1>5, <2>4, <3>2 DEF f
    <3>3. QED  BY <2>2, <2>4, <3>1, <3>2
  <2>6. \A i \in DOMAIN accepted : accepted[i] \cap f = {}
    <3> SUFFICES ASSUME NEW i \in DOMAIN accepted  PROVE accepted[i] \cap f = {}
      OBVIOUS
    <3>1. PICK c \in DOMAIN conns : SentWhole(c) /\ accepted[i] = conns[c].frames[1] /\ ReadOff(c)
      BY <1>1 DEF AcceptedInv
    <3>2. c # r
      BY <1>5, <3>1
    <3>3. QED  BY <1>1, <1>5, <3>1, <3>2 DEF SentApart, f
  <2>7. \A i \in DOMAIN accepted' : accepted'[i] \subseteq started'
    BY <1>1, <1>2, <2>1, <2>2, <2>4 DEF AcceptedOnce
  <2>8. ASSUME NEW i \in DOMAIN accepted', NEW j \in DOMAIN accepted', i # j
        PROVE  accepted'[i] \cap accepted'[j] = {}
    <3>1. CASE i \in DOMAIN accepted /\ j \in DOMAIN accepted
      BY <1>1, <2>4, <2>8, <3>1 DEF AcceptedOnce
    <3>2. CASE i \notin DOMAIN accepted
      <4>1. i = Len(accepted) + 1 /\ j \in DOMAIN accepted
        BY <2>2, <2>4, <2>8, <3>2
      <4>2. QED  BY <2>4, <2>6, <4>1
    <3>3. CASE j \notin DOMAIN accepted
      <4>1. j = Len(accepted) + 1 /\ i \in DOMAIN accepted
        BY <2>2, <2>4, <2>8, <3>3
      <4>2. QED  BY <2>4, <2>6, <4>1
    <3>4. QED  BY <3>1, <3>2, <3>3
  <2>9. QED  BY <2>5, <2>7, <2>8 DEF AcceptedOnce
<1>6. QED  BY <1>1, <1>4, <1>5, AgentReads

\* The agent leaves the worker's side of the invariant alone.
LEMMA AgentSending ==
    ASSUME IInv, AgentStep \/ AgentFails
    PROVE  SocketInv' /\ FlushInv' /\ SentApart' /\ SpansKeptUntilSent'
<1>1. /\ TypeOK /\ SocketInv /\ ConnInv /\ FlushInv /\ SentApart /\ ReaderInv /\ SpansKeptUntilSent
  BY DEF IInv, Sending, Reading
<1>2. Kept
  BY <1>1, AgentKeeps
<1>3. /\ pc' = pc /\ socket' = socket /\ fds' = fds /\ peer' = peer /\ addresses' = addresses
      /\ out' = out /\ marked' = marked /\ stored' = stored /\ started' = started
      /\ lost' = lost /\ batch' = batch /\ wbuf' = wbuf /\ flushes' = flushes
  BY <1>1, AgentKeeps DEF WorkerIdle, socketVars, tracerVars, frameVars
<1>4. /\ DOMAIN conns' = DOMAIN conns
      /\ \A c \in DOMAIN conns : SentWhole(c)' <=> SentWhole(c)
      /\ \A c \in DOMAIN conns : conns'[c].frames = conns[c].frames /\ conns'[c].sent = conns[c].sent
  BY <1>1, <1>2, KeptDomain, KeptWhole DEF Kept
<1>5. peer # 0 => peer \in DOMAIN conns
  BY <1>1, LenProperties DEF TypeOK
<1>6. SocketInv'
  BY <1>1, <1>3 DEF SocketInv, IsOpen
<1>7. FlushInv'
  BY <1>1, <1>3, <1>4, <1>5 DEF FlushInv, Fresh, FrameBytes, HeaderBytes
<1>8. SentApart'
  BY <1>1, <1>3, <1>4 DEF SentApart
<1>9. SpansKeptUntilSent'
  BY <1>1, <1>3, <1>4 DEF SpansKeptUntilSent
<1>10. QED  BY <1>6, <1>7, <1>8, <1>9

\* Every step of the agent keeps the invariant.
LEMMA AgentInv ==
    ASSUME IInv, AgentStep \/ AgentFails
    PROVE  IInv'
BY AgentTypeOK, AgentConnInv, AgentReaderInv, AgentAccepted, AgentSending
DEF IInv, Sending, Reading

-----------------------------------------------------------------------------
(* Steps of the worker. *)

OnlySocket == UNCHANGED <<readerVars, tracerVars, caller, frameVars>>

\* The steps of the worker, the handling of the socket in one.
LEMMA WorkerActions ==
    ASSUME WorkerStep
    PROVE  \/ NewTracer \/ (\E s \in Spans : StartSpan(s))
           \/ \E who \in {"script", "onIdle", "init"} : CallFlush(who)
           \/ /\ \/ LocalOpen \/ OpenSocket \/ Connect(listening) \/ Poll(listening)
                 \/ Connected \/ CatchOpen \/ Send \/ SendFails \/ SendInterrupted
              /\ OnlySocket
           \/ EmitBatch \/ FrameFlush \/ FrameFlushNothing \/ CloseAndClear
           \/ ReturnToScript \/ ReturnToOnIdle \/ ReturnToDelete \/ ThrowToScript \/ WorkerDies
BY DEF WorkerStep, Script, FlushStep, Signal, SocketStep, OnlySocket

\* The worker leaves the agent's side of the invariant alone.
LEMMA WorkerReading ==
    ASSUME IInv, WorkerStep, started \subseteq started'
    PROVE  ReaderInv' /\ AcceptedInv' /\ AcceptedOnce'
<1>1. TypeOK /\ Sending /\ ReaderInv /\ AcceptedInv /\ AcceptedOnce
  BY DEF IInv, Reading
<1>2. Unread
  BY <1>1, WorkerUnread
<1>3. /\ listening' = listening /\ serving' = serving /\ recvTimeout' = recvTimeout
      /\ nth' = nth /\ got' = got /\ retries' = retries
      /\ accepted' = accepted
  BY <1>1, WorkerUnread DEF readerVars
<1>4. \A c \in DOMAIN conns :
         /\ c \in DOMAIN conns' /\ conns'[c].agent = conns[c].agent /\ conns'[c].taken = conns[c].taken
         /\ SentWhole(c) => SentWhole(c)' /\ conns'[c].frames = conns[c].frames /\ conns'[c].sent = conns[c].sent
  BY <1>2 DEF Unread, SentWhole, FrameBytes, HeaderBytes
<1>5. ReaderInv'
  <2>1. CASE serving = 0
    BY <1>1, <1>3, <2>1 DEF ReaderInv
  <2>2. CASE serving # 0
    <3>1. PICK c \in DOMAIN conns : c = serving
      BY <1>1, <2>2, LenProperties DEF TypeOK
    <3>2. /\ conns[c].agent = "served" /\ nth \in {1, 2}
          /\ nth = 1 => conns[c].taken = got
          /\ nth = 2 => SentWhole(c) /\ conns[c].taken = conns[c].sent
      BY <1>1, <2>2, <3>1 DEF ReaderInv
    <3>3. serving' = c
      BY <1>3, <3>1
    <3>4. QED  BY <1>3, <1>4, <2>2, <3>1, <3>2, <3>3 DEF ReaderInv, SentWhole, FrameBytes, HeaderBytes
  <2>3. QED  BY <2>1, <2>2
<1>6. AcceptedInv'
  BY <1>1, <1>3, <1>4 DEF AcceptedInv, ReadOff
<1>7. AcceptedOnce'
  BY <1>1, <1>3 DEF AcceptedOnce
<1>8. QED  BY <1>5, <1>6, <1>7

\* The worker keeps what is known of its socket.
LEMMA WorkerSocketInv ==
    ASSUME TypeOK, SocketInv, FlushInv, WorkerStep
    PROVE  SocketInv'
<1>1. /\ NoSocket \notin Descriptors /\ MaxAddresses \in Nat /\ addresses \in Nat
      /\ socket \in Descriptors \cup {NoSocket}
  BY SocketAssumption DEF TypeOK
<1>2. CASE NewTracer \/ (\E s \in Spans : StartSpan(s)) \/ ReturnToScript \/ ReturnToOnIdle \/ ReturnToDelete
  BY <1>2 DEF SocketInv, IsOpen, Free, Holding, NewTracer, StartSpan, ReturnToScript, ReturnToOnIdle,
              ReturnToDelete, ScriptOnly, socketVars
<1>3. ASSUME NEW who, CallFlush(who)
      PROVE  SocketInv'
  BY <1>3 DEF SocketInv, IsOpen, Free, Holding, CallFlush, ScriptOnly, socketVars
<1>4. CASE LocalOpen
  BY <1>1, <1>4 DEF SocketInv, IsOpen, Free, Holding, LocalOpen, Close
<1>5. CASE OpenSocket
  BY <1>1, <1>5 DEF SocketInv, IsOpen, Free, Holding, OpenSocket
<1>6. CASE Connect(listening)
  <2>1. /\ pc = "connect" /\ pc' \in {"connected", "poll", "failed"}
        /\ socket' = socket /\ fds' = fds /\ addresses' = addresses
        /\ pc' = "poll" => peer' = peer
    BY <1>6 DEF Connect, NotEstablished
  <2>2. QED  BY <2>1 DEF SocketInv, IsOpen, Free, Holding
<1>7. CASE Poll(listening)
  <2>1. /\ pc = "poll" /\ pc' \in {"connected", "failed"}
        /\ socket' = socket /\ fds' = fds /\ addresses' = addresses
    BY <1>7 DEF Poll, NotEstablished
  <2>2. QED  BY <2>1 DEF SocketInv, IsOpen, Free, Holding
<1>8. CASE Connected \/ SendFails \/ SendInterrupted \/ Send
  <2>1. /\ pc \in {"connected", "write"} /\ pc' \in {"opened", "failed", "thrown", "frame", "write"}
        /\ socket' = socket /\ fds' = fds /\ peer' = peer
        /\ pc' = "failed" => pc = "connected" /\ addresses' = addresses
    BY <1>8 DEF Connected, SendFails, SendInterrupted, Send, socketVars
  <2>2. QED  BY <2>1 DEF SocketInv, IsOpen, Free, Holding
<1>9. CASE CatchOpen
  BY <1>1, <1>9 DEF SocketInv, IsOpen, Free, Holding, CatchOpen, Close
<1>10. CASE EmitBatch \/ FrameFlush \/ FrameFlushNothing
  BY <1>10 DEF SocketInv, IsOpen, Free, Holding, EmitBatch, FrameFlush, FrameFlushNothing, socketVars
<1>11. CASE CloseAndClear \/ ThrowToScript \/ WorkerDies
  BY <1>1, <1>11 DEF SocketInv, IsOpen, Free, Holding, CloseAndClear, ThrowToScript, WorkerDies, Close
<1>12. QED
  BY <1>2, <1>3, <1>4, <1>5, <1>6, <1>7, <1>8, <1>9, <1>10, <1>11, WorkerActions

\* A step after which every frame is as it was.
Quiet ==
    /\ Kept
    /\ \A c \in DOMAIN conns :
          /\ conns'[c].agent = conns[c].agent /\ conns'[c].taken = conns[c].taken
          /\ conns'[c].cut \in {conns[c].cut, 0, conns[c].taken, conns[c].sent}

\* Connections that stay the same: nothing sent, nothing gone.
LEMMA SameQuiet ==
    ASSUME conns \in Seq(ConnType), conns' = conns
    PROVE  Quiet
BY DEF Quiet, Kept

\* A hang-up sends nothing.
LEMMA HangUpQuiet ==
    ASSUME conns \in Seq(ConnType), peer \in 0 .. Len(conns), NEW l \in BOOLEAN,
           HangUpWorker(peer, l)
    PROVE  Quiet
BY HangUpWorkerKeeps DEF Quiet

\* Steps by what they do to the connections, and whether flush goes on.
LEMMA WorkerClasses ==
    ASSUME TypeOK, Sending, WorkerStep
    PROVE  \/ Quiet /\ (stored' = {} \/ (pc = "frame" => pc' = "frame" /\ peer' = peer))
           \/ /\ \E l : Established(l)
              /\ pc \in {"connect", "poll"} /\ OnlySocket
           \/ Send /\ OnlySocket
           \/ FrameFlush
<1>1. /\ conns \in Seq(ConnType) /\ peer \in 0 .. Len(conns) /\ linger \in BOOLEAN
  BY DEF TypeOK
<1>2. CASE NewTracer \/ (\E s \in Spans : StartSpan(s)) \/ ReturnToScript \/ ReturnToOnIdle \/ ReturnToDelete
  BY <1>1, <1>2, SameQuiet DEF NewTracer, StartSpan, ReturnToScript, ReturnToOnIdle, ReturnToDelete, ScriptOnly
<1>3. ASSUME NEW who, CallFlush(who)
      PROVE  Quiet /\ pc = "script"
  BY <1>1, <1>3, SameQuiet DEF CallFlush, ScriptOnly
<1>4. CASE LocalOpen
  BY <1>1, <1>4, SameQuiet, HangUpQuiet DEF LocalOpen, Close
<1>5. CASE OpenSocket \/ Connected \/ SendFails \/ SendInterrupted
  BY <1>1, <1>5, SameQuiet DEF OpenSocket, Connected, SendFails, SendInterrupted
<1>6. CASE (Connect(listening) \/ Poll(listening)) /\ OnlySocket
  <2>1. pc \in {"connect", "poll"} /\ (Established(listening) \/ conns' = conns)
    BY <1>6 DEF Connect, Poll, NotEstablished
  <2>2. QED  BY <1>1, <1>6, <2>1, SameQuiet
<1>7. CASE CatchOpen
  BY <1>1, <1>7, HangUpQuiet DEF CatchOpen, Close
<1>8. CASE EmitBatch \/ FrameFlushNothing
  BY <1>1, <1>8, SameQuiet DEF EmitBatch, FrameFlushNothing, socketVars
<1>9. CASE CloseAndClear \/ ThrowToScript \/ WorkerDies
  BY <1>1, <1>9, HangUpQuiet DEF CloseAndClear, ThrowToScript, WorkerDies, Close
<1>10. QED
  BY <1>2, <1>3, <1>4, <1>5, <1>6, <1>7, <1>8, <1>9, WorkerActions

\* The worker keeps the types.
LEMMA WorkerTypeOK ==
    ASSUME TypeOK, Sending, SocketInv, WorkerStep
    PROVE  TypeOK'
<1>1. /\ conns \in Seq(ConnType) /\ conns' \in Seq(ConnType) /\ Len(conns) \in Nat /\ Len(conns') \in Nat
      /\ Len(conns') >= Len(conns)
  <2>1. conns \in Seq(ConnType) /\ Unread
    BY WorkerUnread DEF TypeOK
  <2>2. /\ DOMAIN conns = 1 .. Len(conns) /\ DOMAIN conns' = 1 .. Len(conns')
        /\ Len(conns) \in Nat /\ Len(conns') \in Nat
    BY <2>1, LenProperties DEF Unread
  <2>3. DOMAIN conns \subseteq DOMAIN conns'
    BY <2>1 DEF Unread
  <2>4. QED  BY <2>1, <2>2, <2>3 DEF Unread
<1>2. /\ listening' \in BOOLEAN /\ serving' \in 0 .. Len(conns')
      /\ recvTimeout' \in RecvTimeouts \cup {0}
      /\ nth' \in Nat \ {0} /\ got' \in Nat
      /\ retries' \in 0 .. MaxRecvRetries
      /\ accepted' \in Seq(Batches)
  <2>1. UNCHANGED readerVars
    BY WorkerUnread DEF TypeOK
  <2>2. /\ listening' = listening /\ serving' = serving /\ recvTimeout' = recvTimeout
        /\ nth' = nth /\ got' = got /\ retries' = retries
        /\ accepted' = accepted
    BY <2>1 DEF readerVars
  <2>3. serving \in 0 .. Len(conns')
    BY <1>1 DEF TypeOK
  <2>4. /\ listening \in BOOLEAN /\ recvTimeout \in RecvTimeouts \cup {0}
        /\ nth \in Nat \ {0} /\ got \in Nat
        /\ retries \in 0 .. MaxRecvRetries
        /\ accepted \in Seq(Batches)
    BY DEF TypeOK
  <2>5. QED  BY <2>2, <2>3, <2>4
<1>3. /\ pc \in PcType /\ socket \in Descriptors \cup {NoSocket} /\ fds \in SUBSET Descriptors
      /\ peer \in 0 .. Len(conns') /\ linger \in BOOLEAN
      /\ addresses \in 0 .. MaxAddresses /\ out \in Nat
      /\ MaxAddresses \in Nat \ {0} /\ addresses \in Nat
  BY <1>1, SocketAssumption DEF TypeOK
<1>4. /\ alive \in BOOLEAN /\ marked \in BOOLEAN
      /\ stored \in Batches /\ started \in Batches /\ lost \in Batches
      /\ caller \in Callers
      /\ batch \in Batches /\ wbuf \in Nat /\ flushes \in 0 .. 3
  BY DEF TypeOK
<1> DEFINE
  SocketTyped == /\ pc' \in PcType /\ socket' \in Descriptors \cup {NoSocket} /\ fds' \in SUBSET Descriptors
                 /\ peer' \in 0 .. Len(conns') /\ linger' \in BOOLEAN
                 /\ addresses' \in 0 .. MaxAddresses /\ out' \in Nat
  TracerTyped == /\ alive' \in BOOLEAN /\ marked' \in BOOLEAN
                 /\ stored' \in Batches /\ started' \in Batches /\ lost' \in Batches
                 /\ caller' \in Callers
                 /\ batch' \in Batches /\ wbuf' \in Nat /\ flushes' \in 0 .. 3
<1>5. ASSUME SocketTyped, TracerTyped  PROVE TypeOK'
  BY <1>1, <1>2, <1>5 DEF TypeOK
<1>6. ASSUME OnlySocket  PROVE TracerTyped
  BY <1>4, <1>6 DEF OnlySocket, tracerVars, frameVars
<1>7. ASSUME ScriptOnly, pc' \in PcType  PROVE SocketTyped /\ batch' \in Batches /\ wbuf' \in Nat /\ flushes' \in 0 .. 3
  BY <1>3, <1>4, <1>7 DEF ScriptOnly, socketVars, frameVars
<1>closed. ASSUME socket' = NoSocket, peer' = 0, linger' = FALSE
      PROVE  socket' \in Descriptors \cup {NoSocket} /\ peer' \in 0 .. Len(conns') /\ linger' \in BOOLEAN
  <2>1. linger' \in BOOLEAN
    BY <1>closed
  <2>2. peer' \in 0 .. Len(conns')
    BY <1>1, <1>closed
  <2>3. QED  BY <1>closed, <2>1, <2>2
<1>8. CASE NewTracer \/ (\E s \in Spans : StartSpan(s)) \/ ReturnToScript \/ ReturnToOnIdle \/ ReturnToDelete
  <2>1. ScriptOnly /\ pc' \in PcType
    BY <1>3, <1>8 DEF NewTracer, StartSpan, ReturnToScript, ReturnToOnIdle, ReturnToDelete, PcType
  <2>2. /\ alive' \in BOOLEAN /\ marked' \in BOOLEAN
        /\ stored' \in Batches /\ started' \in Batches /\ lost' \in Batches
        /\ caller' \in Callers
    BY <1>4, <1>8 DEF NewTracer, StartSpan, ReturnToScript, ReturnToOnIdle, ReturnToDelete, Callers, Batches, tracerVars
  <2>3. QED  BY <1>5, <1>7, <2>1, <2>2
<1>9. ASSUME NEW who \in {"script", "onIdle", "init"}, CallFlush(who)
      PROVE  TypeOK'
  <2>1. ScriptOnly /\ pc' \in PcType
    BY <1>3, <1>9 DEF CallFlush, PcType
  <2>2. /\ alive' \in BOOLEAN /\ marked' \in BOOLEAN
        /\ stored' \in Batches /\ started' \in Batches /\ lost' \in Batches
        /\ caller' \in Callers
    BY <1>4, <1>9 DEF CallFlush, Callers, tracerVars
  <2>3. QED  BY <1>5, <1>7, <2>1, <2>2
<1>10. CASE OnlySocket /\ LocalOpen
  <2>1. CASE Close /\ pc' = "thrown" /\ UNCHANGED <<addresses, out>>
    <3>1. socket' = NoSocket /\ peer' = 0 /\ linger' = FALSE /\ fds' \in SUBSET Descriptors
      BY <1>3, <2>1 DEF Close
    <3>2. SocketTyped
      BY <1>3, <1>closed, <2>1, <3>1 DEF PcType
    <3>3. QED  BY <1>5, <1>6, <1>10, <3>2
  <2>2. CASE pc' = "socket" /\ addresses' \in 1 .. MaxAddresses /\ UNCHANGED <<socket, fds, peer, linger, conns, out>>
    <3>1. addresses' \in 0 .. MaxAddresses
      BY <1>3, <2>2
    <3>2. SocketTyped
      BY <1>3, <2>2, <3>1 DEF PcType
    <3>3. QED  BY <1>5, <1>6, <1>10, <3>2
  <2>3. QED  BY <1>10, <2>1, <2>2 DEF LocalOpen
<1>11. CASE OnlySocket /\ OpenSocket
  <2>1. SocketTyped
    BY <1>3, <1>11 DEF OpenSocket, PcType
  <2>2. QED  BY <1>5, <1>6, <1>11, <2>1
<1>12. CASE OnlySocket /\ (Connect(listening) \/ Poll(listening))
  <2>1. peer' \in 0 .. Len(conns')
    <3>1. CASE Established(listening)
      BY <1>1, <3>1, EstablishedGrows
    <3>2. CASE NotEstablished
      BY <1>3, <3>2 DEF NotEstablished
    <3>3. QED  BY <1>12, <3>1, <3>2 DEF Connect, Poll
  <2>2. SocketTyped
    BY <1>3, <1>12, <2>1 DEF Connect, Poll, PcType
  <2>3. QED  BY <1>5, <1>6, <1>12, <2>2
<1>13. CASE OnlySocket /\ (Connected \/ SendFails \/ SendInterrupted)
  <2>1. SocketTyped
    BY <1>3, <1>13 DEF Connected, SendFails, SendInterrupted, PcType, socketVars
  <2>2. QED  BY <1>5, <1>6, <1>13, <2>1
<1>14. CASE OnlySocket /\ CatchOpen
  <2>1. addresses > 0 /\ addresses' = addresses - 1
    BY <1>14 DEF CatchOpen, SocketInv
  <2>2. addresses' \in 0 .. MaxAddresses
    BY <1>3, <2>1
  <2>3. socket' = NoSocket /\ peer' = 0 /\ linger' = FALSE /\ fds' \in SUBSET Descriptors
    BY <1>3, <1>14 DEF CatchOpen, Close
  <2>4. pc' \in PcType /\ out' = out
    BY <1>14 DEF CatchOpen, PcType
  <2>5. SocketTyped
    BY <1>3, <1>closed, <2>2, <2>3, <2>4
  <2>6. QED  BY <1>5, <1>6, <1>14, <2>5
<1>15. CASE OnlySocket /\ Send
  <2>1. out' \in Nat /\ pc' \in PcType
    BY <1>15, SendToPeer DEF TypeOK, PcType
  <2>2. SocketTyped
    BY <1>3, <1>15, <2>1 DEF Send, socketVars
  <2>3. QED  BY <1>5, <1>6, <1>15, <2>2
<1>16. CASE EmitBatch \/ FrameFlushNothing \/ FrameFlush
  <2>1. PayloadOf[stored] \in Nat /\ HeaderBytes + wbuf \in Nat
    BY <1>4, Payload DEF HeaderBytes
  <2>2. SocketTyped
    BY <1>3, <1>16, <2>1 DEF EmitBatch, FrameFlushNothing, FrameFlush, socketVars, PcType
  <2>3. flushes' \in 0 .. 3
    BY <1>4, <1>16 DEF EmitBatch, FrameFlushNothing, FrameFlush
  <2>4. TracerTyped
    BY <1>4, <1>16, <2>1, <2>3 DEF EmitBatch, FrameFlushNothing, FrameFlush, tracerVars
  <2>5. QED  BY <1>5, <2>2, <2>4
<1>17. CASE CloseAndClear \/ ThrowToScript \/ WorkerDies
  <2>1. socket' = NoSocket /\ peer' = 0 /\ linger' = FALSE /\ fds' \in SUBSET Descriptors
    BY <1>3, <1>17 DEF CloseAndClear, ThrowToScript, WorkerDies, Close
  <2>2. /\ pc' \in PcType /\ out' \in Nat
        /\ addresses' = 0 \/ addresses' = addresses
    BY <1>3, <1>17 DEF CloseAndClear, ThrowToScript, WorkerDies, PcType
  <2>3. addresses' \in 0 .. MaxAddresses
    BY <1>3, <2>2
  <2>4. SocketTyped
    BY <1>closed, <2>1, <2>2, <2>3
  <2>5. batch' \in Batches /\ wbuf' \in Nat /\ flushes' \in 0 .. 3
    BY <1>17 DEF CloseAndClear, ThrowToScript, WorkerDies, NothingWritten, Batches
  <2>6. /\ (alive' = alive /\ marked' = marked) \/ (alive' = FALSE /\ marked' = FALSE)
        /\ stored' \in {stored, {}} /\ started' = started /\ lost' \in {lost, lost \cup stored}
        /\ caller' \in {caller, "script"}
    BY <1>17 DEF CloseAndClear, ThrowToScript, WorkerDies, tracerVars
  <2>7. alive' \in BOOLEAN /\ marked' \in BOOLEAN
    BY <1>4, <2>6
  <2>8. /\ stored' \in Batches /\ started' \in Batches /\ lost' \in Batches
        /\ caller' \in Callers
    BY <1>4, <2>6 DEF Batches, Callers
  <2>9. QED  BY <1>5, <2>4, <2>5, <2>7, <2>8
<1>18. QED
  BY <1>8, <1>9, <1>10, <1>11, <1>12, <1>13, <1>14, <1>15, <1>16, <1>17, WorkerActions

\* Where the spans go.
LEMMA WorkerSpans ==
    ASSUME TypeOK, Sending, WorkerStep
    PROVE  /\ started \subseteq started' /\ stored' \subseteq started'
           /\ \A s \in stored' : s \in stored \/ s \notin started
           /\ \A s \in started' : s \in started \/ s \in stored'
           /\ lost \subseteq lost'
           /\ \A s \in stored : s \in stored' \/ s \in lost' \/
                 (peer \in DOMAIN conns /\ SentWhole(peer) /\ s \in conns[peer].frames[1])
<1>1. stored \subseteq started
  BY DEF Sending, FlushInv
<1>2. CASE UNCHANGED tracerVars
  BY <1>1, <1>2 DEF tracerVars
<1>3. OnlySocket \/ EmitBatch \/ FrameFlush \/ FrameFlushNothing \/ ReturnToScript \/ ReturnToOnIdle \/ ThrowToScript
      => UNCHANGED tracerVars
  BY DEF OnlySocket, EmitBatch, FrameFlush, FrameFlushNothing, ReturnToScript, ReturnToOnIdle, ThrowToScript
<1>4. ASSUME NEW who, CallFlush(who)  PROVE UNCHANGED tracerVars
  BY <1>4 DEF CallFlush
<1>5. CASE NewTracer \/ \E s \in Spans : StartSpan(s)
  BY <1>1, <1>5 DEF NewTracer, StartSpan
<1>6. CASE WorkerDies
  BY <1>1, <1>6 DEF WorkerDies
<1>7. CASE ReturnToDelete
  <2>1. stored = {} /\ stored' = {} /\ started' = started /\ lost' = lost
    BY <1>7 DEF ReturnToDelete, Sending, FlushInv
  <2>2. QED  BY <2>1
<1>8. CASE CloseAndClear
  <2>1. stored' = {} /\ started' = started /\ lost' = lost /\ pc = "frame" /\ flushes # 0
    BY <1>8 DEF CloseAndClear
  <2>2. batch = stored /\ peer # 0 /\ conns[peer].frames = <<batch>> /\ SentWhole(peer)
    BY <2>1 DEF Sending, FlushInv
  <2>3. peer \in DOMAIN conns
    BY <2>2, LenProperties DEF TypeOK
  <2>4. conns[peer].frames[1] = stored
    BY <2>2
  <2>5. QED  BY <1>1, <2>1, <2>2, <2>3, <2>4
<1>9. QED  BY <1>2, <1>3, <1>4, <1>5, <1>6, <1>7, <1>8, WorkerActions

\* A span is stored, was stored when its worker ended, or is sent whole.
LEMMA WorkerKept ==
    ASSUME IInv, WorkerStep
    PROVE  SpansKeptUntilSent'
<1>1. TypeOK /\ Sending /\ SpansKeptUntilSent
  BY DEF IInv
<1>2. Unread
  BY <1>1, WorkerUnread
<1>3. \A c \in DOMAIN conns : SentWhole(c) =>
         c \in DOMAIN conns' /\ SentWhole(c)' /\ conns'[c].frames = conns[c].frames
  BY <1>2 DEF Unread, SentWhole, FrameBytes, HeaderBytes
<1> SUFFICES ASSUME NEW s \in started'
             PROVE  \/ s \in stored' \/ s \in lost'
                    \/ \E c \in DOMAIN conns : SentWhole(c) /\ s \in conns[c].frames[1]
  BY <1>3 DEF SpansKeptUntilSent
<1>4. CASE s \notin started
  BY <1>1, <1>4, WorkerSpans
<1>5. CASE s \in stored
  <2>1. s \in stored' \/ s \in lost' \/
           (peer \in DOMAIN conns /\ SentWhole(peer) /\ s \in conns[peer].frames[1])
    BY <1>1, <1>5, WorkerSpans
  <2>2. QED  BY <2>1
<1>6. CASE s \in lost
  BY <1>1, <1>6, WorkerSpans
<1>7. QED  BY <1>1, <1>4, <1>5, <1>6 DEF SpansKeptUntilSent

\* The worker keeps what is known of each connection.
LEMMA WorkerConnInv ==
    ASSUME TypeOK, Sending, SocketInv, WorkerStep
    PROVE  ConnInv'
<1> SUFFICES ASSUME NEW c \in DOMAIN conns'
             PROVE  Sound(c)'
  BY DEF ConnInv
<1>1. conns \in Seq(ConnType) /\ conns' \in Seq(ConnType) /\ peer \in 0 .. Len(conns) /\ out \in Nat
      /\ batch \in Batches
  BY WorkerTypeOK DEF TypeOK
<1>2. /\ DOMAIN conns = 1 .. Len(conns) /\ DOMAIN conns' = 1 .. Len(conns')
      /\ Len(conns) \in Nat /\ Len(conns') \in Nat
  BY <1>1, LenProperties
<1>3. started \subseteq started'
  BY WorkerSpans
<1>4. c \in DOMAIN conns =>
         Sound(c) /\ conns[c].sent \in Nat /\ conns[c].taken \in Nat /\ conns[c].cut \in Nat
  BY ConnTypes DEF Sending, ConnInv
<1>5. CASE Quiet
  <2>1. c \in DOMAIN conns /\ Sound(c) /\ conns[c].sent \in Nat /\ conns[c].taken \in Nat
    BY <1>2, <1>4, <1>5 DEF Quiet, Kept
  <2>2. /\ conns'[c].frames = conns[c].frames /\ conns'[c].sent = conns[c].sent
        /\ conns'[c].agent = conns[c].agent /\ conns'[c].taken = conns[c].taken
        /\ conns'[c].cut \in {conns[c].cut, 0, conns[c].taken, conns[c].sent}
    BY <1>5, <2>1 DEF Quiet, Kept
  <2>3. conns'[c].cut <= conns'[c].sent
    BY <2>1, <2>2 DEF Sound
  <2>4. conns[c].frames # <<>> => conns[c].frames[1] \subseteq started'
    BY <1>3, <2>1 DEF Sound
  <2>5. QED  BY <2>1, <2>2, <2>3, <2>4 DEF Sound, FrameBytes, HeaderBytes
<1>6. CASE \E l : Established(l)
  <2>1. /\ \A d \in DOMAIN conns : conns'[d] = conns[d]
        /\ conns'[Len(conns')] = NewConn /\ Len(conns') = Len(conns) + 1
    BY <1>1, <1>6, EstablishedGrows
  <2>2. CASE c \in DOMAIN conns
    <3>1. conns'[c] = conns[c] /\ Sound(c)
      BY <1>4, <2>1, <2>2
    <3>2. QED  BY <1>3, <3>1 DEF Sound, FrameBytes, HeaderBytes
  <2>3. CASE c \notin DOMAIN conns
    <3>1. c = Len(conns')
      BY <1>2, <2>1, <2>3
    <3>2. conns'[c] = NewConn
      BY <2>1, <3>1
    <3>3. /\ conns'[c].frames = <<>> /\ conns'[c].sent = 0 /\ conns'[c].taken = 0 /\ conns'[c].cut = 0
      BY <3>2 DEF NewConn
    <3>4. Len(conns'[c].frames) = 0
      BY <3>3, EmptySeq
    <3>5. QED  BY <3>3, <3>4 DEF Sound
  <2>4. QED  BY <2>2, <2>3
<1>7. CASE Send
  <2>1. c \in DOMAIN conns /\ peer \in DOMAIN conns /\ pc = "write" /\ peer # 0
    BY <1>1, <1>2, <1>7, SendToPeer DEF Send
  <2>2. /\ conns'[c].frames = conns[c].frames /\ conns'[c].agent = conns[c].agent
        /\ conns'[c].taken = conns[c].taken /\ conns'[c].cut = conns[c].cut
    BY <1>1, <1>7, <2>1, SendToPeer
  <2>3. CASE c # peer
    <3>1. conns'[c].sent = conns[c].sent
      BY <1>1, <1>7, <2>1, <2>3, SendToPeer
    <3>2. QED  BY <1>3, <1>4, <2>1, <2>2, <3>1 DEF Sound, FrameBytes, HeaderBytes
  <2>4. CASE c = peer
    <3>1. conns[c].frames = <<batch>> /\ conns[c].sent + out = FrameBytes(batch)
      BY <2>1, <2>4 DEF Sending, FlushInv
    <3>2. /\ out' \in Nat /\ conns'[c].sent \in Nat
          /\ conns'[c].sent + out' = conns[c].sent + out /\ conns'[c].sent > conns[c].sent
      BY <1>1, <1>7, <2>1, <2>4, SendToPeer
    <3>3. conns'[c].sent <= FrameBytes(batch)
      BY <3>1, <3>2
    <3>4. conns[c].frames[1] = batch /\ conns[c].frames # <<>>
      BY <3>1
    <3>5. conns'[c].taken <= conns'[c].sent /\ conns'[c].cut <= conns'[c].sent
      BY <1>4, <2>1, <2>2, <3>2 DEF Sound
    <3>6. QED  BY <1>3, <1>4, <2>1, <2>2, <3>3, <3>4, <3>5 DEF Sound, FrameBytes, HeaderBytes
  <2>5. QED  BY <2>3, <2>4
<1>8. CASE FrameFlush
  <2>1. c \in DOMAIN conns /\ conns' = Begun /\ pc = "frame" /\ wbuf > 0
    BY <1>1, <1>2, <1>8, BegunAtPeer DEF FrameFlush
  <2>2. /\ conns'[c].sent = conns[c].sent /\ conns'[c].agent = conns[c].agent
        /\ conns'[c].taken = conns[c].taken /\ conns'[c].cut = conns[c].cut
    BY <1>1, <2>1, BegunAtPeer
  <2>3. CASE c # peer
    <3>1. conns'[c].frames = conns[c].frames
      BY <1>1, <2>1, <2>3, BegunAtPeer
    <3>2. QED  BY <1>3, <1>4, <2>1, <2>2, <3>1 DEF Sound, FrameBytes, HeaderBytes
  <2>4. CASE c = peer
    <3>1. c # 0 /\ Fresh(c) /\ batch \subseteq started
      BY <1>2, <2>1, <2>4 DEF Sending, FlushInv
    <3>2. conns'[c].frames = <<batch>>
      <4>1. conns'[c].frames = Append(<<>>, batch)
        BY <1>1, <2>1, <2>4, <3>1, BegunAtPeer DEF Fresh
      <4>2. QED  BY <4>1
    <3>3. conns'[c].frames[1] = batch /\ conns'[c].frames # <<>> /\ Len(conns'[c].frames) = 1
      BY <3>2
    <3>4. conns'[c].sent = 0 /\ FrameBytes(batch) \in Nat
      BY <1>1, <2>2, <3>1, Payload DEF Fresh
    <3>5. QED  BY <1>3, <1>4, <2>1, <2>2, <3>1, <3>3, <3>4 DEF Sound, FrameBytes, HeaderBytes
  <2>5. QED  BY <2>3, <2>4
<1>9. QED  BY <1>5, <1>6, <1>7, <1>8, WorkerClasses

\* No span is sent whole twice, nor kept after it was.
LEMMA WorkerSentApart ==
    ASSUME TypeOK, Sending, SocketInv, WorkerStep
    PROVE  SentApart'
<1>1. conns \in Seq(ConnType) /\ conns' \in Seq(ConnType) /\ peer \in 0 .. Len(conns) /\ out \in Nat
      /\ batch \in Batches
  BY WorkerTypeOK DEF TypeOK
<1>2. /\ DOMAIN conns = 1 .. Len(conns) /\ DOMAIN conns' = 1 .. Len(conns')
      /\ Len(conns) \in Nat /\ Len(conns') \in Nat
  BY <1>1, LenProperties
<1>3. /\ \A c, d \in DOMAIN conns : c # d /\ SentWhole(c) /\ SentWhole(d) =>
             conns[c].frames[1] \cap conns[d].frames[1] = {}
      /\ \A c \in DOMAIN conns : SentWhole(c) /\ (c = peer => pc # "frame") =>
             conns[c].frames[1] \cap stored = {}
      /\ \A c \in DOMAIN conns : SentWhole(c) => conns[c].frames[1] \subseteq started
  BY DEF Sending, SentApart, ConnInv, Sound, SentWhole
<1>4. \A s \in stored' : s \in stored \/ s \notin started
  BY WorkerSpans
\* No frame is whole that was not, and flush goes on or has nothing stored.
<1>5. ASSUME \A c \in DOMAIN conns' : SentWhole(c)' =>
                c \in DOMAIN conns /\ SentWhole(c) /\ conns'[c].frames = conns[c].frames,
             stored' = {} \/ \A c \in DOMAIN conns' :
                SentWhole(c)' /\ c = peer /\ pc = "frame" => c = peer' /\ pc' = "frame"
      PROVE  SentApart'
  <2>1. ASSUME NEW c \in DOMAIN conns', NEW d \in DOMAIN conns', c # d, SentWhole(c)', SentWhole(d)'
        PROVE  conns'[c].frames[1] \cap conns'[d].frames[1] = {}
    BY <1>3, <1>5, <2>1
  <2>2. ASSUME NEW c \in DOMAIN conns', SentWhole(c)', c = peer' => pc' # "frame"
        PROVE  conns'[c].frames[1] \cap stored' = {}
    <3>1. c \in DOMAIN conns /\ SentWhole(c) /\ conns'[c].frames = conns[c].frames
      BY <1>5, <2>2
    <3>2. CASE stored' = {}
      BY <3>2
    <3>3. CASE stored' # {}
      <4>1. c = peer => pc # "frame"
        BY <1>5, <2>2, <3>3
      <4>2. conns[c].frames[1] \cap stored = {} /\ conns[c].frames[1] \subseteq started
        BY <1>3, <3>1, <4>1
      <4>3. QED  BY <1>4, <3>1, <4>2
    <3>4. QED  BY <3>2, <3>3
  <2>3. QED  BY <2>1, <2>2 DEF SentApart
<1>6. CASE Quiet /\ (stored' = {} \/ (pc = "frame" => pc' = "frame" /\ peer' = peer))
  <2>1. DOMAIN conns' = DOMAIN conns /\ \A c \in DOMAIN conns :
           SentWhole(c)' => SentWhole(c) /\ conns'[c].frames = conns[c].frames
    BY <1>6, KeptDomain, KeptWhole DEF Quiet, Kept
  <2>2. QED  BY <1>5, <1>6, <2>1
<1>7. CASE (\E l : Established(l)) /\ pc \in {"connect", "poll"} /\ OnlySocket
  <2>1. /\ \A d \in DOMAIN conns : conns'[d] = conns[d]
        /\ conns'[Len(conns')] = NewConn /\ Len(conns') = Len(conns) + 1
    BY <1>1, <1>7, EstablishedGrows
  <2>2. ASSUME NEW c \in DOMAIN conns', SentWhole(c)'
        PROVE  c \in DOMAIN conns /\ SentWhole(c) /\ conns'[c].frames = conns[c].frames
    <3>1. CASE c \in DOMAIN conns
      BY <2>1, <2>2, <3>1 DEF SentWhole, FrameBytes, HeaderBytes
    <3>2. CASE c \notin DOMAIN conns
      <4>1. c = Len(conns')
        BY <1>2, <2>1, <3>2
      <4>2. conns'[c].frames = <<>>
        BY <2>1, <4>1 DEF NewConn
      <4>3. QED  BY <2>2, <4>2 DEF SentWhole
    <3>3. QED  BY <3>1, <3>2
  <2>3. QED  BY <1>5, <1>7, <2>2
<1>8. CASE FrameFlush
  <2>1. conns' = Begun /\ pc = "frame" /\ wbuf > 0 /\ pc' = "write"
    BY <1>8 DEF FrameFlush
  <2>2. DOMAIN conns' = DOMAIN conns /\ \A c \in DOMAIN conns :
           /\ conns'[c].sent = conns[c].sent
           /\ c # peer => conns'[c].frames = conns[c].frames
    BY <1>1, <1>2, <2>1, BegunAtPeer
  <2>3. ASSUME NEW c \in DOMAIN conns, c = peer
        PROVE  ~SentWhole(c)'
    <3>1. Fresh(c)
      BY <1>2, <2>1, <2>3 DEF Sending, FlushInv
    <3>2. conns'[c].frames = <<batch>> /\ conns'[c].sent = 0
      <4>1. conns'[c].frames = Append(<<>>, batch)
        BY <1>1, <1>2, <2>1, <2>3, <3>1, BegunAtPeer DEF Fresh
      <4>2. QED  BY <2>2, <3>1, <4>1 DEF Fresh
    <3>3. FrameBytes(batch) \in Nat /\ FrameBytes(batch) > 0
      BY <1>1, Payload DEF HeaderBytes
    <3>4. conns'[c].frames[1] = batch
      BY <3>2
    <3>5. QED  BY <3>2, <3>3, <3>4 DEF SentWhole, FrameBytes, HeaderBytes
  <2>4. \A c \in DOMAIN conns' : SentWhole(c)' =>
           c \in DOMAIN conns /\ SentWhole(c) /\ conns'[c].frames = conns[c].frames /\ c # peer
    BY <2>2, <2>3 DEF SentWhole, FrameBytes, HeaderBytes
  <2>5. QED  BY <1>5, <2>4
<1>9. CASE Send /\ OnlySocket
  <2>1. peer \in DOMAIN conns /\ pc = "write" /\ peer # 0 /\ stored' = stored /\ peer' = peer
    BY <1>1, <1>9, SendToPeer DEF Send, OnlySocket, tracerVars, socketVars
  <2>2. /\ conns[peer].frames = <<batch>> /\ conns[peer].sent + out = FrameBytes(batch) /\ batch = stored
    BY <2>1 DEF Sending, FlushInv
  <2>3. PICK p \in DOMAIN conns : p = peer
    BY <2>1
  <2>4. /\ DOMAIN conns' = DOMAIN conns
        /\ \A c \in DOMAIN conns :
              conns'[c].frames = conns[c].frames /\ (c # p => conns'[c].sent = conns[c].sent)
    BY <1>1, <1>2, <1>9, <2>3, SendToPeer
  <2>5. \A c \in DOMAIN conns : c # p => (SentWhole(c)' <=> SentWhole(c))
    BY <2>4 DEF SentWhole, FrameBytes, HeaderBytes
  <2>6. conns'[p].frames[1] = stored
    BY <2>2, <2>3, <2>4
  <2>7. SentWhole(p)' => pc' = "frame"
    <3>1. /\ out' \in Nat /\ conns'[p].sent \in Nat /\ conns'[p].sent + out' = FrameBytes(batch)
          /\ pc' = IF out' = 0 THEN "frame" ELSE "write"
      BY <1>1, <1>9, <2>2, <2>3, SendToPeer
    <3>2. SentWhole(p)' => conns'[p].sent = FrameBytes(batch)
      BY <2>2, <2>6 DEF SentWhole, FrameBytes, HeaderBytes
    <3>3. QED  BY <3>1, <3>2
  <2>8. \A c \in DOMAIN conns : c # p /\ SentWhole(c) => conns[c].frames[1] \cap stored = {}
    BY <1>3, <2>1
  <2>9. ASSUME NEW c \in DOMAIN conns', NEW d \in DOMAIN conns', c # d, SentWhole(c)', SentWhole(d)'
        PROVE  conns'[c].frames[1] \cap conns'[d].frames[1] = {}
    <3>1. CASE c = p
      BY <2>4, <2>5, <2>6, <2>8, <2>9, <3>1
    <3>2. CASE d = p
      BY <2>4, <2>5, <2>6, <2>8, <2>9, <3>2
    <3>3. CASE c # p /\ d # p
      BY <1>3, <2>4, <2>5, <2>9, <3>3
    <3>4. QED  BY <3>1, <3>2, <3>3
  <2>10. ASSUME NEW c \in DOMAIN conns', SentWhole(c)', c = peer' => pc' # "frame"
         PROVE  conns'[c].frames[1] \cap stored' = {}
    <3>1. c # p
      BY <2>1, <2>3, <2>7, <2>10
    <3>2. QED  BY <2>1, <2>4, <2>5, <2>8, <2>10, <3>1
  <2>11. QED  BY <2>9, <2>10 DEF SentApart
<1>10. QED  BY <1>6, <1>7, <1>8, <1>9, WorkerClasses

\* The worker keeps what is known of a flush on its way.
LEMMA WorkerFlushInv ==
    ASSUME TypeOK, Sending, SocketInv, WorkerStep
    PROVE  FlushInv'
<1>1. conns \in Seq(ConnType) /\ conns' \in Seq(ConnType) /\ peer \in 0 .. Len(conns) /\ out \in Nat
      /\ batch \in Batches /\ stored \in Batches
  BY WorkerTypeOK DEF TypeOK
<1>2. /\ DOMAIN conns = 1 .. Len(conns) /\ DOMAIN conns' = 1 .. Len(conns')
      /\ Len(conns) \in Nat /\ Len(conns') \in Nat
  BY <1>1, LenProperties
<1>3. FlushInv
  BY DEF Sending
\* Steps that leave nothing to say about the connection.
<1>4. ASSUME stored' \subseteq started', ~marked' => stored' = {}, pc' = "returned" => stored' = {},
             pc' \notin {"connected", "opened", "frame", "write"},
             pc' # "thrown" => flushes' = 0
      PROVE  FlushInv'
  BY <1>4 DEF FlushInv
<1>5. ASSUME UNCHANGED tracerVars
      PROVE  stored' \subseteq started' /\ (~marked' => stored' = {})
  BY <1>3, <1>5 DEF FlushInv, tracerVars
<1>6. CASE NewTracer \/ (\E s \in Spans : StartSpan(s)) \/ ReturnToScript \/ ReturnToOnIdle \/ ReturnToDelete
  <2>1. stored' \subseteq started' /\ (~marked' => stored' = {})
    BY <1>3, <1>6 DEF FlushInv, NewTracer, StartSpan, ReturnToScript, ReturnToOnIdle, ReturnToDelete, tracerVars
  <2>2. pc' = "returned" => stored' = {}
    BY <1>3, <1>6 DEF FlushInv, NewTracer, StartSpan, ReturnToScript, ReturnToOnIdle, ReturnToDelete, tracerVars
  <2>3. flushes' = 0 /\ pc' \in {"script", "open", "returned"}
    BY <1>3, <1>6 DEF FlushInv, NewTracer, StartSpan, ReturnToScript, ReturnToOnIdle, ReturnToDelete, ScriptOnly, frameVars
  <2>4. QED  BY <1>4, <2>1, <2>2, <2>3
<1>7. ASSUME NEW who, CallFlush(who)
      PROVE  FlushInv'
  <2>1. /\ UNCHANGED tracerVars /\ pc' \in {"open", "returned"} /\ flushes' = 0
        /\ pc' = "returned" => ~marked
    BY <1>3, <1>7 DEF FlushInv, CallFlush, ScriptOnly, frameVars
  <2>2. pc' = "returned" => stored' = {}
    BY <1>3, <2>1 DEF FlushInv, tracerVars
  <2>3. QED  BY <1>4, <1>5, <2>1, <2>2
<1>8. CASE OnlySocket /\ (LocalOpen \/ OpenSocket \/ CatchOpen)
  <2>1. /\ pc \in {"open", "socket", "failed"} /\ pc' \in {"thrown", "socket", "connect", "failed"}
        /\ UNCHANGED tracerVars /\ flushes' = flushes
    BY <1>8 DEF OnlySocket, LocalOpen, OpenSocket, CatchOpen, frameVars
  <2>2. flushes' = 0
    BY <1>3, <2>1 DEF FlushInv
  <2>3. QED  BY <1>4, <1>5, <2>1, <2>2
<1>9. CASE OnlySocket /\ (SendFails \/ SendInterrupted)
  <2>1. pc' = "thrown" /\ UNCHANGED tracerVars
    BY <1>9 DEF OnlySocket, SendFails, SendInterrupted
  <2>2. QED  BY <1>4, <1>5, <2>1
<1>10. CASE OnlySocket /\ (Connect(listening) \/ Poll(listening))
  <2>1. /\ pc \in {"connect", "poll"} /\ pc' \in {"connected", "poll", "failed"}
        /\ UNCHANGED tracerVars /\ flushes' = flushes /\ peer = 0
        /\ Established(listening) \/ peer' = peer
    BY <1>10 DEF OnlySocket, Connect, Poll, NotEstablished, frameVars, SocketInv
  <2>2. flushes' = 0
    BY <1>3, <2>1 DEF FlushInv
  <2>3. peer' # 0 => Fresh(peer)'
    BY <1>1, <2>1, EstablishedGrows DEF Fresh, NewConn
  <2>4. QED  BY <1>5, <2>1, <2>2, <2>3 DEF FlushInv
<1>11. CASE OnlySocket /\ Connected
  <2>1. /\ pc = "connected" /\ pc' \in {"opened", "failed"}
        /\ UNCHANGED tracerVars /\ flushes' = flushes /\ peer' = peer /\ conns' = conns
    BY <1>11 DEF OnlySocket, Connected, frameVars
  <2>2. flushes' = 0 /\ (peer' # 0 => Fresh(peer)')
    BY <1>3, <2>1 DEF FlushInv, Fresh
  <2>3. QED  BY <1>5, <2>1, <2>2 DEF FlushInv
<1>12. CASE OnlySocket /\ Send
  <2>1. peer \in DOMAIN conns /\ pc = "write" /\ peer # 0 /\ UNCHANGED tracerVars /\ peer' = peer
        /\ batch' = batch /\ wbuf' = wbuf /\ flushes' = flushes
    BY <1>1, <1>12, SendToPeer DEF Send, OnlySocket, socketVars, frameVars
  <2>2. /\ conns[peer].frames = <<batch>> /\ conns[peer].sent + out = FrameBytes(batch) /\ batch = stored
        /\ wbuf = 0 /\ flushes # 0
    BY <1>3, <2>1 DEF FlushInv
  <2>3. PICK p \in DOMAIN conns : p = peer
    BY <2>1
  <2>4. /\ out' \in Nat /\ conns'[p].sent \in Nat /\ conns'[p].sent + out' = FrameBytes(batch)
        /\ pc' = IF out' = 0 THEN "frame" ELSE "write"
        /\ conns'[p].frames = <<batch>>
    BY <1>1, <1>12, <2>2, <2>3, SendToPeer
  <2>5. stored' = stored
    BY <2>1 DEF tracerVars
  <2>6. FrameBytes(batch)' = FrameBytes(batch)
    BY <2>1 DEF FrameBytes, HeaderBytes
  <2>7. CASE out' = 0
    <3>1. conns'[p].frames # <<>> /\ conns'[p].frames[1] = batch /\ conns'[p].sent = FrameBytes(batch)
      BY <2>4, <2>7
    <3>2. SentWhole(peer)'
      BY <2>1, <2>3, <3>1 DEF SentWhole, FrameBytes, HeaderBytes
    <3>3. pc' = "frame"
      BY <2>4, <2>7
    <3>4. QED  BY <1>5, <2>1, <2>2, <2>3, <2>4, <2>5, <3>2, <3>3 DEF FlushInv
  <2>8. CASE out' # 0
    <3>1. out' > 0 /\ pc' = "write"
      BY <2>4, <2>8
    <3>2. QED  BY <1>5, <2>1, <2>2, <2>3, <2>4, <2>5, <2>6, <3>1 DEF FlushInv
  <2>9. QED  BY <2>7, <2>8
<1>13. CASE EmitBatch
  <2>1. /\ pc = "opened" /\ pc' = "frame" /\ UNCHANGED tracerVars /\ flushes' = flushes
        /\ peer' = peer /\ conns' = conns /\ batch' = stored /\ wbuf' = PayloadOf[stored]
        /\ stored' = stored
    BY <1>13 DEF EmitBatch, socketVars, tracerVars
  <2>2. flushes' = 0 /\ (peer' # 0 => Fresh(peer)')
    BY <1>3, <2>1 DEF FlushInv, Fresh
  <2>3. QED  BY <1>5, <2>1, <2>2 DEF FlushInv
<1>14. CASE FrameFlushNothing
  <2>1. /\ pc = "frame" /\ pc' = "frame" /\ UNCHANGED tracerVars /\ flushes' = flushes + 1 /\ wbuf = 0
        /\ peer' = peer /\ conns' = conns /\ batch' = batch /\ wbuf' = wbuf /\ stored' = stored
    BY <1>14 DEF FrameFlushNothing, socketVars, tracerVars
  <2>2. flushes # 0
    BY <1>1, <1>3, <2>1, Payload DEF FlushInv
  <2>3. flushes' # 0
    BY <2>1 DEF TypeOK
  <2>4. wbuf = 0 /\ peer # 0 /\ conns[peer].frames = <<batch>> /\ SentWhole(peer) /\ batch = stored
    BY <1>3, <2>1, <2>2 DEF FlushInv
  <2>5. SentWhole(peer)'
    BY <2>1, <2>4 DEF SentWhole, FrameBytes, HeaderBytes
  <2>6. QED  BY <1>5, <2>1, <2>3, <2>4, <2>5 DEF FlushInv
<1>15. CASE FrameFlush
  <2>1. /\ pc = "frame" /\ pc' = "write" /\ UNCHANGED tracerVars /\ flushes' = flushes + 1 /\ wbuf > 0
        /\ wbuf' = 0 /\ peer' = peer /\ conns' = Begun /\ batch' = batch /\ stored' = stored
        /\ out' = HeaderBytes + wbuf
    BY <1>15 DEF FrameFlush, socketVars, tracerVars
  <2>2. flushes = 0
    BY <1>3, <2>1 DEF FlushInv
  <2>3. batch = stored /\ wbuf = PayloadOf[batch] /\ (peer # 0 => Fresh(peer))
    BY <1>3, <2>1, <2>2 DEF FlushInv
  <2>4. out' = FrameBytes(batch) /\ out' > 0
    BY <1>1, <2>1, <2>3, Payload DEF FrameBytes, HeaderBytes
  <2>5. ASSUME NEW p \in DOMAIN conns, p = peer
        PROVE  conns'[p].frames = <<batch>> /\ conns'[p].sent = 0
    <3>1. Fresh(p)
      BY <1>2, <2>3, <2>5
    <3>2. conns'[p].frames = Append(<<>>, batch) /\ conns'[p].sent = conns[p].sent
      BY <1>1, <1>2, <2>1, <2>5, <3>1, BegunAtPeer DEF Fresh
    <3>3. QED  BY <3>1, <3>2 DEF Fresh
  <2>6. FrameBytes(batch)' = FrameBytes(batch) /\ FrameBytes(batch) \in Nat
    BY <1>1, <2>1, Payload DEF FrameBytes, HeaderBytes
  <2>7. peer' # 0 => conns'[peer'].frames = <<batch'>> /\ conns'[peer'].sent + out' = FrameBytes(batch)'
    <3>1. ASSUME peer # 0
          PROVE  conns'[peer'].frames = <<batch'>> /\ conns'[peer'].sent + out' = FrameBytes(batch)'
      <4>1. PICK p \in DOMAIN conns : p = peer
        BY <1>1, <1>2, <3>1
      <4>2. QED  BY <2>1, <2>4, <2>5, <2>6, <4>1
    <3>2. QED  BY <2>1, <3>1
  <2>8. flushes' # 0
    BY <2>1, <2>2
  <2>9. QED  BY <1>5, <2>1, <2>3, <2>4, <2>7, <2>8 DEF FlushInv
<1>16. CASE CloseAndClear
  <2>1. stored' = {} /\ pc' = "returned" /\ flushes' = 0 /\ started' = started
    BY <1>16 DEF CloseAndClear, NothingWritten
  <2>2. QED  BY <1>4, <2>1
<1>17. CASE ThrowToScript \/ WorkerDies
  <2>1. /\ pc' = "script" /\ flushes' = 0 /\ started' = started
        /\ stored' = {} \/ UNCHANGED tracerVars
    BY <1>17 DEF ThrowToScript, WorkerDies, NothingWritten, tracerVars
  <2>2. QED  BY <1>4, <1>5, <2>1
<1>18. QED
  BY <1>6, <1>7, <1>8, <1>9, <1>10, <1>11, <1>12, <1>13, <1>14, <1>15, <1>16, <1>17, WorkerActions

\* Every step of the worker keeps the invariant.
LEMMA WorkerInv ==
    ASSUME IInv, WorkerStep
    PROVE  IInv'
<1>1. /\ TypeOK /\ SocketInv /\ Sending /\ FlushInv
  BY DEF IInv, Sending
<1>2. started \subseteq started'
  BY <1>1, WorkerSpans
<1>3. QED
  BY <1>1, <1>2, WorkerTypeOK, WorkerSocketInv, WorkerConnInv, WorkerFlushInv, WorkerSentApart,
     WorkerReading, WorkerKept
  DEF IInv, Sending, Reading

-----------------------------------------------------------------------------
(* The theorems. *)

\* Nothing is connected, made or sent at first.
LEMMA InitInv == Init => IInv
<1> SUFFICES ASSUME Init  PROVE IInv
  OBVIOUS
<1>1. DOMAIN conns = {} /\ conns = <<>> /\ DOMAIN accepted = {} /\ accepted = <<>>
      /\ Len(conns) = 0
  BY EmptySeq DEF Init
<1>2. TypeOK
  <2>1. conns \in Seq(ConnType) /\ accepted \in Seq(Batches)
    BY <1>1, EmptySeq
  <2>2. linger \in BOOLEAN /\ listening \in BOOLEAN /\ alive \in BOOLEAN /\ marked \in BOOLEAN
    BY DEF Init
  <2>3. addresses \in 0 .. MaxAddresses /\ retries \in 0 .. MaxRecvRetries
    BY SocketAssumption, ReaderAssumption DEF Init
  <2>4. QED  BY <1>1, <2>1, <2>2, <2>3 DEF Init, TypeOK, PcType, Callers, Batches
<1>3. SocketInv /\ FlushInv
  BY DEF Init, SocketInv, FlushInv, IsOpen, Free, Holding
<1>4. ConnInv /\ SentApart /\ AcceptedInv /\ AcceptedOnce
  BY <1>1 DEF ConnInv, SentApart, AcceptedInv, AcceptedOnce
<1>5. ReaderInv /\ SpansKeptUntilSent
  BY DEF Init, ReaderInv, SpansKeptUntilSent
<1>6. QED  BY <1>2, <1>3, <1>4, <1>5 DEF IInv, Sending, Reading

\* A step that changes nothing keeps the invariant.
LEMMA StutterInv == IInv /\ UNCHANGED vars => IInv'
<1> SUFFICES ASSUME IInv, UNCHANGED vars  PROVE IInv'
  OBVIOUS
<1> USE DEF vars, socketVars, readerVars, tracerVars, frameVars
<1>1. TypeOK'
  BY DEF IInv, TypeOK
<1>2. SocketInv' /\ ConnInv' /\ FlushInv'
  BY DEF IInv, Sending, SocketInv, ConnInv, FlushInv, Sound, Fresh, SentWhole, FrameBytes, HeaderBytes, IsOpen
<1>3. SentApart' /\ ReaderInv' /\ AcceptedInv'
  BY DEF IInv, Sending, Reading, SentApart, ReaderInv, AcceptedInv, ReadOff, SentWhole, FrameBytes, HeaderBytes
<1>4. AcceptedOnce' /\ SpansKeptUntilSent'
  BY DEF IInv, AcceptedOnce, SpansKeptUntilSent, SentWhole, FrameBytes, HeaderBytes
<1>5. QED  BY <1>1, <1>2, <1>3, <1>4 DEF IInv, Sending, Reading

\* The inductive invariant.
LEMMA InvHolds == Spec => []IInv
<1>1. IInv /\ [Next]_vars => IInv'
  BY WorkerInv, AgentInv, StutterInv DEF Next, WorkerStep
<1>2. QED  BY <1>1, InitInv, PTL DEF Spec

\* The variables keep their types, with any number of spans, connections and
\* addresses and every length of a batch: the socket is a
\* descriptor or none, retries never pass their maximum, what the agent reads are batches.
THEOREM SocketTypeCorrect == Spec => []TypeOK
<1>1. IInv => TypeOK
  BY DEF IInv
<1>2. QED  BY <1>1, InvHolds, PTL

\* However often flush fails and wherever it does, the worker holds no descriptor
\* between two flushes.
THEOREM DescriptorsClosed == Spec => []NoDescriptorLeaks
<1>1. IInv => NoDescriptorLeaks
  BY DEF IInv, SocketInv, NoDescriptorLeaks, Free
<1>2. QED  BY <1>1, InvHolds, PTL

\* The agent reads whole batches of started spans, and no span twice, whatever
\* is cut off, reset or tried again.
THEOREM NothingAcceptedTwice == Spec => []AcceptedOnce
<1>1. IInv => AcceptedOnce
  BY DEF IInv
<1>2. QED  BY <1>1, InvHolds, PTL

\* A span is stored until a frame with it was given whole to the kernel, or its
\* worker ended.
THEOREM ThrowLosesNothing == Spec => []SpansKeptUntilSent
<1>1. IInv => SpansKeptUntilSent
  BY DEF IInv
<1>2. QED  BY <1>1, InvHolds, PTL
=============================================================================
