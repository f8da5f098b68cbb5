---------------------------- MODULE PacketStream ----------------------------
(***************************************************************************)
(* The parser of PacketFactory.tla between a sender, which frames payloads *)
(* (RawGkcPacket::encode) and puts them on the serial line, and the        *)
(* receiving thread of SerialInterface, which hands what has arrived to    *)
(* Receive in chunks cut by the driver and not by the frames.              *)
(*                                                                         *)
(* Garbage is the set of byte strings the line may carry besides frames: a *)
(* frame cut off when the port was opened, a frame hit by noise.  Chunking *)
(* says where a chunk may end: anywhere ("any"), anywhere but right behind *)
(* the first byte of a frame ("keep_head"), or only where a frame or a     *)
(* piece of garbage ends ("whole").                                        *)
(***************************************************************************)
EXTENDS PacketFactory, FiniteSets

CONSTANTS
  Payloads,   \* what the sender sends
  Garbage,
  Chunking,
  MaxSent,    \* bound: frames sent
  MaxGarbage  \* bound: pieces of garbage

ASSUME PayloadsAssumption ==
  \A p \in Payloads : /\ p \in Seq(Byte) /\ Len(p) \in 1..255
                      /\ Crc(p) \in Byte \X Byte
ASSUME GarbageAssumption == \A g \in Garbage : g \in Seq(Byte)
ASSUME ChunkingAssumption == Chunking \in {"any", "keep_head", "whole"}
ASSUME BoundsAssumption == MaxSent \in Nat /\ MaxGarbage \in Nat

VARIABLES
  stream,  \* history: every byte put on the line
  ends,    \* history: where each frame or piece of garbage ends in stream
  sent,    \* history: the payloads sent, in order
  fed,     \* how many bytes of the stream Receive has been given
  erased   \* history: how many bytes the parser has erased

lineVars == <<stream, ends, sent>>
vars == <<factoryVars, lineVars, fed, erased>>

Init ==
  /\ FactoryInit
  /\ stream = << >> /\ ends = << >> /\ sent = << >>
  /\ fed = 0 /\ erased = 0

-----------------------------------------------------------------------------
Put(bytes) ==
  /\ stream' = stream \o bytes
  /\ ends' = Append(ends, Len(stream) + Len(bytes))
  /\ UNCHANGED <<factoryVars, fed, erased>>

Send(p) ==
  /\ Len(sent) < MaxSent
  /\ Put(Frame(p))
  /\ sent' = Append(sent, p)

Disturb(g) ==
  /\ Len(ends) - Len(sent) < MaxGarbage
  /\ Put(g)
  /\ UNCHANGED sent

Boundaries == {0} \cup {ends[i] : i \in 1..Len(ends)}

MayEndAt(k) == CASE Chunking = "any"       -> TRUE
                 [] Chunking = "keep_head" -> k - 1 \notin Boundaries
                 [] Chunking = "whole"     -> k \in Boundaries

Chunk(k) ==
  /\ MayEndAt(k)
  /\ Receive(SubSeq(stream, fed + 1, k))
  /\ fed' = k
  /\ UNCHANGED <<lineVars, erased>>

Arrive == \E k \in fed + 1 .. Len(stream) : Chunk(k)

Parse ==
  /\ Look
  /\ erased' = erased + (Len(buffer) - Len(buffer'))
  /\ UNCHANGED <<lineVars, fed>>

Next == \/ \E p \in Payloads : Send(p)
        \/ \E g \in Garbage : Disturb(g)
        \/ Arrive
        \/ Parse

\* The driver delivers what has arrived and the receiving thread runs; nothing
\* makes the sender send.
Fairness == WF_vars(Arrive) /\ WF_vars(Parse)

Spec == Init /\ [][Next]_vars /\ Fairness

-----------------------------------------------------------------------------
\* Every variable holds what it may hold; in particular the parser never erases
\* bytes it has not been fed, and start_idx never becomes negative.
TypeOK ==
  /\ buffer \in Seq(Byte)
  /\ start_idx \in Nat
  /\ pc \in {"idle", "look", "undefined"}
  /\ published \in Seq(Seq(Byte))
  /\ stream \in Seq(Byte)
  /\ ends \in Seq(Nat)
  /\ sent \in Seq(Payloads)
  /\ fed \in 0..Len(stream)
  /\ erased \in 0..fed

\* The buffer is what has been fed and not yet erased: every erase in Receive
\* takes a prefix, whichever of its branches does it.
BufferIsWindow == buffer = SubSeq(stream, erased + 1, fed)

\* p's size byte, bytes, checksum and END_BYTE stand on the line in a row.
Checksummed(p) ==
  \E i \in 1..Len(stream) :
     /\ i + Len(p) + 3 <= Len(stream)
     /\ SubSeq(stream, i, i + Len(p) + 3) = <<Len(p)>> \o p \o Crc(p) \o <<END_BYTE>>

\* Whatever the noise and however the chunks are cut, a published payload was
\* on the line, in one piece, with its size, its checksum and the END_BYTE.
NoFabrication == \A i \in 1..Len(published) : Checksummed(published[i])

\* The parser runs into undefined behaviour only on a packet that arrived with
\* a good checksum and that this version of the library does not know.
UndefinedOnlyOnForeignPacket ==
  pc = "undefined" =>
    \E i, n \in 1..Len(stream) : LET p == SubSeq(stream, i, i + n - 1)
                                 IN  /\ i + n - 1 <= Len(stream)
                                     /\ Checksummed(p) /\ ~Decodable(p)

\* No packet is lost, published twice or out of order: the published payloads
\* are the first of the payloads sent.
PublishedInOrder ==
  /\ Len(published) <= Len(sent)
  /\ published = SubSeq(sent, 1, Len(published))

\* No packet is published twice or out of order, but some may be lost.
PublishedOnce ==
  \E at \in [1..Len(published) -> 1..Len(sent)] :
     /\ \A i \in 1..Len(published) : published[i] = sent[at[i]]
     /\ \A i, j \in 1..Len(published) : i < j => at[i] < at[j]

\* When every byte has been parsed, every packet has been published
\* ("Need more bytes ... Wait for the next receive" waits, it does not lose).
NothingHeldBack ==
  pc = "idle" /\ fed = Len(stream) => Len(published) >= Len(sent)

\* Between calls the buffer holds less than one frame of the sender's largest.
BufferBounded ==
  pc = "idle" /\ buffer # << >> => \E p \in Payloads : Len(buffer) < Len(Frame(p))

\* "No packet start found. erase buffer.": what that branch throws away holds
\* no packet start.
DiscardsNoStart ==
  [][pc = "look" /\ pc' = "idle" /\ buffer' = << >>
       => \A i \in 1..Len(buffer) : buffer[i] # START_BYTE]_vars

Channel == INSTANCE PacketChannel WITH Payloads <- Payloads, sent <- sent, published <- published

\* On a line without garbage Receive implements the channel: every packet sent is
\* published in its turn, and in the end all are.
ChannelSpec == Channel!Spec

\* Every call of Receive returns, unless it is undefined.
ReceiveReturns == pc = "look" ~> pc # "look"

-----------------------------------------------------------------------------
\* The line as the parser was written for it: frames only, all of kinds the
\* factory knows, and no chunk that ends right behind the first byte of a frame.
CleanLine == /\ Garbage = {}
             /\ Chunking = "keep_head"
             /\ \A p \in Payloads : Decodable(p)

\* Where the i-th frame of the line ends.
EndOf(e, i) == IF i = 0 THEN 0 ELSE e[i]

\* The stream is the frames of the payloads sent, one behind the other.
FramesOnly ==
  /\ Len(ends) = Len(sent)
  /\ EndOf(ends, Len(sent)) = Len(stream)
  /\ \A i \in 1..Len(sent) :
        LET f == Frame(sent[i])
        IN  /\ ends[i] = EndOf(ends, i - 1) + Len(f)
            /\ ends[i] <= Len(stream)
            /\ \A j \in 1..Len(f) : stream[EndOf(ends, i - 1) + j] = f[j]

\* What the parser has erased is exactly the frames it has published, it never
\* leaves the scan at another place than the buffer's front, and it waits only
\* for the rest of a frame of which it has at least two bytes.
AtFrame ==
  /\ start_idx = 0
  /\ pc # "undefined"
  /\ erased = EndOf(ends, Len(published))
  /\ \A i \in 0..Len(sent) : fed # EndOf(ends, i) + 1
  /\ pc = "idle" /\ buffer # << >> =>
        /\ Len(published) < Len(sent)
        /\ Len(buffer) < Len(Frame(sent[Len(published) + 1]))

\* The inductive invariant of the clean line.
CleanInv == TypeOK /\ BufferIsWindow /\ FramesOnly /\ PublishedInOrder /\ AtFrame
=============================================================================
