--------------------------- MODULE PgmSenderProofs ---------------------------
(***************************************************************************)
(* Theorems about PgmSender for every size of messages, cache, packet and  *)
(* batch: no byte waits without something on the way to send it, the       *)
(* timers are the ones Select has, and what is sent is the stream pushed.  *)
(***************************************************************************)
EXTENDS PgmSender, SequenceTheorems, TLAPS

\* The types' parts: bytes of the stream, packets, and pipes of messages.
Bytes == [at : Nat, begins : BOOLEAN]
Packets == [header : Nat, index : Nat, data : Seq(Bytes)]
Channels == [items : Seq(Seq(Nat)), complete : Nat, published : Nat, taken : Nat,
             reader : {"awake", "asleep"}]

\* Every write is flushed at once; a reader sleeps only when it has read everything.
Sound(q) ==
  /\ q.complete = Len(q.items) /\ q.published = Len(q.items) /\ q.taken <= Len(q.items)
  /\ q.reader = "asleep" => q.taken = Len(q.items)

\* The types, of the pushing thread, of what it shares with the I/O thread, and of that.
UiTypes ==
  /\ upc \in {"new", "idle", "command", "rest", "closing", "stopped"}
  /\ cache \in Seq(Nat) /\ Len(cache) <= CacheSize
  /\ rest \in Seq(Nat)
  /\ pushed \in 0..MaxBytes

CommandTypes == commands \in Seq({"plug", "restart", "terminate"})

SelectTypes ==
  /\ ended \in BOOLEAN /\ plugged \in BOOLEAN /\ pollout \in BOOLEAN
  /\ hasTx \in BOOLEAN /\ hasRx \in BOOLEAN /\ armed \in [{"tx", "rx"} -> Nat]
  /\ ipc \in {"idle", "fill", "send"}

FillTypes ==
  /\ data \in Seq(Bytes) /\ Len(data) <= Capacity /\ header \in Nat
  /\ batch \in Seq(Nat) /\ reads \in 0..(MaxBatch - 1)
  /\ current \in Seq(Bytes) /\ curOffset \in 0..Len(current)

PacketTypes ==
  /\ packet = NoPacket \/ packet \in Packets
  /\ nextIndex \in 0..(IndexMod - 1)
  /\ sent \in Seq(Packets)

Typed == UiTypes /\ pipe \in Channels /\ CommandTypes /\ SelectTypes /\ FillTypes /\ PacketTypes

\* The plug command is the first and Terminate's the last; between them nothing
\* but wake-ups, and the I/O thread does nothing before the one and after the other.
CommandOrder ==
  /\ \A i \in 1..Len(commands) :
       /\ commands[i] = "plug" => i = 1 /\ ~plugged
       /\ commands[i] = "terminate" => i = Len(commands) /\ upc \in {"closing", "stopped"}
  /\ upc = "new" => ~plugged /\ commands = <<>>
  /\ ~plugged => /\ ipc = "idle"
                 /\ upc = "new" \/ (commands # <<>> /\ commands[1] = "plug")
                      \/ (upc \in {"closing", "stopped"} /\ commands = <<>>)

\* The pushing thread: a message is held back only behind the wake-up it waits for.
UiState ==
  /\ upc = "rest" => rest # <<>>
  /\ rest # <<>> => upc \in {"command", "rest"} /\ cache = <<>>

\* The I/O thread: what it holds when it fills a packet, sends one, or is in Select.
IoState ==
  /\ ipc # "idle" => pollout
  /\ ipc = "fill" <=> ipc # "idle" /\ packet = NoPacket
  /\ ipc # "fill" => batch = <<>>
  /\ batch # <<>> => Len(data) < Capacity /\ current = <<>>
  /\ current = <<>> => curOffset = 0
  /\ current # <<>> => curOffset < Len(current)
  /\ current # <<>> /\ curOffset = 0 => ipc = "fill" /\ Len(data) < Capacity

\* The pipe's end is its last item, written by Stop and read after all the others.
Ends ==
  /\ \A i \in 1..Len(pipe.items) :
       pipe.items[i] = Delimiter => i = Len(pipe.items) /\ upc = "stopped"
  /\ ended => pipe.taken = Len(pipe.items) /\ upc = "stopped"

\* Nothing to be read without a wake-up on its way, or the end only.
Quiet ==
  \/ pipe.reader = "asleep" \/ ended \/ upc = "command"
  \/ \E i \in 1..Len(commands) : commands[i] = "restart"
  \/ pipe.taken < Len(pipe.items) /\ NextItem(pipe) = Delimiter

Wakeups ==
  plugged /\ ~pollout /\ ~hasTx => packet = NoPacket /\ current = <<>> /\ Quiet

\* Consecutive bytes behind position n, and the position behind an item of the pipe.
Run(s, n) == \A i \in 1..Len(s) : s[i] = n + i
RunAt(s, n) == \A i \in 1..Len(s) : s[i].at = n + i
After(items, i) == IF i = 0 THEN 0 ELSE items[i][Len(items[i])]

\* The bytes of the packet that is filled or waits to be sent, and the position behind
\* what OutEvent has of the current block.
Filled == IF packet # NoPacket THEN packet.data ELSE IF ipc = "fill" THEN data ELSE <<>>
Serialized == BytesSent + Len(Filled) + (Len(current) - curOffset)

\* The stream, on its way through the I/O thread,
StreamIo ==
  /\ RunAt(Filled, BytesSent)
  /\ \A i \in 1..Len(current) :
       i > curOffset => current[i].at = BytesSent + Len(Filled) + (i - curOffset)
  /\ Run(batch, Serialized)

\* through the pipe,
StreamPipe ==
  /\ \A i \in 1..Len(pipe.items) : Run(pipe.items[i], After(pipe.items, i - 1))
  /\ ~ended => Serialized + Len(batch) = After(pipe.items, pipe.taken)

\* and as the pushing thread still has it.
StreamUi ==
  upc # "stopped" =>
    LET n == After(pipe.items, Len(pipe.items)) IN
      /\ Run(cache, n)
      /\ Run(rest, n + Len(cache))
      /\ pushed = n + Len(cache) + Len(rest)

NoBegin(s) == \A i \in 1..Len(s) : ~s[i].begins
FirstIs(s, n) ==
  \/ n = Stream!kNonExistOffset /\ NoBegin(s)
  \/ n + 1 \in 1..Len(s) /\ s[n + 1].begins /\ \A i \in 1..n : ~s[i].begins
\* The blocks: a header counts with the block that is to follow the packet's bytes so far.
Offsets ==
  /\ \A i \in 1..Len(current) : current[i].begins <=> i = 1
  /\ ipc = "fill" =>
       IF NoBegin(data) /\ (batch # <<>> \/ (current # <<>> /\ curOffset = 0))
         THEN Stream!OffsetOf(header) = Len(data)
         ELSE FirstIs(data, Stream!OffsetOf(header))
  /\ packet # NoPacket => FirstIs(packet.data, Stream!OffsetOf(packet.header))
  /\ sent = <<>> => IF Filled = <<>> THEN curOffset = 0 ELSE Filled[1].begins

\* The packets: numbered one by one, none empty, none too long.
Numbered ==
  /\ packet # NoPacket => packet.index = Len(sent) % IndexMod /\ Len(packet.data) \in 1..Capacity
  /\ nextIndex = (Len(sent) + IF packet = NoPacket THEN 0 ELSE 1) % IndexMod
  /\ \A i \in 1..Len(sent) : Len(sent[i].data) > 0

SenderInv ==
  /\ Typed /\ Sound(pipe) /\ CommandOrder /\ TimersTracked
  /\ UiState /\ IoState /\ Ends /\ Wakeups
  /\ StreamIo /\ StreamPipe /\ StreamUi /\ Offsets /\ Numbered

-----------------------------------------------------------------------------
(* What is assumed of the constants. *)
LEMMA Constants ==
  /\ CacheSize \in Nat \ {0} /\ Capacity \in Nat \ {0} /\ MaxBatch \in Nat \ {0}
  /\ MaxBytes \in Nat /\ IndexMod \in Nat \ {0} /\ Options \in Nat
  /\ Capacity <= Stream!kNonExistOffset /\ Stream!kNonExistOffset \in Nat
  /\ Sizes \subseteq Nat \ {0}
  BY SenderAssumption DEF Stream!kNonExistOffset

(* The offset is what is left of a header without the options. *)
LEMMA HeaderValue ==
  ASSUME NEW n \in Nat, n <= Stream!kNonExistOffset
  PROVE  Stream!Header(n) \in Nat /\ Stream!OffsetOf(Stream!Header(n)) = n
  <1>1. 2^13 = 8192
    OBVIOUS
  <1>2. Stream!Header(n) = Options * 8192 + n
    BY <1>1 DEF Stream!Header, Stream!kOffsetBitCount
  <1>3. Options * 8192 \in Nat /\ (Options * 8192 + n) % 8192 = n
    BY Constants DEF Stream!kNonExistOffset
  <1> QED BY <1>1, <1>2, <1>3 DEF Stream!OffsetOf, Stream!kOffsetBitCount

(* It is a number. *)
LEMMA OffsetNumber ==
  ASSUME NEW n \in Nat
  PROVE  Stream!OffsetOf(n) \in Nat
  <1>1. 2^13 = 8192
    OBVIOUS
  <1> QED BY <1>1 DEF Stream!OffsetOf, Stream!kOffsetBitCount

(* What PushMessage is given. *)
LEMMA NewBytes ==
  ASSUME pushed \in Nat, NEW size \in Nat \ {0}, NEW bytes,
         bytes = [i \in 1..size |-> pushed + i]
  PROVE  bytes \in Seq(Nat) /\ Len(bytes) = size /\ Run(bytes, pushed) /\ bytes # <<>>
  BY DEF Run

(* A channel is its fields: one is changed, *)
LEMMA ItemsField ==
  ASSUME NEW q \in Channels, NEW i
  PROVE  [q EXCEPT !.items = i] = [items |-> i, complete |-> q.complete,
            published |-> q.published, taken |-> q.taken, reader |-> q.reader]
  <1> DEFINE S == Seq(Seq(Nat))
  <1>1. q \in [items : S, complete : Nat, published : Nat, taken : Nat,
               reader : {"awake", "asleep"}]
    BY DEF Channels
  <1> HIDE DEF S
  <1> QED BY <1>1

(* A message written to the pipe is flushed at once. *)
LEMMA WriteFields ==
  ASSUME NEW q \in Channels, Sound(q), NEW msg \in Seq(Nat)
  PROVE  /\ Flushed(Put(q, msg, FALSE)) = [items |-> Append(q.items, msg),
              complete |-> Len(q.items) + 1, published |-> Len(q.items) + 1,
              taken |-> q.taken, reader |-> "awake"]
         /\ FlushResult(Put(q, msg, FALSE)) <=> q.reader = "awake"
  <1> DEFINE i == Append(q.items, msg)  n == Len(q.items) + 1  b == q.complete
             c == q.published  d == q.taken  e == q.reader
  <1>1. [q EXCEPT !.items = i]
        = [items |-> i, complete |-> b, published |-> c, taken |-> d, reader |-> e]
    BY ItemsField, Zenon
  <1>2. c # n /\ n = n /\ c = Len(q.items) /\ e \in {"awake", "asleep"}
    BY DEF Channels, Sound
  <1>3. Put(q, msg, FALSE) = [[q EXCEPT !.items = i] EXCEPT !.complete = n]
    BY Zenon DEF Put
  <1> HIDE DEF i, n, b, c, d, e
  <1>4. [[items |-> i, complete |-> b, published |-> c, taken |-> d, reader |-> e]
            EXCEPT !.complete = n]
        = [items |-> i, complete |-> n, published |-> c, taken |-> d, reader |-> e]
    OBVIOUS
  <1> DEFINE p == [items |-> i, complete |-> n, published |-> c, taken |-> d, reader |-> e]
  <1>5. Put(q, msg, FALSE) = p
    BY <1>1, <1>3, <1>4, Zenon
  <1>6. p.published = c /\ p.complete = n /\ p.reader = e
    OBVIOUS
  <1>7. [p EXCEPT !.published = n]
        = [items |-> i, complete |-> n, published |-> n, taken |-> d, reader |-> e]
    OBVIOUS
  <1>8. [[items |-> i, complete |-> n, published |-> n, taken |-> d, reader |-> e]
            EXCEPT !.reader = "awake"]
        = [items |-> i, complete |-> n, published |-> n, taken |-> d, reader |-> "awake"]
    OBVIOUS
  <1>9. Flushed(p) = [[p EXCEPT !.published = n] EXCEPT !.reader = "awake"]
    <2> HIDE DEF p
    <2> QED BY <1>2, <1>6, Zenon DEF Flushed
  <1>10. Flushed(p) = [items |-> i, complete |-> n, published |-> n, taken |-> d,
                       reader |-> "awake"]
    BY <1>7, <1>8, <1>9, Zenon
  <1>11. FlushResult(p) <=> e = "awake"
    <2> HIDE DEF p
    <2> QED BY <1>2, <1>6, Zenon DEF FlushResult
  <1> QED BY <1>5, <1>10, <1>11, Zenon DEF i, n, d, e

\* The pipe after a Write of msg.
Wrote(q, msg) == Flushed(Put(q, msg, FALSE))

(* What is in the pipe then. *)
LEMMA Written ==
  ASSUME NEW q \in Channels, Sound(q), NEW msg \in Seq(Nat), NEW r, r = Wrote(q, msg)
  PROVE  /\ r \in Channels /\ Sound(r)
         /\ r.items = Append(q.items, msg) /\ r.taken = q.taken /\ r.reader = "awake"
         /\ Len(r.items) = Len(q.items) + 1 /\ r.items[Len(q.items) + 1] = msg
         /\ \A i \in 1..Len(q.items) : r.items[i] = q.items[i]
  <1> DEFINE w == Append(q.items, msg)  n == Len(q.items) + 1  d == q.taken
             S == Seq(Seq(Nat))
             p == [items |-> w, complete |-> n, published |-> n, taken |-> d,
                   reader |-> "awake"]
  <1>1. /\ w \in S /\ Len(w) = n /\ n \in Nat /\ n = Len(q.items) + 1 /\ Len(q.items) \in Nat
        /\ w[n] = msg /\ (\A k \in 1..Len(q.items) : w[k] = q.items[k])
        /\ d \in Nat /\ d <= Len(q.items)
    BY DEF Channels, Sound
  <1>2. r = p
    BY WriteFields, Zenon DEF Wrote
  <1>3. S = Seq(Seq(Nat)) /\ w = Append(q.items, msg) /\ d = q.taken
    OBVIOUS
  <1> HIDE DEF w, n, d, S
  <1>4. /\ p.items = w /\ p.taken = d /\ p.reader = "awake" /\ p.complete = n /\ p.published = n
        /\ p \in [items : S, complete : Nat, published : Nat, taken : Nat,
                  reader : {"awake", "asleep"}]
    BY <1>1
  <1> HIDE DEF p
  <1>5. r \in Channels
    BY <1>2, <1>3, <1>4, Zenon DEF Channels
  <1>6. r.items = w /\ r.taken = d /\ r.reader = "awake" /\ r.complete = n /\ r.published = n
    BY <1>2, <1>4, Zenon
  <1>7. Sound(r)
    <2>1. r.taken <= Len(r.items) /\ r.complete = Len(r.items) /\ r.published = Len(r.items)
      <3>1. Len(w) = n /\ d <= n /\ Len(r.items) = n
        <4>1. Len(w) = n
          BY <1>1
        <4>2. d <= n
          BY <1>1
        <4> QED BY <4>1, <4>2, <1>6, Zenon
      <3> QED BY <3>1, <1>6, Zenon
    <2> QED BY <1>6, <2>1 DEF Sound
  <1> QED BY <1>1, <1>3, <1>5, <1>6, <1>7

(* A channel whose lists of items are opaque. *)
LEMMA ChannelForm ==
  ASSUME NEW q \in Channels, Sound(q)
  PROVE  \E S, n : /\ S = Seq(Seq(Nat)) /\ n = Len(q.items) /\ n \in Nat
                   /\ q \in [items : S, complete : {n}, published : {n}, taken : 0..n,
                             reader : {"awake", "asleep"}]
  <1>1. q.items \in Seq(Seq(Nat)) /\ Len(q.items) \in Nat
    BY DEF Channels
  <1> QED BY <1>1 DEF Channels, Sound

(* Reading moves one item on. *)
LEMMA Taken ==
  ASSUME NEW q \in Channels, Sound(q), HasItem(q)
  PROVE  /\ Take(q) \in Channels /\ Sound(Take(q)) /\ Take(q).items = q.items
         /\ Take(q).taken = q.taken + 1 /\ q.taken + 1 \in 1..Len(q.items)
         /\ Take(q).reader = "awake"
  <1> PICK S, n : /\ S = Seq(Seq(Nat)) /\ n = Len(q.items) /\ n \in Nat
                  /\ q \in [items : S, complete : {n}, published : {n}, taken : 0..n,
                            reader : {"awake", "asleep"}]
    BY ChannelForm, Zenon
  <1>1. q.taken < n /\ q.taken \in Nat /\ q.reader = "awake"
    BY DEF HasItem, Sound
  <1> DEFINE d == q.taken + 1
  <1>2. Take(q) = [q EXCEPT !.taken = d]
    BY Zenon DEF Take
  <1> HIDE DEF d
  <1>3. [q EXCEPT !.taken = d]
        = [items |-> q.items, complete |-> n, published |-> n, taken |-> d, reader |-> q.reader]
    OBVIOUS
  <1> QED BY <1>1, <1>2, <1>3 DEF Channels, Sound, d

(* Finding nothing leaves word of it. *)
LEMMA FoundNone ==
  ASSUME NEW q \in Channels, Sound(q), ~HasItem(q)
  PROVE  /\ Checked(q) \in Channels /\ Sound(Checked(q)) /\ Checked(q).items = q.items
         /\ Checked(q).taken = q.taken /\ q.taken = Len(q.items)
         /\ Checked(q).reader = "asleep"
  <1> PICK S, n : /\ S = Seq(Seq(Nat)) /\ n = Len(q.items) /\ n \in Nat
                  /\ q \in [items : S, complete : {n}, published : {n}, taken : 0..n,
                            reader : {"awake", "asleep"}]
    BY ChannelForm, Zenon
  <1>1. q.taken = n
    BY DEF HasItem
  <1>2. Checked(q) = [items |-> q.items, complete |-> n, published |-> n, taken |-> n,
                   reader |-> "asleep"]
    BY <1>1 DEF Checked
  <1> QED BY <1>1, <1>2 DEF Channels, Sound

-----------------------------------------------------------------------------
(* What PushMessage does, with its message as one value. *)
LEMMA PushMessageForm ==
  ASSUME SenderInv, NEW size \in Sizes, PushMessage(size)
  PROVE  \E bytes \in Seq(Nat) :
           /\ Len(bytes) = size /\ size \in Nat \ {0} /\ Run(bytes, pushed)
           /\ upc = "idle" /\ rest = <<>>
           /\ pushed' = pushed + size /\ pushed + size <= MaxBytes
           /\ \/ cache = <<>> /\ Place(bytes)
              \/ /\ cache # <<>> /\ Len(cache) + size <= CacheSize
                 /\ cache' = cache \o bytes
                 /\ UNCHANGED <<pipe, rest, upc>>
              \/ /\ cache # <<>> /\ rest' = bytes /\ WritePipe(cache) /\ cache' = <<>>
  <1> DEFINE bytes == [i \in 1..size |-> pushed + i]
  <1>1. /\ bytes \in Seq(Nat) /\ Len(bytes) = size /\ size \in Nat \ {0}
        /\ Run(bytes, pushed)
    BY NewBytes, Constants DEF SenderInv, Typed, UiTypes
  <1>2. upc = "idle"
    BY DEF PushMessage
  <1>3. rest = <<>>
    BY <1>2 DEF SenderInv, UiState
  <1> QED BY <1>1, <1>2, <1>3, Zenon DEF PushMessage

(* The pushing thread writes one message to the pipe, or none. *)
LEMMA UiPipe ==
  ASSUME SenderInv, UiStep
  PROVE  \/ pipe' = pipe
         \/ \E msg \in Seq(Nat) : pipe' = Wrote(pipe, msg)
  <1> cache \in Seq(Nat) /\ rest \in Seq(Nat) /\ Delimiter \in Seq(Nat)
    BY DEF SenderInv, Typed, UiTypes, Delimiter
  <1>1. ASSUME NEW size \in Sizes, PushMessage(size)
        PROVE  \/ pipe' = pipe
               \/ \E msg \in Seq(Nat) : pipe' = Wrote(pipe, msg)
    BY <1>1, PushMessageForm, Zenon DEF Place, WritePipe, Wrote
  <1>2. CASE PushRest
    BY <1>2, Zenon DEF PushRest, Place, WritePipe, Wrote
  <1>3. CASE EndPush
    BY <1>3, Zenon DEF EndPush, WritePipe, Wrote
  <1>4. CASE StopPipe
    BY <1>4, Zenon DEF StopPipe, Wrote
  <1>5. CASE Start \/ AwakePeer \/ Stop
    BY <1>5 DEF Start, AwakePeer, Stop
  <1> QED BY <1>1, <1>2, <1>3, <1>4, <1>5, Zenon DEF UiStep

(* The pushing thread keeps the types, *)
LEMMA UiTyped ==
  ASSUME SenderInv, UiStep
  PROVE  Typed'
  <1>1. pipe' \in Channels
    <2>1. pipe \in Channels /\ Sound(pipe)
      BY DEF SenderInv, Typed
    <2> QED BY <2>1, UiPipe, Written
  <1>2. UNCHANGED <<selectVars, ended, ipc, fillVars, packet, nextIndex, sent>>
    BY DEF UiStep, Start, PushMessage, PushRest, EndPush, AwakePeer, Stop, StopPipe
  <1>3. (SelectTypes /\ FillTypes /\ PacketTypes)'
    <2>1. SelectTypes /\ FillTypes /\ PacketTypes
      BY DEF SenderInv, Typed
    <2> QED BY <1>2, <2>1 DEF SelectTypes, FillTypes, PacketTypes, selectVars, fillVars
  <1>4. CommandTypes'
    <2>1. commands' = commands \/ \E c \in {"plug", "restart", "terminate"} : SendCommand(c)
      BY Zenon DEF UiStep, Start, PushMessage, PushRest, EndPush, AwakePeer, Stop, StopPipe
    <2> QED BY <2>1 DEF SendCommand, CommandTypes, SenderInv, Typed
  <1>5. UiTypes'
    <2>u. UiTypes
      BY DEF SenderInv, Typed
    <2>1. ASSUME NEW size \in Sizes, PushMessage(size)
          PROVE  UiTypes'
      <3> PICK bytes \in Seq(Nat) :
            /\ Len(bytes) = size /\ size \in Nat \ {0} /\ Run(bytes, pushed)
            /\ upc = "idle" /\ rest = <<>>
            /\ pushed' = pushed + size /\ pushed + size <= MaxBytes
            /\ \/ cache = <<>> /\ Place(bytes)
               \/ /\ cache # <<>> /\ Len(cache) + size <= CacheSize
                  /\ cache' = cache \o bytes
                  /\ UNCHANGED <<pipe, rest, upc>>
               \/ /\ cache # <<>> /\ rest' = bytes /\ WritePipe(cache) /\ cache' = <<>>
        BY <2>1, PushMessageForm, Zenon
      <3>1. /\ \/ cache' = <<>>
               \/ cache' = bytes /\ Len(bytes) < CacheSize
               \/ cache' = cache \o bytes /\ Len(cache) + size <= CacheSize
            /\ rest' = <<>> \/ rest' = rest \/ rest' = bytes
            /\ upc' = "command" \/ upc' = "idle" \/ upc' = "rest" \/ upc' = upc
        BY Zenon DEF Place, WritePipe
      <3>2. cache' \in Seq(Nat) /\ Len(cache') <= CacheSize
        <4>1. cache \in Seq(Nat) /\ Len(cache) <= CacheSize /\ CacheSize \in Nat
          BY <2>u, Constants DEF UiTypes
        <4>2. CASE cache' = <<>>
          BY <4>1, <4>2
        <4>3. CASE cache' = bytes /\ Len(bytes) < CacheSize
          BY <4>1, <4>3
        <4>4. CASE cache' = cache \o bytes /\ Len(cache) + size <= CacheSize
          <5>1. cache \o bytes \in Seq(Nat) /\ Len(cache \o bytes) = Len(cache) + size
            BY <4>1, ConcatProperties
          <5> QED BY <4>4, <5>1
        <4> QED BY <3>1, <4>2, <4>3, <4>4
      <3>3. pushed' \in 0..MaxBytes
        BY <2>u, Constants DEF UiTypes
      <3>4. rest' \in Seq(Nat)
        BY <2>u, <3>1, EmptySeq, Zenon DEF UiTypes
      <3> QED BY <2>u, <3>1, <3>2, <3>3, <3>4 DEF UiTypes
    <2>2. CASE PushRest
      <3>1. /\ cache' = <<>> \/ (cache' = rest /\ Len(rest) < CacheSize)
            /\ rest' = <<>> /\ pushed' = pushed
            /\ upc' = "command" \/ upc' = "idle" \/ upc' = "rest"
        BY <2>2, Zenon DEF PushRest, Place, WritePipe
      <3>2. <<>> \in Seq(Nat) /\ Len(<<>>) = 0 /\ 0 <= CacheSize
        BY Constants
      <3>3. cache' \in Seq(Nat) /\ rest' \in Seq(Nat) /\ Len(cache') <= CacheSize
        <4>1. Len(rest) < CacheSize => Len(rest) <= CacheSize
          BY <2>u, Constants DEF UiTypes
        <4>2. rest \in Seq(Nat)
          BY <2>u DEF UiTypes
        <4> QED BY <3>1, <3>2, <4>1, <4>2, Zenon
      <3> QED BY <2>u, <3>1, <3>3 DEF UiTypes
    <2>3. CASE EndPush
      <3>1. /\ cache' = <<>> /\ rest' = rest /\ pushed' = pushed
            /\ upc' = "command" \/ upc' = "idle" \/ upc' = "rest"
        BY <2>3, Zenon DEF EndPush, WritePipe
      <3> QED BY <2>u, <3>1, Constants DEF UiTypes
    <2>4. CASE Start \/ AwakePeer \/ Stop \/ StopPipe
      <3>1. /\ UNCHANGED <<cache, rest, pushed>>
            /\ upc' = "idle" \/ upc' = "rest" \/ upc' = "closing" \/ upc' = "stopped"
        BY <2>4 DEF Start, AwakePeer, Stop, StopPipe
      <3> QED BY <2>u, <3>1 DEF UiTypes
    <2> QED BY <2>1, <2>2, <2>3, <2>4 DEF UiStep
  <1> QED BY <1>1, <1>3, <1>4, <1>5 DEF Typed

-----------------------------------------------------------------------------
(* A block goes into the packet to its end, or until the packet is full. *)
LEMMA CopyForm ==
  ASSUME SenderInv, Copy
  PROVE  \E w \in Nat \ {0} :
           /\ ipc = "fill" /\ current # <<>> /\ batch = <<>>
           /\ data' \in Seq(Bytes) /\ Len(data') = Len(data) + w /\ Len(data) + w <= Capacity
           /\ \A i \in 1..Len(data) : data'[i] = data[i]
           /\ \A i \in 1..w : data'[Len(data) + i] = current[curOffset + i]
           /\ \/ curOffset + w = Len(current) /\ current' = <<>> /\ curOffset' = 0
              \/ /\ curOffset + w < Len(current) /\ Len(data) + w = Capacity
                 /\ current' = current /\ curOffset' = curOffset + w
  <1> DEFINE room == Capacity - Len(data)
             left == Len(current) - curOffset
             w == IF left > room THEN room ELSE left
             added == SubSeq(current, curOffset + 1, curOffset + w)
             done == curOffset + w >= Len(current)
  <1>1. /\ data \in Seq(Bytes) /\ current \in Seq(Bytes) /\ curOffset \in Nat /\ Capacity \in Nat
        /\ Len(data) \in Nat /\ Len(current) \in Nat
    BY Constants DEF SenderInv, Typed, FillTypes
  <1>2. Len(data) < Capacity /\ current # <<>> /\ ipc = "fill"
    BY DEF Copy
  <1>3. curOffset < Len(current) /\ batch = <<>>
    BY <1>2 DEF SenderInv, IoState
  <1>4. /\ w \in Nat \ {0} /\ Len(data) + w <= Capacity /\ curOffset + w <= Len(current)
        /\ curOffset + w < Len(current) => Len(data) + w = Capacity
    BY <1>1, <1>2, <1>3
  <1>5. /\ data' = data \o added
        /\ current' = (IF done THEN <<>> ELSE current)
        /\ curOffset' = (IF done THEN 0 ELSE curOffset + w)
    BY Zenon DEF Copy
  <1>d. done <=> curOffset + w >= Len(current)
    OBVIOUS
  <1>a. added = SubSeq(current, curOffset + 1, curOffset + w)
    OBVIOUS
  <1> HIDE DEF w, done, added
  <1>6. /\ added \in Seq(Bytes) /\ Len(added) = w
        /\ \A i \in 1..w : added[i] = current[curOffset + i]
    <2>1. \A i \in (curOffset + 1)..(curOffset + w) : current[i] \in Bytes
      BY <1>1, <1>4, ElementOfSeq
    <2> DEFINE m == curOffset + 1  n == curOffset + w
    <2>2. m \in Int /\ n \in Int /\ m <= n /\ n - m + 1 = w /\ curOffset \in Int
      BY <1>1, <1>4
    <2>3. \A i \in 1..w : m + i - 1 = curOffset + i
      BY <1>1, <1>4
    <2>4. added = SubSeq(current, m, n)
      BY <1>a
    <2> HIDE DEF m, n
    <2>5. \A i \in m..n : current[i] \in Bytes
      BY <2>1 DEF m, n
    <2>6. /\ added \in Seq(Bytes) /\ Len(added) = n - m + 1
          /\ \A i \in 1..(n - m + 1) : added[i] = current[m + i - 1]
      BY <2>2, <2>4, <2>5, SubSeqProperties
    <2> QED BY <2>2, <2>3, <2>6
  <1>7. /\ data' \in Seq(Bytes) /\ Len(data') = Len(data) + w
        /\ \A i \in 1..(Len(data) + w) :
             data'[i] = IF i <= Len(data) THEN data[i] ELSE added[i - Len(data)]
    BY <1>1, <1>5, <1>6, ConcatProperties
  <1>8. /\ \A i \in 1..Len(data) : data'[i] = data[i]
        /\ \A i \in 1..w : data'[Len(data) + i] = current[curOffset + i]
    <2>1. ASSUME NEW i \in 1..Len(data) PROVE data'[i] = data[i]
      BY <1>1, <1>4, <1>7
    <2>2. ASSUME NEW i \in 1..w PROVE data'[Len(data) + i] = current[curOffset + i]
      <3> DEFINE j == Len(data) + i
      <3>1. j \in 1..(Len(data) + w) /\ ~(j <= Len(data)) /\ j - Len(data) = i
        BY <1>1, <1>4
      <3> HIDE DEF j
      <3>2. data'[j] = added[i]
        BY <1>7, <3>1
      <3> QED BY <1>6, <3>2 DEF j
    <2> QED BY <2>1, <2>2
  <1>9. \/ curOffset + w = Len(current) /\ current' = <<>> /\ curOffset' = 0
        \/ /\ curOffset + w < Len(current) /\ Len(data) + w = Capacity
           /\ current' = current /\ curOffset' = curOffset + w
    <2>1. CASE done
      <3>1. curOffset + w = Len(current)
        BY <1>1, <1>4, <1>d, <2>1
      <3> QED BY <1>5, <2>1, <3>1
    <2>2. CASE ~done
      <3>1. curOffset + w < Len(current)
        BY <1>1, <1>4, <1>d, <2>2
      <3> QED BY <1>4, <1>5, <2>2, <3>1
    <2> QED BY <2>1, <2>2
  <1> QED BY <1>2, <1>3, <1>4, <1>7, <1>8, <1>9, Zenon

(* The serializer makes one block of what it took. *)
LEMMA BlockForm ==
  ASSUME NEW bytes \in Seq(Nat), FlushBlock(bytes)
  PROVE  /\ current' \in Seq(Bytes) /\ Len(current') = Len(bytes)
         /\ \A i \in 1..Len(bytes) : /\ current'[i].at = bytes[i]
                                     /\ current'[i].begins <=> i = 1
         /\ batch' = <<>> /\ reads' = 0
  <1>1. current' = [i \in 1..Len(bytes) |-> [at |-> bytes[i], begins |-> (i = 1)]]
    BY DEF FlushBlock, Stream!Byte
  <1>2. batch' = <<>> /\ reads' = 0
    BY DEF FlushBlock
  <1>3. \A i \in 1..Len(bytes) : [at |-> bytes[i], begins |-> (i = 1)] \in Bytes
    BY DEF Bytes
  <1>4. current' \in Seq(Bytes) /\ Len(current') = Len(bytes)
    BY <1>1, <1>3
  <1>5. \A i \in 1..Len(bytes) : current'[i] = [at |-> bytes[i], begins |-> (i = 1)]
    BY <1>1
  <1>6. ASSUME NEW i \in 1..Len(bytes)
        PROVE  current'[i].at = bytes[i] /\ (current'[i].begins <=> i = 1)
    <2>1. current'[i] = [at |-> bytes[i], begins |-> (i = 1)]
      BY <1>5
    <2>2. [at |-> bytes[i], begins |-> (i = 1)].at = bytes[i]
      OBVIOUS
    <2>3. [at |-> bytes[i], begins |-> (i = 1)].begins = (i = 1)
      OBVIOUS
    <2> QED BY <2>1, <2>2, <2>3, Zenon
  <1> QED BY <1>2, <1>4, <1>6, Zenon

(* The header set for a message read behind the packet's bytes so far. *)
LEMMA NewHeader ==
  ASSUME SenderInv
  PROVE  Stream!Header(Len(data)) \in Nat /\ Stream!OffsetOf(Stream!Header(Len(data))) = Len(data)
  <1>1. Len(data) \in Nat /\ Len(data) <= Stream!kNonExistOffset
    BY Constants DEF SenderInv, Typed, FillTypes
  <1> QED BY <1>1, HeaderValue, Zenon

(* The message that is read is the next one, and not the end. *)
LEMMA ReadForm ==
  ASSUME SenderInv, ReadMessage
  PROVE  \E msg \in Seq(Nat) :
           /\ msg = pipe.items[pipe.taken + 1] /\ msg # <<>> /\ ~ended
           /\ pipe' \in Channels /\ Sound(pipe') /\ pipe'.items = pipe.items
           /\ pipe'.taken = pipe.taken + 1 /\ pipe.taken + 1 \in 1..Len(pipe.items)
           /\ \/ reads + 1 = MaxBatch /\ FlushBlock(batch \o msg)
              \/ /\ reads + 1 < MaxBatch /\ batch' = batch \o msg /\ reads' = reads + 1
                 /\ current' = current
  <1>1. pipe \in Channels /\ Sound(pipe)
    BY DEF SenderInv, Typed
  <1>2. HasItem(pipe) /\ ~ended /\ NextItem(pipe) # <<>> /\ pipe' = Take(pipe)
    BY DEF ReadMessage, Delimiter
  <1>3. /\ pipe' \in Channels /\ Sound(pipe') /\ pipe'.items = pipe.items
        /\ pipe'.taken = pipe.taken + 1 /\ pipe.taken + 1 \in 1..Len(pipe.items)
    BY <1>1, <1>2, Taken
  <1>4. NextItem(pipe) \in Seq(Nat)
    <2>1. pipe.items \in Seq(Seq(Nat))
      BY <1>1 DEF Channels
    <2> QED BY <1>3, <2>1, ElementOfSeq DEF NextItem
  <1>5. \/ reads + 1 = MaxBatch /\ FlushBlock(batch \o NextItem(pipe))
        \/ /\ reads + 1 < MaxBatch /\ batch' = batch \o NextItem(pipe) /\ reads' = reads + 1
           /\ current' = current
    BY Zenon DEF ReadMessage
  <1> QED BY <1>2, <1>3, <1>4, <1>5, Zenon DEF NextItem

(* What a Read that finds nothing, or the end, leaves. *)
LEMMA NothingForm ==
  ASSUME SenderInv, ReadNothing
  PROVE  /\ pipe' \in Channels /\ Sound(pipe') /\ pipe'.items = pipe.items
         /\ pipe.taken <= pipe'.taken
         /\ ended => ended' /\ pipe' = pipe
         /\ ~ended /\ ended' => /\ pipe'.taken = pipe.taken + 1
                                /\ pipe'.taken \in 1..Len(pipe.items)
                                /\ pipe.items[pipe'.taken] = Delimiter
         /\ ~ended' => pipe'.taken = pipe.taken /\ pipe'.reader = "asleep"
         /\ ended' \in BOOLEAN
  <1>1. pipe \in Channels /\ Sound(pipe) /\ ended \in BOOLEAN
    BY DEF SenderInv, Typed, SelectTypes
  <1>t. pipe.taken \in Nat /\ pipe.taken <= pipe.taken /\ pipe.taken <= pipe.taken + 1
    BY <1>1 DEF Channels
  <1>2. \/ ended /\ pipe' = pipe /\ ended' = ended
        \/ ~ended /\ ~HasItem(pipe) /\ pipe' = Checked(pipe) /\ ended' = ended
        \/ /\ ~ended /\ HasItem(pipe) /\ NextItem(pipe) = Delimiter
           /\ pipe' = Take(pipe) /\ ended' = TRUE
    BY DEF ReadNothing
  <1>3. CASE ended /\ pipe' = pipe /\ ended' = ended
    BY <1>1, <1>t, <1>3, Zenon
  <1>4. CASE ~ended /\ ~HasItem(pipe) /\ pipe' = Checked(pipe) /\ ended' = ended
    BY <1>1, <1>t, <1>4, FoundNone, Zenon
  <1>5. CASE ~ended /\ HasItem(pipe) /\ NextItem(pipe) = Delimiter
             /\ pipe' = Take(pipe) /\ ended' = TRUE
    BY <1>1, <1>t, <1>5, Taken, Zenon DEF NextItem
  <1> QED BY <1>2, <1>3, <1>4, <1>5

\* The I/O thread's half of Next.
IoStep ==
  \/ PollOut \/ Plug \/ RestartOutput \/ Terminate
  \/ InEvent \/ RxTimerEvent \/ TxTimerEvent
  \/ OutEventStep

(* Timers are set, cancelled and expire one by one. *)
LEMMA TimersKept ==
  ASSUME SenderInv, IoStep
  PROVE  armed' \in [{"tx", "rx"} -> Nat] /\ TimersTracked'
  <1> USE DEF IoStep, OutEventStep
  <1> DEFINE Tracks(a, tx, rx) == /\ a \in [{"tx", "rx"} -> Nat]
                                  /\ a.tx = (IF tx THEN 1 ELSE 0) /\ a.rx = (IF rx THEN 1 ELSE 0)
  <1>1. /\ Tracks(armed, hasTx, hasRx) /\ hasTx \in BOOLEAN /\ hasRx \in BOOLEAN
        /\ plugged \in BOOLEAN
        /\ ~plugged => ~hasTx /\ ~hasRx /\ ipc = "idle"
    BY DEF SenderInv, Typed, SelectTypes, TimersTracked, CommandOrder
  <1>2. ASSUME NEW n \in Nat, NEW again \in BOOLEAN,
               armed' = [armed EXCEPT !.rx = n + IF again THEN 1 ELSE 0], n = 0,
               hasRx' = again, hasTx' = hasTx, plugged' = plugged, plugged
        PROVE  armed' \in [{"tx", "rx"} -> Nat] /\ TimersTracked'
    BY <1>1, <1>2 DEF TimersTracked
  <1>3. CASE InEvent
    BY <1>1, <1>2, <1>3 DEF InEvent, ProcessUpstream
  <1>4. CASE RxTimerEvent
    BY <1>1, <1>2, <1>4 DEF RxTimerEvent, ProcessUpstream
  <1>5. CASE TxTimerEvent
    BY <1>1, <1>5 DEF TxTimerEvent, TimersTracked
  <1>6. CASE Terminate
    BY <1>1, <1>6 DEF Terminate, TimersTracked
  <1>7. CASE SendAll \/ SendBusy
    BY <1>1, <1>7 DEF SendAll, SendBusy, CancelTx, TimersTracked
  <1>8. CASE SendLimited
    BY <1>1, <1>8 DEF SendLimited, TimersTracked
  <1>9. CASE Plug
    BY <1>1, <1>9 DEF Plug, TimersTracked
  <1>10. CASE PollOut \/ RestartOutput \/ Copy \/ ReadMessage \/ ReadNothing \/ PacketFull
    BY <1>1, <1>10 DEF PollOut, RestartOutput, Copy, ReadMessage, ReadNothing, PacketFull,
                       TimersTracked, selectVars
  <1> QED BY <1>3, <1>4, <1>5, <1>6, <1>7, <1>8, <1>9, <1>10

(* and so does the I/O thread. *)
LEMMA IoTyped ==
  ASSUME SenderInv, IoStep
  PROVE  Typed'
  <1> USE DEF IoStep, OutEventStep
  <1>1. UiTypes'
    <2>1. UNCHANGED uiVars
      BY DEF PollOut, Plug, RestartOutput, Terminate, InEvent, RxTimerEvent, TxTimerEvent, Copy,
             ReadMessage, ReadNothing, PacketFull, SendAll, SendBusy, SendLimited,
             ProcessUpstream
    <2>2. UiTypes
      BY DEF SenderInv, Typed
    <2> QED BY <2>1, <2>2 DEF UiTypes, uiVars
  <1>2. pipe' \in Channels
    <2>1. pipe \in Channels
      BY DEF SenderInv, Typed
    <2>2. CASE ReadMessage
      BY <2>2, ReadForm
    <2>3. CASE ReadNothing
      BY <2>3, NothingForm
    <2>4. CASE ~ReadMessage /\ ~ReadNothing
      <3>1. pipe' = pipe
        BY <2>4 DEF PollOut, Plug, RestartOutput, Terminate, InEvent, RxTimerEvent,
             TxTimerEvent, Copy, PacketFull, SendAll, SendBusy, SendLimited, ProcessUpstream,
             BeginOutEvent
      <3> QED BY <2>1, <3>1, Zenon
    <2> QED BY <2>2, <2>3, <2>4
  <1>3. CommandTypes'
    <2>1. CommandTypes
      BY DEF SenderInv, Typed
    <2>2. commands' = commands \/ (commands # <<>> /\ commands' = Tail(commands))
      BY Zenon DEF PollOut, Plug, RestartOutput, Terminate, InEvent, RxTimerEvent, TxTimerEvent,
             Copy, ReadMessage, ReadNothing, PacketFull, SendAll, SendBusy, SendLimited,
             ProcessUpstream, TakeCommand
    <2>3. CASE commands' = commands
      BY <2>1, <2>3 DEF CommandTypes
    <2>4. CASE commands # <<>> /\ commands' = Tail(commands)
      BY <2>1, <2>4, HeadTailProperties DEF CommandTypes
    <2> QED BY <2>2, <2>3, <2>4
  <1>4. SelectTypes'
    <2>1. SelectTypes /\ TimersTracked
      BY DEF SenderInv, Typed
    <2>2. ended' \in BOOLEAN
      <3>1. CASE ReadNothing
        BY <3>1, NothingForm
      <3>2. CASE ~ReadNothing
        <4>1. ended' = ended
          BY <3>2 DEF PollOut, Plug, RestartOutput, Terminate, InEvent, RxTimerEvent,
             TxTimerEvent, Copy, ReadMessage, PacketFull, SendAll, SendBusy, SendLimited,
             ProcessUpstream, BeginOutEvent
        <4> QED BY <2>1, <4>1 DEF SelectTypes
      <3> QED BY <3>1, <3>2
    <2>3. /\ plugged' \in BOOLEAN /\ pollout' \in BOOLEAN /\ ipc' \in {"idle", "fill", "send"}
      BY <2>1 DEF SelectTypes, PollOut, Plug, RestartOutput, Terminate, InEvent, RxTimerEvent,
           TxTimerEvent, Copy, ReadMessage, ReadNothing, PacketFull, SendAll, SendBusy,
           SendLimited, ProcessUpstream, BeginOutEvent, ClosePacket, CancelTx, selectVars
    <2>4. hasTx' \in BOOLEAN /\ hasRx' \in BOOLEAN
      BY <2>1 DEF SelectTypes, PollOut, Plug, RestartOutput, Terminate, InEvent, RxTimerEvent,
           TxTimerEvent, Copy, ReadMessage, ReadNothing, PacketFull, SendAll, SendBusy,
           SendLimited, ProcessUpstream, CancelTx, selectVars
    <2>5. armed' \in [{"tx", "rx"} -> Nat]
      BY TimersKept, Zenon
    <2> QED BY <2>2, <2>3, <2>4, <2>5, Zenon DEF SelectTypes
  <1>5. FillTypes'
    <2>1. FillTypes
      BY DEF SenderInv, Typed
    <2>2. CASE Copy
      <3> PICK w \in Nat \ {0} :
           /\ ipc = "fill" /\ current # <<>> /\ batch = <<>>
           /\ data' \in Seq(Bytes) /\ Len(data') = Len(data) + w /\ Len(data) + w <= Capacity
           /\ \A i \in 1..Len(data) : data'[i] = data[i]
           /\ \A i \in 1..w : data'[Len(data) + i] = current[curOffset + i]
           /\ \/ curOffset + w = Len(current) /\ current' = <<>> /\ curOffset' = 0
              \/ /\ curOffset + w < Len(current) /\ Len(data) + w = Capacity
                 /\ current' = current /\ curOffset' = curOffset + w
        BY <2>2, CopyForm, Zenon
      <3>1. current' \in Seq(Bytes) /\ curOffset' \in 0..Len(current')
        <4>1. <<>> \in Seq(Bytes) /\ 0 \in 0..Len(<<>>)
          OBVIOUS
        <4>2. current \in Seq(Bytes)
          BY <2>1 DEF FillTypes
        <4>3. curOffset + w < Len(current) => curOffset + w \in 0..Len(current)
          BY <2>1 DEF FillTypes
        <4> QED BY <4>1, <4>2, <4>3, Zenon
      <3>2. UNCHANGED <<header, batch, reads>>
        BY <2>2 DEF Copy
      <3>3. Len(data') <= Capacity
        OBVIOUS
      <3> QED BY <2>1, <3>1, <3>2, <3>3 DEF FillTypes
    <2>3. CASE ReadMessage
      <3>1. header' \in Nat
        <4>1. header' = header \/ header' = Stream!Header(Len(data))
          BY <2>3 DEF ReadMessage, SetOffset
        <4>2. header \in Nat
          BY <2>1 DEF FillTypes
        <4> QED BY <4>1, <4>2, NewHeader, Zenon
      <3>2. UNCHANGED <<data, curOffset>> /\ current = <<>>
        BY <2>3 DEF ReadMessage, Reading
      <3>3. curOffset = 0
        BY <3>2 DEF SenderInv, IoState
      <3> PICK msg \in Seq(Nat) :
           \/ reads + 1 = MaxBatch /\ FlushBlock(batch \o msg)
           \/ /\ reads + 1 < MaxBatch /\ batch' = batch \o msg /\ reads' = reads + 1
              /\ current' = current
        BY <2>3, ReadForm
      <3>4. batch \o msg \in Seq(Nat)
        BY <2>1, ConcatProperties DEF FillTypes
      <3>5. CASE FlushBlock(batch \o msg)
        <4>1. /\ current' \in Seq(Bytes) /\ batch' = <<>> /\ reads' = 0
          BY <3>4, <3>5, BlockForm
        <4>2. batch' \in Seq(Nat) /\ reads' \in 0..(MaxBatch - 1) /\ curOffset' \in 0..Len(current')
          BY <4>1, <3>2, <3>3, Constants
        <4> QED BY <2>1, <3>1, <3>2, <4>1, <4>2 DEF FillTypes
      <3>6. CASE reads + 1 < MaxBatch /\ batch' = batch \o msg /\ reads' = reads + 1
                 /\ current' = current
        <4>1. batch' \in Seq(Nat) /\ reads' \in 0..(MaxBatch - 1)
          BY <2>1, <3>4, <3>6, Constants DEF FillTypes
        <4> QED BY <2>1, <3>1, <3>2, <3>6, <4>1 DEF FillTypes
      <3> QED BY <3>5, <3>6
    <2>4. CASE ReadNothing
      <3>1. UNCHANGED <<data, header, curOffset>> /\ current = <<>>
        BY <2>4 DEF ReadNothing, Reading
      <3>2. curOffset = 0
        BY <3>1 DEF SenderInv, IoState
      <3>3. FlushBlock(batch) \/ UNCHANGED <<batch, reads, current>>
        BY <2>4 DEF ReadNothing
      <3>4. CASE FlushBlock(batch)
        <4>1. /\ current' \in Seq(Bytes) /\ batch' = <<>> /\ reads' = 0
          BY <2>1, <3>4, BlockForm DEF FillTypes
        <4>2. batch' \in Seq(Nat) /\ reads' \in 0..(MaxBatch - 1) /\ curOffset' \in 0..Len(current')
          BY <4>1, <3>1, <3>2, Constants
        <4> QED BY <2>1, <3>1, <4>1, <4>2 DEF FillTypes
      <3>5. CASE UNCHANGED <<batch, reads, current>>
        BY <2>1, <3>1, <3>5 DEF FillTypes
      <3> QED BY <3>3, <3>4, <3>5
    <2>5. CASE PollOut \/ RestartOutput \/ TxTimerEvent
      <3>1. /\ data' = <<>> /\ header' = Stream!Header(Stream!kNonExistOffset)
            /\ UNCHANGED <<batch, reads, current, curOffset>>
        BY <2>5 DEF PollOut, RestartOutput, TxTimerEvent, BeginOutEvent
      <3>0. header' \in Nat
        <4>1. Stream!kNonExistOffset \in Nat /\ Stream!kNonExistOffset <= Stream!kNonExistOffset
          BY Constants
        <4> QED BY <3>1, <4>1, HeaderValue, Zenon
      <3>2. data' \in Seq(Bytes) /\ Len(data') <= Capacity
        BY <3>1, Constants
      <3> QED BY <2>1, <3>0, <3>1, <3>2 DEF FillTypes
    <2>6. CASE \/ Plug \/ Terminate \/ InEvent \/ RxTimerEvent \/ PacketFull
               \/ SendAll \/ SendBusy \/ SendLimited
      <3>1. UNCHANGED fillVars
        BY <2>6 DEF Plug, Terminate, InEvent, RxTimerEvent, PacketFull, SendAll, SendBusy,
                    SendLimited, ProcessUpstream
      <3> QED BY <2>1, <3>1 DEF FillTypes, fillVars
    <2> QED BY <2>2, <2>3, <2>4, <2>5, <2>6
  <1>6. PacketTypes'
    <2>1. PacketTypes /\ FillTypes
      BY DEF SenderInv, Typed
    <2>2. CASE ReadNothing \/ PacketFull
      <3>1. \/ UNCHANGED <<packet, nextIndex>>
            \/ /\ packet' = [header |-> header, index |-> nextIndex, data |-> data]
               /\ nextIndex' = (nextIndex + 1) % IndexMod
        BY <2>2 DEF ReadNothing, PacketFull, ClosePacket
      <3>2. [header |-> header, index |-> nextIndex, data |-> data] \in Packets
        BY <2>1, Constants DEF PacketTypes, FillTypes, Packets
      <3>3. (nextIndex + 1) % IndexMod \in 0..(IndexMod - 1)
        BY <2>1, Constants DEF PacketTypes
      <3>4. UNCHANGED sent
        BY <2>2 DEF ReadNothing, PacketFull
      <3> QED BY <2>1, <3>1, <3>2, <3>3, <3>4 DEF PacketTypes
    <2>3. CASE SendAll
      <3>1. packet \in Packets
        BY <2>1, <2>3 DEF SendAll, SenderInv, IoState, PacketTypes
      <3> QED BY <2>1, <2>3, <3>1 DEF SendAll, PacketTypes
    <2>4. CASE ~(ReadNothing \/ PacketFull \/ SendAll)
      <3>1. UNCHANGED <<packet, nextIndex, sent>>
        BY <2>4 DEF PollOut, Plug, RestartOutput, Terminate, InEvent, RxTimerEvent,
             TxTimerEvent, Copy, ReadMessage, SendBusy, SendLimited, ProcessUpstream,
             BeginOutEvent
      <3> QED BY <2>1, <3>1 DEF PacketTypes
    <2> QED BY <2>2, <2>3, <2>4
  <1> QED BY <1>1, <1>2, <1>3, <1>4, <1>5, <1>6 DEF Typed

-----------------------------------------------------------------------------
(* Writing to the pipe: to be done next is the wake-up, if the reader sleeps. *)
LEMMA WriteForm ==
  ASSUME NEW msg \in Seq(Nat), WritePipe(msg), pipe \in Channels, Sound(pipe), rest' \in Seq(Nat)
  PROVE  /\ pipe' = Wrote(pipe, msg)
         /\ upc' \in {"command", "idle", "rest"}
         /\ pipe.reader = "asleep" => upc' = "command"
         /\ upc' = "rest" => rest' # <<>>
         /\ upc' = "idle" => rest' = <<>>
  <1>1. FlushResult(Put(pipe, msg, FALSE)) <=> pipe.reader = "awake"
    BY WriteFields, Zenon
  <1> QED BY <1>1, Zenon DEF WritePipe, Wrote

(* What the pushing thread does in one step, seen from the I/O thread. *)
LEMMA UiMoves ==
  ASSUME SenderInv, UiStep
  PROVE  /\ UNCHANGED <<selectVars, ended, ipc, fillVars, packet, nextIndex, sent>>
         /\ upc \notin {"stopped"}
         /\ \/ Start \/ AwakePeer \/ Stop
            \/ StopPipe
            \/ pipe' = pipe /\ commands' = commands /\ upc \in {"idle", "rest"} /\ upc' \in {"idle", "rest"}
            \/ \E msg \in Seq(Nat) :
                 /\ pipe' = Wrote(pipe, msg) /\ commands' = commands
                 /\ msg # Delimiter /\ upc \in {"idle", "rest"}
                 /\ upc' \in {"command", "idle", "rest"}
                 /\ pipe.reader = "asleep" => upc' = "command"
         /\ UiState'
  <1>1. UNCHANGED <<selectVars, ended, ipc, fillVars, packet, nextIndex, sent>>
    BY DEF UiStep, Start, PushMessage, PushRest, EndPush, AwakePeer, Stop, StopPipe
  <1>2. upc \notin {"stopped"}
    BY DEF UiStep, Start, PushMessage, PushRest, EndPush, AwakePeer, Stop, StopPipe
  <1>3. /\ cache \in Seq(Nat) /\ rest \in Seq(Nat) /\ pipe \in Channels /\ Sound(pipe)
        /\ rest' \in Seq(Nat) /\ UiState /\ CacheSize > 0 /\ Delimiter = <<>>
    BY UiTyped, Constants DEF SenderInv, Typed, UiTypes, Delimiter
  <1> DEFINE Quietly == pipe' = pipe /\ commands' = commands /\ upc \in {"idle", "rest"} /\ upc' \in {"idle", "rest"}
             Writes == \E msg \in Seq(Nat) :
                 /\ pipe' = Wrote(pipe, msg) /\ commands' = commands
                 /\ msg # Delimiter /\ upc \in {"idle", "rest"}
                 /\ upc' \in {"command", "idle", "rest"}
                 /\ pipe.reader = "asleep" => upc' = "command"
  <1>4. ASSUME NEW bytes \in Seq(Nat), Place(bytes), commands' = commands,
               upc \in {"idle", "rest"}
        PROVE  (Quietly \/ Writes) /\ UiState'
    <2>1. CASE Len(bytes) >= CacheSize /\ WritePipe(bytes) /\ cache' = <<>>
      <3>1. bytes # Delimiter
        <4>1. Len(<<>>) = 0 /\ CacheSize \in Nat \ {0}
          BY Constants
        <4>2. Len(bytes) # 0
          BY <2>1, <4>1
        <4> QED BY <1>3, <4>1, <4>2, Zenon
      <3>2. /\ pipe' = Wrote(pipe, bytes)
            /\ upc' \in {"command", "idle", "rest"}
            /\ pipe.reader = "asleep" => upc' = "command"
            /\ upc' = "rest" => rest' # <<>>
            /\ upc' = "idle" => rest' = <<>>
        BY <1>3, <2>1, WriteForm
      <3> QED BY <1>4, <2>1, <3>1, <3>2, Zenon DEF UiState, Place
    <2>2. CASE Len(bytes) < CacheSize /\ cache' = bytes /\ upc' = "idle" /\ UNCHANGED pipe
      BY <1>4, <2>2 DEF Place, UiState
    <2> QED BY <1>4, <2>1, <2>2 DEF Place
  <1>5. ASSUME WritePipe(cache), cache # <<>>, cache' = <<>>, commands' = commands,
               upc = "idle"
        PROVE  (Quietly \/ Writes) /\ UiState'
    <2>1. /\ pipe' = Wrote(pipe, cache)
          /\ upc' \in {"command", "idle", "rest"}
          /\ pipe.reader = "asleep" => upc' = "command"
          /\ upc' = "rest" => rest' # <<>>
          /\ upc' = "idle" => rest' = <<>>
      BY <1>3, <1>5, WriteForm
    <2> QED BY <1>3, <1>5, <2>1 DEF UiState
  <1>6. ASSUME NEW size \in Sizes, PushMessage(size)
        PROVE  (Quietly \/ Writes) /\ UiState'
    <2>1. commands' = commands /\ upc = "idle"
      BY <1>6 DEF PushMessage
    <2> PICK bytes \in Seq(Nat) :
           \/ cache = <<>> /\ Place(bytes)
           \/ /\ cache # <<>> /\ cache' = cache \o bytes
              /\ UNCHANGED <<pipe, rest, upc>>
           \/ /\ cache # <<>> /\ rest' = bytes /\ WritePipe(cache) /\ cache' = <<>>
      BY <1>6, PushMessageForm, Zenon
    <2>2. CASE Place(bytes)
      BY <1>4, <2>1, <2>2
    <2>3. CASE WritePipe(cache) /\ cache # <<>> /\ cache' = <<>>
      BY <1>5, <2>1, <2>3
    <2>4. CASE UNCHANGED <<pipe, rest, upc>>
      BY <1>3, <2>1, <2>4 DEF UiState
    <2> QED BY <2>2, <2>3, <2>4
  <1>7. PushRest => (Quietly \/ Writes) /\ UiState'
    BY <1>3, <1>4 DEF PushRest
  <1>8. EndPush => (Quietly \/ Writes) /\ UiState'
    BY <1>5 DEF EndPush
  <1>9. CASE Start \/ AwakePeer \/ Stop \/ StopPipe
    <2>1. UiState'
      BY <1>3, <1>9 DEF UiState, Start, AwakePeer, Stop, StopPipe
    <2> QED BY <1>1, <1>2, <1>9, <2>1
  <1> HIDE DEF Quietly, Writes
  <1>10. \/ Start \/ AwakePeer \/ Stop \/ StopPipe \/ ((Quietly \/ Writes) /\ UiState')
    BY <1>6, <1>7, <1>8, Zenon DEF UiStep
  <1> QED BY <1>1, <1>2, <1>9, <1>10 DEF Quietly, Writes

(* Commands stay in order, and nothing becomes readable without a wake-up. *)
LEMMA UiControl ==
  ASSUME SenderInv, UiStep
  PROVE  (Sound(pipe) /\ CommandOrder /\ TimersTracked /\ IoState /\ Ends /\ Wakeups)'
  <1>1. UNCHANGED <<selectVars, ended, ipc, fillVars, packet, nextIndex, sent>>
    BY UiMoves
  <1>2. /\ pipe \in Channels /\ Sound(pipe) /\ commands \in Seq({"plug", "restart", "terminate"})
        /\ CommandOrder /\ TimersTracked /\ IoState /\ Ends /\ Wakeups
    BY DEF SenderInv, Typed, CommandTypes
  <1>3. IoState' /\ TimersTracked'
    BY <1>1, <1>2 DEF IoState, TimersTracked, selectVars, fillVars
  <1> DEFINE n == Len(pipe.items)
  <1>4. n \in Nat /\ pipe.items \in Seq(Seq(Nat)) /\ pipe.taken \in 0..n
    BY <1>2 DEF Channels, Sound
  <1>n. n = Len(pipe.items)
    OBVIOUS
  <1>w. ASSUME NEW msg \in Seq(Nat), pipe' = Wrote(pipe, msg)
        PROVE  /\ Sound(pipe') /\ pipe'.taken = pipe.taken
               /\ Len(pipe'.items) = n + 1 /\ pipe'.items[n + 1] = msg
               /\ \A i \in 1..n : pipe'.items[i] = pipe.items[i]
    <2>1. pipe \in Channels /\ Sound(pipe)
      BY <1>2
    <2> QED BY <2>1, <1>w, Written
  <1> HIDE DEF n
  <1>5. ASSUME NEW c \in {"plug", "restart", "terminate"}, SendCommand(c)
        PROVE  /\ Len(commands') = Len(commands) + 1 /\ Len(commands) \in Nat
               /\ commands'[Len(commands) + 1] = c /\ commands' # <<>>
               /\ \A i \in 1..Len(commands) : commands'[i] = commands[i]
    BY <1>2, <1>5 DEF SendCommand
  <1>6. CASE Start
    <2>1. commands = <<>> /\ ~plugged /\ upc = "new" /\ upc' = "idle" /\ pipe' = pipe
          /\ SendCommand("plug")
      BY <1>2, <1>6 DEF Start, CommandOrder
    <2>2. Len(commands') = 1 /\ commands'[1] = "plug" /\ commands' # <<>>
      BY <1>5, <2>1
    <2>3. CommandOrder'
      BY <1>1, <1>2, <2>1, <2>2 DEF CommandOrder, selectVars
    <2>4. Wakeups'
      BY <1>1, <2>1 DEF Wakeups, selectVars
    <2> QED BY <1>1, <1>2, <1>3, <2>1, <2>3, <2>4 DEF Sound, Ends
  <1>7. CASE AwakePeer
    <2>1. upc = "command" /\ upc' \in {"idle", "rest"} /\ pipe' = pipe /\ SendCommand("restart")
      BY <1>7 DEF AwakePeer
    <2>2. /\ Len(commands') = Len(commands) + 1 /\ Len(commands) \in Nat
          /\ commands'[Len(commands) + 1] = "restart" /\ commands' # <<>>
          /\ \A i \in 1..Len(commands) : commands'[i] = commands[i]
      BY <1>5, <2>1
    <2>3. CommandOrder'
      BY <1>1, <1>2, <2>1, <2>2 DEF CommandOrder, selectVars
    <2>4. Wakeups'
      BY <1>1, <1>2, <2>1, <2>2 DEF Wakeups, Quiet, selectVars, fillVars
    <2> QED BY <1>1, <1>2, <1>3, <2>1, <2>3, <2>4 DEF Sound, Ends
  <1>8. CASE Stop
    <2>1. upc = "idle" /\ upc' = "closing" /\ pipe' = pipe /\ SendCommand("terminate")
      BY <1>8 DEF Stop
    <2>2. /\ Len(commands') = Len(commands) + 1 /\ Len(commands) \in Nat
          /\ commands'[Len(commands) + 1] = "terminate" /\ commands' # <<>>
          /\ \A i \in 1..Len(commands) : commands'[i] = commands[i]
      BY <1>5, <2>1
    <2>3. CommandOrder'
      BY <1>1, <1>2, <2>1, <2>2 DEF CommandOrder, selectVars
    <2>4. Wakeups'
      BY <1>1, <1>2, <2>1, <2>2 DEF Wakeups, Quiet, selectVars, fillVars
    <2> QED BY <1>1, <1>2, <1>3, <2>1, <2>3, <2>4 DEF Sound, Ends
  <1>9. CASE StopPipe
    <2>1. /\ upc = "closing" /\ upc' = "stopped" /\ commands' = commands /\ ended' = ended
          /\ Delimiter \in Seq(Nat) /\ pipe' = Wrote(pipe, Delimiter)
      BY <1>9 DEF StopPipe, Delimiter, Wrote
    <2>2. /\ Sound(pipe') /\ pipe'.taken = pipe.taken
          /\ Len(pipe'.items) = n + 1 /\ pipe'.items[n + 1] = Delimiter
          /\ \A i \in 1..n : pipe'.items[i] = pipe.items[i]
      BY <2>1, <1>w
    <2>3. CommandOrder'
      BY <1>1, <1>2, <2>1 DEF CommandOrder, selectVars
    <2>4. Ends'
      <3>1. ASSUME NEW i \in 1..(n + 1), pipe'.items[i] = Delimiter
            PROVE  i = n + 1
        <4>1. CASE i \in 1..n
          BY <1>2, <1>n, <2>1, <2>2, <3>1, <4>1 DEF Ends
        <4> QED BY <1>4, <4>1
      <3> QED BY <1>2, <2>1, <2>2, <3>1 DEF Ends
    <2>5. ~ended
      BY <1>2, <2>1 DEF Ends
    <2>6. pipe'.taken < Len(pipe'.items)
      BY <1>4, <2>2
    <2>7. pipe.reader = "asleep" => NextItem(pipe') = Delimiter
      BY <1>2, <1>n, <2>2 DEF Sound, NextItem
    <2>8. pipe.taken < n => NextItem(pipe') = NextItem(pipe)
      <3>1. pipe.taken < n => pipe.taken + 1 \in 1..n
        BY <1>4
      <3> QED BY <2>2, <3>1 DEF NextItem
    <2>9. Wakeups'
      BY <1>1, <1>2, <1>n, <2>1, <2>5, <2>6, <2>7, <2>8 DEF Wakeups, Quiet, selectVars, fillVars
    <2> QED BY <1>3, <2>2, <2>3, <2>4, <2>9
  <1>10. CASE pipe' = pipe /\ commands' = commands /\ upc \in {"idle", "rest"} /\ upc' \in {"idle", "rest"}
    <2>1. upc # "stopped"
      BY UiMoves
    <2>2. CommandOrder'
      BY <1>1, <1>2, <1>10, <2>1 DEF CommandOrder, selectVars
    <2>3. Wakeups'
      BY <1>1, <1>2, <1>10 DEF Wakeups, Quiet, selectVars, fillVars
    <2>4. Ends'
      BY <1>1, <1>2, <1>10, <2>1 DEF Ends
    <2> QED BY <1>2, <1>3, <1>10, <2>2, <2>3, <2>4 DEF Sound
  <1>11. CASE \E msg \in Seq(Nat) :
                 /\ pipe' = Wrote(pipe, msg) /\ commands' = commands
                 /\ msg # Delimiter /\ upc \in {"idle", "rest"}
                 /\ upc' \in {"command", "idle", "rest"}
                 /\ pipe.reader = "asleep" => upc' = "command"
    <2> PICK msg \in Seq(Nat) :
                 /\ pipe' = Wrote(pipe, msg) /\ commands' = commands
                 /\ msg # Delimiter /\ upc \in {"idle", "rest"}
                 /\ upc' \in {"command", "idle", "rest"}
                 /\ pipe.reader = "asleep" => upc' = "command"
      BY <1>11
    <2>2. /\ Sound(pipe') /\ pipe'.taken = pipe.taken
          /\ Len(pipe'.items) = n + 1 /\ pipe'.items[n + 1] = msg
          /\ \A i \in 1..n : pipe'.items[i] = pipe.items[i]
      BY <1>w
    <2>3. CommandOrder'
      BY <1>1, <1>2 DEF CommandOrder, selectVars
    <2>4. ended' = ended /\ ~ended
      BY <1>1, <1>2 DEF Ends
    <2>5. \A i \in 1..n : pipe.items[i] # Delimiter
      BY <1>2, <1>n DEF Ends
    <2>6. Ends'
      <3>1. ASSUME NEW i \in 1..(n + 1) PROVE pipe'.items[i] # Delimiter
        <4>1. CASE i \in 1..n
          BY <2>2, <2>5, <4>1
        <4>2. CASE i = n + 1
          BY <2>2, <4>2
        <4>3. i \in 1..n \/ i = n + 1
          BY <1>4
        <4> QED BY <4>1, <4>2, <4>3
      <3> QED BY <2>2, <2>4, <3>1 DEF Ends
    <2>7. ~(pipe.taken < n /\ NextItem(pipe) = Delimiter)
      <3>1. pipe.taken < n => pipe.taken + 1 \in 1..n
        BY <1>4
      <3> QED BY <2>5, <3>1 DEF NextItem
    <2>8. Quiet => Quiet'
      BY <1>n, <2>4, <2>7 DEF Quiet
    <2>9. Wakeups'
      BY <1>1, <1>2, <2>8 DEF Wakeups, selectVars, fillVars
    <2> QED BY <1>3, <2>2, <2>3, <2>6, <2>9
  <1> QED BY <1>6, <1>7, <1>8, <1>9, <1>10, <1>11, UiMoves

-----------------------------------------------------------------------------
(* A command is taken from the front. *)
LEMMA TakeForm ==
  ASSUME SenderInv, NEW type, TakeCommand(type)
  PROVE  /\ ipc = "idle" /\ Len(commands) \in Nat \ {0} /\ commands[1] = type
         /\ Len(commands') = Len(commands) - 1
         /\ \A i \in 1..Len(commands') : commands'[i] = commands[i + 1] /\ i + 1 \in 1..Len(commands)
         /\ \A i \in 2..Len(commands) : commands'[i - 1] = commands[i] /\ i - 1 \in 1..Len(commands')
         /\ commands' = <<>> <=> Len(commands) = 1
  <1>1. commands \in Seq({"plug", "restart", "terminate"}) /\ commands # <<>>
    BY DEF SenderInv, Typed, CommandTypes, TakeCommand
  <1>2. /\ Len(commands) \in Nat \ {0} /\ Len(Tail(commands)) = Len(commands) - 1
        /\ Tail(commands) \in Seq({"plug", "restart", "terminate"})
        /\ \A i \in 1..Len(Tail(commands)) : Tail(commands)[i] = commands[i + 1]
    BY <1>1, HeadTailProperties, EmptySeq
  <1>3. commands' = Tail(commands) /\ ipc = "idle" /\ commands[1] = type
    BY <1>1 DEF TakeCommand
  <1>4. /\ Len(commands') = Len(commands) - 1 /\ commands' \in Seq({"plug", "restart", "terminate"})
        /\ \A i \in 1..Len(commands') : commands'[i] = commands[i + 1]
    BY <1>2, <1>3, Zenon
  <1>5. commands' = <<>> <=> Len(commands) = 1
    BY <1>2, <1>4
  <1>6. \A i \in 1..Len(commands') : i + 1 \in 1..Len(commands)
    BY <1>2, <1>4
  <1>7. ASSUME NEW i \in 2..Len(commands)
        PROVE  commands'[i - 1] = commands[i] /\ i - 1 \in 1..Len(commands')
    <2>1. i - 1 \in 1..Len(commands') /\ (i - 1) + 1 = i
      BY <1>2, <1>4
    <2> QED BY <1>4, <2>1
  <1> QED BY <1>2, <1>3, <1>4, <1>5, <1>6, <1>7

(* Before Plug and after Terminate the I/O thread does nothing else. *)
LEMMA Working ==
  ASSUME SenderInv, IoStep
  PROVE  plugged \/ Plug
  <1>1. /\ CommandOrder /\ TimersTracked
        /\ plugged \in BOOLEAN /\ hasTx \in BOOLEAN /\ hasRx \in BOOLEAN
    BY DEF SenderInv, Typed, SelectTypes
  <1>2. CASE RestartOutput
    <2>1. TakeCommand("restart")
      BY <1>2 DEF RestartOutput
    <2>2. commands[1] = "restart" /\ commands # <<>>
      BY <2>1, TakeForm DEF TakeCommand
    <2> QED BY <1>1, <2>2 DEF CommandOrder
  <1>3. CASE Terminate
    <2>1. TakeCommand("terminate")
      BY <1>3 DEF Terminate
    <2>2. commands[1] = "terminate" /\ commands # <<>>
      BY <2>1, TakeForm DEF TakeCommand
    <2> QED BY <1>1, <2>2 DEF CommandOrder
  <1>4. CASE PollOut \/ InEvent
    BY <1>4 DEF PollOut, InEvent
  <1>5. CASE RxTimerEvent \/ TxTimerEvent
    BY <1>1, <1>5 DEF RxTimerEvent, TxTimerEvent, TimersTracked
  <1>6. CASE OutEventStep
    BY <1>1, <1>6 DEF CommandOrder, OutEventStep, Copy, ReadMessage, ReadNothing, Reading,
                      PacketFull, SendAll, SendBusy, SendLimited
  <1> QED BY <1>2, <1>3, <1>4, <1>5, <1>6 DEF IoStep

(* The commands stay in their order when one is taken. *)
LEMMA IoCommands ==
  ASSUME SenderInv, IoStep
  PROVE  CommandOrder' /\ UiState'
  <1>1. CommandOrder /\ UiState /\ plugged \in BOOLEAN
    BY DEF SenderInv, Typed, SelectTypes
  <1>2. UNCHANGED uiVars
    BY DEF IoStep, OutEventStep, PollOut, Plug, RestartOutput, Terminate, InEvent, RxTimerEvent,
           TxTimerEvent, Copy, ReadMessage, ReadNothing, PacketFull, SendAll, SendBusy,
           SendLimited, ProcessUpstream
  <1>3. UiState'
    BY <1>1, <1>2 DEF UiState, uiVars
  <1>4. CASE Plug
    <2>1. TakeCommand("plug") /\ plugged' = TRUE
      BY <1>4 DEF Plug
    <2>2. upc # "new"
      BY <1>1, <2>1 DEF CommandOrder, TakeCommand
    <2>3. CommandOrder'
      BY <1>1, <1>2, <2>1, <2>2, TakeForm DEF CommandOrder, uiVars
    <2> QED BY <1>3, <2>3
  <1>5. CASE RestartOutput
    <2>1. TakeCommand("restart") /\ plugged'
      BY <1>1, <1>5, Working DEF RestartOutput, Plug, TakeCommand
    <2>2. upc # "new"
      BY <1>1, <2>1 DEF CommandOrder, TakeCommand
    <2>3. CommandOrder'
      BY <1>1, <1>2, <2>1, <2>2, TakeForm DEF CommandOrder, uiVars
    <2> QED BY <1>3, <2>3
  <1>6. CASE Terminate
    <2>1. TakeCommand("terminate") /\ plugged' = FALSE /\ ipc' = ipc
      BY <1>6 DEF Terminate
    <2>2. ipc = "idle" /\ Len(commands) = 1 /\ upc \in {"closing", "stopped"}
      BY <1>1, <2>1, TakeForm DEF CommandOrder
    <2>3. commands' = <<>> /\ Len(commands') = 0
      BY <2>1, <2>2, TakeForm
    <2>4. CommandOrder'
      BY <1>2, <2>1, <2>2, <2>3 DEF CommandOrder, uiVars
    <2> QED BY <1>3, <2>4
  <1>7. CASE ~(Plug \/ RestartOutput \/ Terminate)
    <2>1. commands' = commands /\ plugged' = plugged /\ plugged
      BY <1>7, Working DEF IoStep, OutEventStep, PollOut, InEvent, RxTimerEvent, TxTimerEvent,
           Copy, ReadMessage, ReadNothing, PacketFull, SendAll, SendBusy, SendLimited,
           ProcessUpstream, selectVars
    <2>2. CommandOrder'
      BY <1>1, <1>2, <2>1 DEF CommandOrder, uiVars
    <2> QED BY <1>3, <2>2
  <1> QED BY <1>4, <1>5, <1>6, <1>7

(* What the I/O thread holds, and that it leaves nothing behind unless it is woken. *)
LEMMA IoControl ==
  ASSUME SenderInv, IoStep
  PROVE  (Sound(pipe) /\ IoState /\ Ends /\ Wakeups)'
  <1>1. /\ Typed /\ pipe \in Channels /\ Sound(pipe) /\ IoState /\ Ends /\ Wakeups /\ SelectTypes
        /\ upc' = upc
    BY DEF SenderInv, Typed, IoStep, OutEventStep, PollOut, Plug, RestartOutput, Terminate, InEvent,
           RxTimerEvent, TxTimerEvent, Copy, ReadMessage, ReadNothing, PacketFull, SendAll,
           SendBusy, SendLimited, ProcessUpstream, uiVars
  <1>2. CASE PollOut \/ RestartOutput \/ TxTimerEvent
    <2>1. BeginOutEvent /\ pollout' /\ ipc = "idle"
      BY <1>2 DEF PollOut, RestartOutput, TxTimerEvent, TakeCommand, selectVars
    <2>2. IoState'
      BY <1>1, <2>1 DEF IoState, BeginOutEvent
    <2> QED BY <1>1, <2>1, <2>2 DEF Wakeups, BeginOutEvent, Ends
  <1>3. CASE Plug
    BY <1>1, <1>3 DEF Plug, Wakeups, IoState, fillVars, Ends
  <1>4. CASE Terminate
    BY <1>1, <1>4 DEF Terminate, TakeCommand, Wakeups, IoState, fillVars, Ends
  <1>5. CASE InEvent \/ RxTimerEvent
    <2>1. UNCHANGED <<pipe, ended, commands, plugged, pollout, hasTx, ipc, fillVars, packet>>
      BY <1>5 DEF InEvent, RxTimerEvent, ProcessUpstream
    <2> QED BY <1>1, <2>1 DEF Wakeups, Quiet, IoState, fillVars, Ends
  <1>6. CASE Copy
    <2> PICK w \in Nat \ {0} :
           /\ ipc = "fill" /\ current # <<>> /\ batch = <<>>
           /\ Len(data') = Len(data) + w /\ Len(data) + w <= Capacity
           /\ \/ curOffset + w = Len(current) /\ current' = <<>> /\ curOffset' = 0
              \/ /\ curOffset + w < Len(current) /\ Len(data) + w = Capacity
                 /\ current' = current /\ curOffset' = curOffset + w
      BY <1>6, CopyForm, Zenon
    <2>1. UNCHANGED <<pipe, ended, pollout, hasTx, ipc, packet, batch>>
      BY <1>6 DEF Copy, selectVars
    <2>2. curOffset \in Nat
      BY <1>1 DEF Typed, FillTypes
    <2>3. IoState'
      BY <1>1, <2>1, <2>2 DEF IoState
    <2>4. pollout'
      BY <1>1, <2>1 DEF IoState
    <2> QED BY <1>1, <2>1, <2>3, <2>4 DEF Wakeups, Ends
  <1>7. CASE ReadMessage
    <2>1. /\ UNCHANGED <<ended, pollout, hasTx, ipc, packet, data, curOffset>>
          /\ ipc = "fill" /\ Len(data) < Capacity /\ current = <<>>
      BY <1>7 DEF ReadMessage, Reading, selectVars
    <2>2. curOffset = 0 /\ pollout
      BY <1>1, <2>1 DEF IoState
    <2> PICK msg \in Seq(Nat) :
           /\ msg # <<>> /\ ~ended /\ Sound(pipe') /\ pipe'.items = pipe.items
           /\ \/ reads + 1 = MaxBatch /\ FlushBlock(batch \o msg)
              \/ /\ reads + 1 < MaxBatch /\ batch' = batch \o msg /\ reads' = reads + 1
                 /\ current' = current
      BY <1>7, ReadForm
    <2>3. batch \o msg \in Seq(Nat) /\ Len(batch \o msg) > 0
      <3>1. batch \in Seq(Nat)
        BY <1>1 DEF Typed, FillTypes
      <3> QED BY <3>1, ConcatProperties, EmptySeq
    <2>4. \/ current' # <<>> /\ 0 < Len(current') /\ batch' = <<>>
          \/ batch' # <<>> /\ current' = <<>>
      <3>0. ASSUME NEW b \in Seq(Nat), Len(b) > 0, FlushBlock(b)
            PROVE  current' # <<>> /\ 0 < Len(current') /\ batch' = <<>>
        BY <3>0, BlockForm
      <3>1. CASE FlushBlock(batch \o msg)
        BY <2>3, <3>0, <3>1
      <3>2. CASE batch' = batch \o msg /\ current' = current
        BY <2>1, <2>3, <3>2
      <3> QED BY <3>1, <3>2
    <2>5. IoState'
      BY <1>1, <2>1, <2>2, <2>4 DEF IoState
    <2> QED BY <1>1, <2>1, <2>2, <2>5 DEF Wakeups, Ends
  <1>c. ASSUME ClosePacket, ipc = "fill", batch' = <<>>, UNCHANGED <<data, current, curOffset>>,
               current # <<>> => curOffset # 0
        PROVE  /\ IoState'
               /\ data # <<>> => pollout'
               /\ data = <<>> => packet' = NoPacket
    <2>1. pollout /\ packet = NoPacket
      BY <1>1, <1>c DEF IoState
    <2>2. CASE data = <<>> /\ pollout' = FALSE /\ ipc' = "idle" /\ packet' = packet
      BY <1>1, <1>c, <2>1, <2>2 DEF IoState
    <2>3. CASE /\ data # <<>> /\ ipc' = "send" /\ pollout' = pollout
               /\ packet' = [header |-> header, index |-> nextIndex, data |-> data]
      <3>1. packet'.data # <<>> /\ NoPacket.data = <<>>
        BY <2>3 DEF NoPacket
      <3>2. packet' # NoPacket
        BY <3>1
      <3> QED BY <1>1, <1>c, <2>1, <2>3, <3>2 DEF IoState
    <2> QED BY <1>c, <2>2, <2>3 DEF ClosePacket
  <1>8. CASE ReadNothing
    <2>1. /\ UNCHANGED <<plugged, hasTx, data, curOffset>>
          /\ ipc = "fill" /\ Len(data) < Capacity /\ current = <<>>
          /\ \/ batch # <<>> /\ FlushBlock(batch) /\ UNCHANGED <<ipc, pollout, packet, nextIndex>>
             \/ batch = <<>> /\ ClosePacket /\ UNCHANGED <<batch, reads, current>>
      BY <1>8, Zenon DEF ReadNothing, Reading
    <2>2. curOffset = 0 /\ pollout /\ packet = NoPacket
      BY <1>1, <2>1 DEF IoState
    <2>3. Sound(pipe') /\ Ends'
      <3>1. CASE ended
        BY <1>1, <1>8, <3>1, NothingForm DEF Ends
      <3>2. CASE ~ended
        BY <1>1, <1>8, <3>2, NothingForm DEF Ends
      <3> QED BY <3>1, <3>2
    <2>4. ended' \/ pipe'.reader = "asleep"
      BY <1>8, NothingForm
    <2>5. CASE batch # <<>> /\ FlushBlock(batch) /\ UNCHANGED <<ipc, pollout, packet, nextIndex>>
      <3>1. batch \in Seq(Nat) /\ Len(batch) > 0
        BY <1>1, <2>5, EmptySeq DEF Typed, FillTypes
      <3>2. current' # <<>> /\ 0 < Len(current') /\ batch' = <<>>
        BY <2>5, <3>1, BlockForm
      <3>3. IoState'
        BY <1>1, <2>1, <2>2, <2>5, <3>2 DEF IoState
      <3> QED BY <2>2, <2>3, <2>5, <3>3 DEF Wakeups
    <2>6. CASE batch = <<>> /\ ClosePacket /\ UNCHANGED <<batch, reads, current>>
      <3>1. /\ IoState'
            /\ data # <<>> => pollout'
            /\ data = <<>> => packet' = NoPacket
        BY <1>c, <2>1, <2>6
      <3>2. current' = <<>>
        BY <2>1, <2>6
      <3> QED BY <2>3, <2>4, <3>1, <3>2 DEF Wakeups, Quiet
    <2> QED BY <2>1, <2>5, <2>6
  <1>9. CASE PacketFull
    <2>1. /\ UNCHANGED <<pipe, ended, plugged, hasTx, data, batch, current, curOffset>>
          /\ ipc = "fill" /\ Len(data) = Capacity /\ ClosePacket
      BY <1>9 DEF PacketFull, fillVars
    <2>2. data # <<>>
      <3>1. Len(<<>>) = 0 /\ Capacity # 0
        BY Constants
      <3> QED BY <2>1, <3>1, Zenon
    <2>3. batch' = <<>> /\ (current # <<>> => curOffset # 0)
      BY <1>1, <2>1, Constants DEF IoState
    <2>4. IoState' /\ pollout'
      BY <1>c, <2>1, <2>2, <2>3
    <2> QED BY <1>1, <2>1, <2>4 DEF Wakeups, Ends
  <1>10. CASE SendAll \/ SendBusy \/ SendLimited
    <2>1. /\ UNCHANGED <<pipe, ended, plugged, data, batch, current, curOffset>>
          /\ ipc = "send" /\ ipc' = "idle" /\ (packet' = packet \/ packet' = NoPacket)
      BY <1>10 DEF SendAll, SendBusy, SendLimited, fillVars
    <2>2. pollout' \/ hasTx'
      <3>1. pollout
        BY <1>1, <2>1 DEF IoState
      <3> QED BY <1>10, <3>1 DEF SendAll, SendBusy, SendLimited, CancelTx
    <2>3. IoState'
      BY <1>1, <2>1 DEF IoState
    <2> QED BY <1>1, <2>1, <2>2, <2>3 DEF Wakeups, Ends
  <1> QED BY <1>2, <1>3, <1>4, <1>5, <1>6, <1>7, <1>8, <1>9, <1>10 DEF IoStep, OutEventStep

-----------------------------------------------------------------------------
(* Consecutive bytes behind consecutive bytes. *)
LEMMA RunConcat ==
  ASSUME NEW s \in Seq(Nat), NEW t \in Seq(Nat), NEW n \in Nat, Run(s, n), Run(t, n + Len(s))
  PROVE  s \o t \in Seq(Nat) /\ Len(s \o t) = Len(s) + Len(t) /\ Run(s \o t, n)
  <1> DEFINE u == s \o t
  <1>1. /\ u \in Seq(Nat) /\ Len(u) = Len(s) + Len(t) /\ Len(s) \in Nat /\ Len(t) \in Nat
        /\ \A i \in 1..(Len(s) + Len(t)) : u[i] = IF i <= Len(s) THEN s[i] ELSE t[i - Len(s)]
    BY ConcatProperties
  <1> HIDE DEF u
  <1>2. ASSUME NEW i \in 1..Len(u) PROVE u[i] = n + i
    <2>1. CASE i <= Len(s)
      <3>1. i \in 1..Len(s)
        BY <1>1, <2>1
      <3>2. s[i] = n + i
        BY <3>1 DEF Run
      <3> QED BY <1>1, <2>1, <3>2
    <2>2. CASE i > Len(s)
      <3> DEFINE j == i - Len(s)
      <3>1. j \in 1..Len(t) /\ j + Len(s) = i /\ (n + Len(s)) + j = n + i
        BY <1>1, <2>2
      <3>2. u[i] = t[j]
        BY <1>1, <2>2
      <3> HIDE DEF j
      <3>3. t[j] = (n + Len(s)) + j
        BY <3>1 DEF Run
      <3> QED BY <3>1, <3>2, <3>3
    <2> QED BY <1>1, <2>1, <2>2
  <1>3. Run(u, n)
    BY <1>2 DEF Run
  <1> QED BY <1>1, <1>3 DEF u

(* How many bytes are where: all numbers. *)
LEMMA Places ==
  ASSUME SenderInv
  PROVE  /\ Filled \in Seq(Bytes) /\ BytesSent \in Nat /\ Serialized \in Nat
         /\ \A i \in 1..Len(pipe.items) :
              /\ pipe.items[i] \in Seq(Nat)
              /\ pipe.items[i] # <<>> => After(pipe.items, i) \in Nat
         /\ After(pipe.items, 0) = 0
         /\ upc # "stopped" => After(pipe.items, Len(pipe.items)) \in Nat
  <1>1. /\ packet = NoPacket \/ packet \in Packets
        /\ data \in Seq(Bytes) /\ current \in Seq(Bytes) /\ curOffset \in 0..Len(current)
        /\ sent \in Seq(Packets) /\ pipe \in Channels /\ Ends
        /\ \A i \in 1..Len(sent) : Len(sent[i].data) > 0
    BY DEF SenderInv, Typed, PacketTypes, FillTypes, Numbered
  <1>2. Filled \in Seq(Bytes)
    BY <1>1 DEF Filled, Packets
  <1>3. BytesSent \in Nat
    <2>1. CASE sent = <<>>
      BY <2>1 DEF BytesSent
    <2>2. CASE sent # <<>>
      <3> DEFINE last == sent[Len(sent)].data
      <3>1. Len(sent) \in 1..Len(sent)
        BY <1>1, <2>2, EmptySeq
      <3>2. sent[Len(sent)] \in Packets
        BY <1>1, <3>1, ElementOfSeq
      <3>0. last \in Seq(Bytes) /\ Len(last) > 0
        BY <1>1, <3>1, <3>2 DEF Packets
      <3>3. BytesSent = last[Len(last)].at
        BY <2>2 DEF BytesSent
      <3> HIDE DEF last
      <3>4. last[Len(last)] \in Bytes
        BY <3>0
      <3> QED BY <3>3, <3>4 DEF Bytes
    <2> QED BY <2>1, <2>2
  <1>4. Serialized \in Nat
    <2>1. Len(Filled) \in Nat /\ Len(current) - curOffset \in Nat
      BY <1>1, <1>2
    <2> QED BY <1>3, <2>1 DEF Serialized
  <1>5. pipe.items \in Seq(Seq(Nat))
    BY <1>1 DEF Channels
  <1>6. ASSUME NEW i \in 1..Len(pipe.items)
        PROVE  /\ pipe.items[i] \in Seq(Nat)
               /\ pipe.items[i] # <<>> => After(pipe.items, i) \in Nat
    <2>1. pipe.items[i] \in Seq(Nat)
      BY <1>5
    <2>2. ASSUME pipe.items[i] # <<>>
          PROVE  pipe.items[i][Len(pipe.items[i])] \in Nat
      BY <2>1, <2>2, EmptySeq
    <2>3. i # 0
      OBVIOUS
    <2> QED BY <2>1, <2>2, <2>3, Zenon DEF After
  <1>7. After(pipe.items, 0) = 0
    BY DEF After
  <1>8. upc # "stopped" => After(pipe.items, Len(pipe.items)) \in Nat
    <2>1. CASE Len(pipe.items) = 0
      BY <1>7, <2>1
    <2>2. CASE Len(pipe.items) # 0 /\ upc # "stopped"
      <3>1. Len(pipe.items) \in 1..Len(pipe.items)
        BY <1>5, <2>2
      <3>2. pipe.items[Len(pipe.items)] # <<>>
        BY <1>1, <2>2, <3>1 DEF Ends, Delimiter
      <3> QED BY <1>6, <3>1, <3>2, Zenon
    <2> QED BY <2>1, <2>2
  <1> QED BY <1>2, <1>3, <1>4, <1>6, <1>7, <1>8

(* A message that goes on where the pipe ends. *)
LEMMA WriteStream ==
  ASSUME SenderInv, upc # "stopped", UNCHANGED <<ended, ipc, fillVars, packet, sent>>,
         NEW msg \in Seq(Nat), pipe' = Wrote(pipe, msg),
         Run(msg, After(pipe.items, Len(pipe.items)))
  PROVE  /\ StreamPipe'
         /\ msg # <<>> => After(pipe'.items, Len(pipe'.items))
                          = After(pipe.items, Len(pipe.items)) + Len(msg)
  <1> DEFINE n == Len(pipe.items)  old == pipe.items  new == pipe'.items
  <1>1. /\ pipe \in Channels /\ Sound(pipe) /\ StreamPipe
    BY DEF SenderInv, Typed
  <1>2. n \in Nat /\ pipe.taken \in 0..n
    BY <1>1 DEF Channels, Sound
  <1>3. /\ pipe'.taken = pipe.taken /\ Len(new) = n + 1 /\ new[n + 1] = msg
        /\ \A i \in 1..n : new[i] = old[i]
    BY <1>1, Written
  <1>4. old = pipe.items /\ new = pipe'.items /\ n = Len(old)
    OBVIOUS
  <1> HIDE DEF n, old, new
  <1>5. \A i \in 0..n : After(new, i) = After(old, i)
    BY <1>2, <1>3 DEF After
  <1>6. ASSUME NEW i \in 1..(n + 1) PROVE Run(new[i], After(new, i - 1))
    <2>1. i - 1 \in 0..n
      BY <1>2
    <2>2. CASE i \in 1..n
      BY <1>1, <1>3, <1>4, <1>5, <2>1, <2>2 DEF StreamPipe
    <2>3. CASE i = n + 1
      <3>1. i - 1 = n /\ n \in 0..n
        BY <1>2, <2>3
      <3>2. After(new, i - 1) = After(old, n)
        BY <1>5, <3>1
      <3> QED BY <1>3, <1>4, <2>3, <3>2, Zenon
    <2> QED BY <1>2, <2>2, <2>3
  <1>7. Serialized' = Serialized /\ batch' = batch /\ ended' = ended
    BY DEF Serialized, Filled, BytesSent, fillVars
  <1>8. StreamPipe'
    <2>1. ~ended => Serialized + Len(batch) = After(new, pipe'.taken)
      BY <1>1, <1>2, <1>3, <1>4, <1>5 DEF StreamPipe
    <2> QED BY <1>3, <1>4, <1>6, <1>7, <2>1 DEF StreamPipe
  <1>9. ASSUME msg # <<>>
        PROVE  After(new, n + 1) = After(old, n) + Len(msg)
    <2>1. Len(msg) \in 1..Len(msg)
      BY <1>9, EmptySeq
    <2>2. After(new, n + 1) = msg[Len(msg)]
      BY <1>2, <1>3 DEF After
    <2> QED BY <1>4, <2>1, <2>2 DEF Run
  <1> QED BY <1>3, <1>4, <1>8, <1>9

(* What is pushed stays one stream, in the pipe, in the cache and behind it. *)
LEMMA UiStream ==
  ASSUME SenderInv, UiStep
  PROVE  (StreamIo /\ StreamPipe /\ StreamUi /\ Offsets /\ Numbered)'
  <1> DEFINE end == After(pipe.items, Len(pipe.items))
             end1 == After(pipe'.items, Len(pipe'.items))
  <1>1. /\ UNCHANGED <<ended, ipc, fillVars, packet, nextIndex, sent>>
        /\ upc # "stopped"
    BY UiMoves
  <1>2. /\ StreamIo /\ StreamPipe /\ StreamUi /\ Offsets /\ Numbered /\ UiState
        /\ cache \in Seq(Nat) /\ rest \in Seq(Nat) /\ pushed \in Nat
    BY DEF SenderInv, Typed, UiTypes
  <1>3. (StreamIo /\ Offsets /\ Numbered)'
    BY <1>1, <1>2 DEF StreamIo, Offsets, Numbered, Serialized, Filled, BytesSent, fillVars
  <1>4. end \in Nat
    BY <1>1, Places
  <1>5. /\ Run(cache, end) /\ Run(rest, end + Len(cache))
        /\ pushed = end + Len(cache) + Len(rest)
    BY <1>1, <1>2 DEF StreamUi
  <1>6. StreamUi' <=> (upc' # "stopped" => /\ Run(cache', end1) /\ Run(rest', end1 + Len(cache'))
                                           /\ pushed' = end1 + Len(cache') + Len(rest'))
    BY DEF StreamUi
  <1>7. ASSUME NEW msg \in Seq(Nat), pipe' = Wrote(pipe, msg), Run(msg, end)
        PROVE  StreamPipe' /\ (msg # <<>> => end1 = end + Len(msg))
    BY <1>1, <1>7, WriteStream
  <1>8. ASSUME pipe' = pipe
        PROVE  StreamPipe' /\ end1 = end
    BY <1>1, <1>2, <1>8 DEF StreamPipe, Serialized, Filled, BytesSent, fillVars
  <1> HIDE DEF end, end1
  <1>9. Run(<<>>, end) /\ Run(<<>>, end1) /\ Len(<<>>) = 0 /\ CacheSize \in Nat \ {0}
    BY Constants DEF Run
  <1>10. ASSUME NEW bytes \in Seq(Nat), Place(bytes), Run(bytes, end), cache = <<>>,
                pushed' = end + Len(bytes)
         PROVE  StreamPipe' /\ StreamUi'
    <2>1. rest' = <<>> /\ Len(bytes) \in Nat
      BY <1>10 DEF Place
    <2>2. CASE Len(bytes) >= CacheSize /\ WritePipe(bytes) /\ cache' = <<>>
      <3>1. pipe' = Wrote(pipe, bytes)
        BY <2>2 DEF WritePipe, Wrote
      <3>2. bytes # <<>>
        BY <1>9, <2>1, <2>2
      <3>3. StreamPipe' /\ end1 = end + Len(bytes)
        BY <1>7, <1>10, <3>1, <3>2
      <3>4. end1 + 0 = end1 /\ end1 + 0 + 0 = end1
        BY <1>4, <2>1, <3>3
      <3> QED BY <1>6, <1>9, <1>10, <2>1, <2>2, <3>3, <3>4, Zenon
    <2>3. CASE cache' = bytes /\ upc' = "idle" /\ pipe' = pipe
      <3>1. StreamPipe' /\ end1 = end
        BY <1>8, <2>3
      <3>2. end + Len(bytes) + 0 = end + Len(bytes)
        BY <1>4, <2>1
      <3>3. Run(<<>>, end + Len(bytes))
        BY DEF Run
      <3> QED BY <1>6, <1>9, <1>10, <2>1, <2>3, <3>1, <3>2, <3>3, Zenon
    <2> QED BY <1>10, <2>2, <2>3 DEF Place
  <1>11. ASSUME WritePipe(cache), cache # <<>>, cache' = <<>>, NEW bytes \in Seq(Nat),
                rest' = bytes, Run(bytes, end + Len(cache)),
                pushed' = end + Len(cache) + Len(bytes)
         PROVE  StreamPipe' /\ StreamUi'
    <2>1. pipe' = Wrote(pipe, cache)
      BY <1>11 DEF WritePipe, Wrote
    <2>2. StreamPipe' /\ end1 = end + Len(cache)
      BY <1>2, <1>5, <1>7, <1>11, <2>1
    <2>3. end1 + 0 = end1
      BY <1>2, <1>4, <2>2
    <2> QED BY <1>6, <1>9, <1>11, <2>2, <2>3, Zenon
  <1>12. ASSUME NEW size \in Sizes, PushMessage(size)
         PROVE  StreamPipe' /\ StreamUi'
    <2> PICK bytes \in Seq(Nat) :
           /\ Len(bytes) = size /\ size \in Nat \ {0} /\ Run(bytes, pushed)
           /\ upc = "idle" /\ rest = <<>>
           /\ pushed' = pushed + size
           /\ \/ cache = <<>> /\ Place(bytes)
              \/ /\ cache # <<>> /\ Len(cache) + size <= CacheSize
                 /\ cache' = cache \o bytes
                 /\ UNCHANGED <<pipe, rest, upc>>
              \/ /\ cache # <<>> /\ rest' = bytes /\ WritePipe(cache) /\ cache' = <<>>
      BY <1>12, PushMessageForm, Zenon
    <2>1. pushed = end + Len(cache) /\ Len(cache) \in Nat
      BY <1>2, <1>4, <1>5, <1>9
    <2>2. Run(bytes, end + Len(cache)) /\ pushed' = end + Len(cache) + Len(bytes)
      BY <2>1
    <2>3. CASE cache = <<>> /\ Place(bytes)
      <3>1. end + Len(cache) = end
        BY <1>4, <1>9, <2>3
      <3> QED BY <1>10, <2>2, <2>3, <3>1
    <2>4. CASE cache' = cache \o bytes /\ UNCHANGED <<pipe, rest, upc>>
      <3>1. cache' \in Seq(Nat) /\ Len(cache') = Len(cache) + Len(bytes) /\ Run(cache', end)
        BY <1>2, <1>4, <1>5, <2>2, <2>4, RunConcat
      <3>2. StreamPipe' /\ end1 = end
        BY <1>8, <2>4
      <3>3. rest' = <<>> /\ Run(<<>>, end + Len(cache'))
        BY <2>4 DEF Run
      <3>4. pushed' = end + Len(cache') + 0
        BY <1>4, <2>1, <2>2, <3>1
      <3> QED BY <1>6, <1>9, <3>1, <3>2, <3>3, <3>4, Zenon
    <2>5. CASE cache # <<>> /\ rest' = bytes /\ WritePipe(cache) /\ cache' = <<>>
      BY <1>11, <2>2, <2>5
    <2> QED BY <2>3, <2>4, <2>5
  <1>13. CASE PushRest
    <2>1. Place(rest) /\ pushed' = pushed /\ cache = <<>>
      BY <1>2, <1>13 DEF PushRest, UiState
    <2>2. Run(rest, end) /\ pushed' = end + Len(rest)
      BY <1>2, <1>4, <1>5, <1>9, <2>1
    <2> QED BY <1>2, <1>3, <1>10, <2>1, <2>2
  <1>14. CASE EndPush
    <2>1. WritePipe(cache) /\ cache # <<>> /\ cache' = <<>> /\ rest' = rest /\ pushed' = pushed
      BY <1>14 DEF EndPush
    <2> QED BY <1>2, <1>3, <1>5, <1>11, <2>1
  <1>15. CASE StopPipe
    <2>1. pipe' = Wrote(pipe, Delimiter) /\ Delimiter \in Seq(Nat) /\ upc' = "stopped"
      BY <1>15 DEF StopPipe, Delimiter, Wrote
    <2>2. Run(Delimiter, end)
      BY DEF Run, Delimiter
    <2> QED BY <1>3, <1>6, <1>7, <2>1, <2>2
  <1>16. CASE Start \/ AwakePeer \/ Stop
    <2>1. UNCHANGED <<pipe, cache, rest, pushed>>
      BY <1>16 DEF Start, AwakePeer, Stop
    <2> QED BY <1>3, <1>5, <1>6, <1>8, <2>1
  <1> QED BY <1>3, <1>12, <1>13, <1>14, <1>15, <1>16 DEF UiStep

-----------------------------------------------------------------------------
(* Where the I/O thread has nothing to do with the stream, *)
LEMMA SameStream ==
  ASSUME SenderInv, UNCHANGED <<pipe, ended, fillVars, packet, nextIndex, sent>>,
         ipc' = ipc \/ (packet # NoPacket /\ ipc' # "fill")
  PROVE  (StreamIo /\ StreamPipe /\ Offsets /\ Numbered)'
  <1>1. StreamIo /\ StreamPipe /\ Offsets /\ Numbered
    BY DEF SenderInv
  <1>2. Filled' = Filled /\ BytesSent' = BytesSent
    BY DEF Filled, BytesSent, fillVars
  <1>3. Serialized' = Serialized
    BY <1>2 DEF Serialized, fillVars
  <1>4. StreamIo' /\ StreamPipe' /\ Numbered'
    BY <1>1, <1>2, <1>3 DEF StreamIo, StreamPipe, Numbered, fillVars
  <1>5. Offsets'
    BY <1>1, <1>2 DEF Offsets, fillVars
  <1> QED BY <1>4, <1>5

(* where it begins a packet or goes on with the one it has, *)
LEMMA BeginStream ==
  ASSUME SenderInv, ipc = "idle", BeginOutEvent
  PROVE  (StreamIo /\ StreamPipe /\ Offsets /\ Numbered)'
  <1>1. /\ StreamIo /\ StreamPipe /\ Offsets /\ Numbered
        /\ ~(current # <<>> /\ curOffset = 0) /\ batch = <<>>
    BY DEF SenderInv, IoState
  <1>2. /\ UNCHANGED <<batch, current, curOffset, packet, nextIndex, sent, pipe, ended>>
        /\ data' = <<>> /\ header' = Stream!Header(Stream!kNonExistOffset)
        /\ ipc' = (IF packet = NoPacket THEN "fill" ELSE "send")
    BY DEF BeginOutEvent
  <1>3. Filled' = Filled
    BY <1>2 DEF Filled
  <1>4. BytesSent' = BytesSent
    BY <1>2 DEF BytesSent
  <1>5. Serialized' = Serialized
    BY <1>2, <1>3, <1>4 DEF Serialized
  <1>6. StreamIo' /\ StreamPipe' /\ Numbered'
    BY <1>1, <1>2, <1>3, <1>4, <1>5 DEF StreamIo, StreamPipe, Numbered
  <1>7. Stream!OffsetOf(header') = Stream!kNonExistOffset
    <2>1. Stream!kNonExistOffset \in Nat /\ Stream!kNonExistOffset <= Stream!kNonExistOffset
      BY Constants
    <2> QED BY <1>2, <2>1, HeaderValue, Zenon
  <1>8. FirstIs(data', Stream!OffsetOf(header'))
    <2>1. NoBegin(<<>>)
      BY DEF NoBegin
    <2> QED BY <1>2, <1>7, <2>1, Zenon DEF FirstIs
  <1>9. Offsets'
    BY <1>1, <1>2, <1>3, <1>8, Zenon DEF Offsets
  <1> QED BY <1>6, <1>9

(* and where it copies bytes of the current block into the packet. *)
LEMMA CopyStream ==
  ASSUME SenderInv, Copy
  PROVE  (StreamIo /\ StreamPipe /\ Offsets /\ Numbered)'
  <1> DEFINE o == Stream!OffsetOf(header)  B == BytesSent
  <1> PICK w \in Nat \ {0} :
           /\ ipc = "fill" /\ current # <<>> /\ batch = <<>>
           /\ data' \in Seq(Bytes) /\ Len(data') = Len(data) + w /\ Len(data) + w <= Capacity
           /\ \A i \in 1..Len(data) : data'[i] = data[i]
           /\ \A i \in 1..w : data'[Len(data) + i] = current[curOffset + i]
           /\ \/ curOffset + w = Len(current) /\ current' = <<>> /\ curOffset' = 0
              \/ /\ curOffset + w < Len(current) /\ Len(data) + w = Capacity
                 /\ current' = current /\ curOffset' = curOffset + w
    BY CopyForm, Zenon
  <1>1. /\ StreamIo /\ StreamPipe /\ Offsets /\ Numbered /\ packet = NoPacket
        /\ data \in Seq(Bytes) /\ current \in Seq(Bytes)
        /\ curOffset \in Nat /\ Len(data) \in Nat /\ Len(current) \in Nat
    BY DEF SenderInv, Typed, FillTypes, IoState
  <1>2. UNCHANGED <<pipe, ended, ipc, header, batch, packet, nextIndex, sent>>
    BY DEF Copy
  <1>3. Filled = data /\ Filled' = data' /\ BytesSent' = BytesSent
    BY <1>1, <1>2 DEF Filled, BytesSent
  <1>4. BytesSent \in Nat
    BY Places
  <1>l. /\ Len(<<>>) = 0 /\ curOffset + w <= Len(current)
        /\ \A i \in 1..w : curOffset + i \in 1..Len(current) /\ curOffset + i > curOffset
    BY <1>1
  <1>5. Serialized' = Serialized
    <2>1. Serialized = BytesSent + Len(data) + (Len(current) - curOffset)
      BY <1>3 DEF Serialized
    <2>2. Serialized' = BytesSent + (Len(data) + w) + (Len(current') - curOffset')
      BY <1>3 DEF Serialized
    <2>3. Len(current') - curOffset' = (Len(current) - curOffset) - w
      BY <1>1, <1>l
    <2> QED BY <1>1, <1>4, <2>1, <2>2, <2>3
  <1>6. RunAt(data', BytesSent)
    <2>1. ASSUME NEW i \in 1..Len(data') PROVE data'[i].at = BytesSent + i
      <3>1. CASE i <= Len(data)
        <4>1. i \in 1..Len(data)
          BY <1>1, <3>1
        <4>2. data[i].at = BytesSent + i
          BY <1>1, <1>3, <4>1 DEF StreamIo, RunAt
        <4> QED BY <4>1, <4>2
      <3>2. CASE i > Len(data)
        <4> DEFINE j == i - Len(data)
        <4>1. j \in 1..w /\ Len(data) + j = i /\ BytesSent + Len(data) + j = BytesSent + i
              /\ (curOffset + j) - curOffset = j
          BY <1>1, <1>4, <3>2
        <4> HIDE DEF j
        <4>2. data'[Len(data) + j] = current[curOffset + j]
          BY <4>1
        <4>3. current[curOffset + j].at
                = BytesSent + Len(data) + ((curOffset + j) - curOffset)
          BY <1>1, <1>3, <1>l, <4>1 DEF StreamIo
        <4> QED BY <4>1, <4>2, <4>3, Zenon
      <3> QED BY <1>1, <3>1, <3>2
    <2> QED BY <2>1 DEF RunAt
  <1>7. ASSUME NEW i \in 1..Len(current'), i > curOffset'
        PROVE  current'[i].at = BytesSent + Len(data') + (i - curOffset')
    <2>1. /\ current' = current /\ curOffset' = curOffset + w
          /\ i \in 1..Len(current) /\ i > curOffset
      BY <1>1, <1>7, <1>l
    <2>2. current[i].at = BytesSent + Len(data) + (i - curOffset)
      BY <1>1, <1>3, <2>1 DEF StreamIo
    <2>3. BytesSent + Len(data) + (i - curOffset)
            = BytesSent + (Len(data) + w) + (i - (curOffset + w))
      BY <1>1, <1>4
    <2> QED BY <2>1, <2>2, <2>3
  <1>8. StreamIo'
    <2>1. Run(<<>>, Serialized)
      BY DEF Run
    <2> QED BY <1>2, <1>3, <1>5, <1>6, <1>7, <2>1 DEF StreamIo
  <1>9. StreamPipe'
    BY <1>1, <1>2, <1>5 DEF StreamPipe
  <1>10. Numbered'
    BY <1>1, <1>2 DEF Numbered
  <1>11. FirstIs(data', o)
    <2>0. o \in Nat
      BY OffsetNumber DEF SenderInv, Typed, FillTypes
    <2>1. ASSUME ~NoBegin(data), FirstIs(data, o)
          PROVE  FirstIs(data', o)
      <3>1. o + 1 \in 1..Len(data) /\ data[o + 1].begins /\ \A i \in 1..o : ~data[i].begins
        BY <2>1 DEF FirstIs
      <3> HIDE DEF o
      <3>2. o + 1 \in 1..Len(data') /\ \A i \in 1..o : i \in 1..Len(data)
        BY <1>1, <2>0, <3>1
      <3>3. data'[o + 1].begins /\ \A i \in 1..o : ~data'[i].begins
        BY <3>1, <3>2, Zenon
      <3> QED BY <3>2, <3>3, Zenon DEF FirstIs
    <2>2. ASSUME NoBegin(data), curOffset # 0, o = Stream!kNonExistOffset
          PROVE  FirstIs(data', o)
      <3>1. ASSUME NEW i \in 1..Len(data') PROVE ~data'[i].begins
        <4>1. CASE i <= Len(data)
          <5>1. i \in 1..Len(data)
            BY <1>1, <4>1
          <5> QED BY <2>2, <5>1 DEF NoBegin
        <4>2. CASE i > Len(data)
          <5> DEFINE j == i - Len(data)
          <5>1. j \in 1..w /\ Len(data) + j = i /\ curOffset + j # 1
            BY <1>1, <2>2, <4>2
          <5> HIDE DEF j
          <5>2. data'[i] = current[curOffset + j]
            BY <5>1
          <5>3. ~current[curOffset + j].begins
            BY <1>1, <1>l, <5>1, Zenon DEF Offsets
          <5> QED BY <5>2, <5>3, Zenon
        <4> QED BY <1>1, <4>1, <4>2
      <3> QED BY <2>2, <3>1 DEF FirstIs, NoBegin
    <2>3. ASSUME NoBegin(data), curOffset = 0, o = Len(data)
          PROVE  FirstIs(data', o)
      <3>1. o + 1 \in 1..Len(data') /\ 1 \in 1..w /\ curOffset + 1 = 1 /\ 1 \in 1..Len(current)
        BY <1>1, <1>l, <2>3
      <3>2. data'[o + 1] = current[1]
        BY <2>3, <3>1
      <3>3. current[1].begins
        BY <1>1, <3>1, Zenon DEF Offsets
      <3>4. \A i \in 1..o : ~data'[i].begins
        BY <2>3 DEF NoBegin
      <3> HIDE DEF o
      <3> QED BY <3>1, <3>2, <3>3, <3>4, Zenon DEF FirstIs
    <2>4. /\ NoBegin(data) /\ curOffset = 0 => o = Len(data)
          /\ ~(NoBegin(data) /\ curOffset = 0) => FirstIs(data, o)
      BY <1>1, Zenon DEF Offsets
    <2>5. NoBegin(data) /\ FirstIs(data, o) => o = Stream!kNonExistOffset
      BY DEF FirstIs, NoBegin
    <2> HIDE DEF o
    <2> QED BY <2>1, <2>2, <2>3, <2>4, <2>5, Zenon
  <1>12. sent = <<>> => data' # <<>> /\ data'[1].begins
    <2>1. data' # <<>> /\ 1 \in 1..w
      BY <1>1, <1>l
    <2>2. ASSUME sent = <<>>, data # <<>> PROVE data'[1].begins
      <3>1. data[1].begins
        BY <1>1, <1>3, <2>2, Zenon DEF Offsets
      <3>2. 1 \in 1..Len(data)
        BY <1>1, <2>2, EmptySeq
      <3> QED BY <3>1, <3>2
    <2>3. ASSUME sent = <<>>, data = <<>> PROVE data'[1].begins
      <3>1. curOffset = 0
        BY <1>1, <1>3, <2>3, Zenon DEF Offsets
      <3>2. Len(data) + 1 = 1 /\ curOffset + 1 = 1 /\ 1 \in 1..Len(current)
        BY <1>1, <1>l, <2>1, <2>3, <3>1
      <3>3. data'[1] = current[1]
        BY <2>1, <3>2
      <3>4. current[1].begins
        BY <1>1, <3>2, Zenon DEF Offsets
      <3> QED BY <3>3, <3>4, Zenon
    <2> QED BY <2>1, <2>2, <2>3
  <1>13. Offsets'
    <2>1. \A i \in 1..Len(current') : current'[i].begins <=> i = 1
      <3>1. CASE current' = <<>>
        BY <1>l, <3>1
      <3>2. CASE current' = current
        BY <1>1, <3>2, Zenon DEF Offsets
      <3> QED BY <3>1, <3>2
    <2>2. ~(batch' # <<>> \/ (current' # <<>> /\ curOffset' = 0))
      <3>1. curOffset + w # 0
        BY <1>1
      <3> QED BY <1>2, <3>1
    <2>3. packet' = NoPacket /\ sent' = sent /\ header' = header
      BY <1>1, <1>2
    <2> QED BY <1>3, <1>11, <1>12, <2>1, <2>2, <2>3, Zenon DEF Offsets
  <1> QED BY <1>8, <1>9, <1>10, <1>13

(* A message read behind the ones the serializer has continues them. *)
LEMMA ReadStream ==
  ASSUME SenderInv, ReadMessage
  PROVE  (StreamIo /\ StreamPipe /\ Offsets /\ Numbered)'
  <1> DEFINE o == Stream!OffsetOf(header)
  <1> PICK msg \in Seq(Nat) :
           /\ msg = pipe.items[pipe.taken + 1] /\ msg # <<>> /\ ~ended
           /\ pipe' \in Channels /\ Sound(pipe') /\ pipe'.items = pipe.items
           /\ pipe'.taken = pipe.taken + 1 /\ pipe.taken + 1 \in 1..Len(pipe.items)
           /\ \/ reads + 1 = MaxBatch /\ FlushBlock(batch \o msg)
              \/ /\ reads + 1 < MaxBatch /\ batch' = batch \o msg /\ reads' = reads + 1
                 /\ current' = current
    BY ReadForm, Zenon
  <1>0. o \in Nat
    BY OffsetNumber DEF SenderInv, Typed, FillTypes
  <1>1. /\ StreamIo /\ StreamPipe /\ Offsets /\ Numbered /\ IoState
        /\ data \in Seq(Bytes) /\ batch \in Seq(Nat) /\ Len(data) \in Nat /\ pipe \in Channels
    BY DEF SenderInv, Typed, FillTypes
  <1>2. /\ UNCHANGED <<ended, ipc, data, curOffset, packet, nextIndex, sent>>
        /\ ipc = "fill" /\ Len(data) < Capacity /\ current = <<>> /\ SetOffset
    BY DEF ReadMessage, Reading
  <1>3. packet = NoPacket /\ curOffset = 0 /\ Len(<<>>) = 0
    BY <1>1, <1>2 DEF IoState
  <1>4. Filled = data /\ Filled' = data /\ BytesSent' = BytesSent
    BY <1>2, <1>3 DEF Filled, BytesSent
  <1>5. BytesSent \in Nat /\ Serialized = BytesSent + Len(data)
    BY <1>1, <1>2, <1>3, <1>4, Places DEF Serialized
  <1> DEFINE more == batch \o msg  S == Serialized
  <1>6. S + Len(batch) = After(pipe.items, pipe.taken)
    BY <1>1 DEF StreamPipe
  <1>7. Run(msg, S + Len(batch))
    <2>1. Run(pipe.items[pipe.taken + 1], After(pipe.items, (pipe.taken + 1) - 1))
      BY <1>1 DEF StreamPipe
    <2>2. (pipe.taken + 1) - 1 = pipe.taken
      BY <1>1 DEF Channels
    <2> QED BY <1>6, <2>1, <2>2
  <1>8. /\ more \in Seq(Nat) /\ Len(more) = Len(batch) + Len(msg) /\ Run(more, S)
    BY <1>1, <1>5, <1>7, RunConcat DEF StreamIo
  <1>9. After(pipe.items, pipe.taken + 1) = S + Len(more)
    <2>1. Len(msg) \in 1..Len(msg) /\ pipe.taken + 1 # 0
      BY <1>1, EmptySeq DEF Channels
    <2>2. After(pipe.items, pipe.taken + 1) = msg[Len(msg)]
      BY <2>1 DEF After
    <2>3. msg[Len(msg)] = (S + Len(batch)) + Len(msg)
      BY <1>7, <2>1 DEF Run
    <2>4. Len(batch) \in Nat /\ Len(msg) \in Nat /\ S \in Nat
      BY <1>1, <1>5, Places
    <2>5. (S + Len(batch)) + Len(msg) = S + (Len(batch) + Len(msg))
      <3>1. \A a, b, c \in Nat : (a + b) + c = a + (b + c)
        OBVIOUS
      <3> HIDE DEF S
      <3> QED BY <2>4, <3>1, Zenon
    <2> QED BY <1>8, <2>2, <2>3, <2>5, Zenon
  <1>10. FlushBlock(more) \/ (batch' = more /\ current' = current)
    BY Zenon
  <1>11. Len(more) > 0
    <2>1. Len(msg) > 0 /\ Len(batch) \in Nat
      BY <1>1, EmptySeq
    <2> QED BY <1>8, <2>1
  <1>s. S = Serialized
    OBVIOUS
  <1> HIDE DEF more, S
  <1>12. ASSUME FlushBlock(more)
         PROVE  /\ current' # <<>> /\ batch' = <<>> /\ Serialized' = S + Len(more)
                /\ \A i \in 1..Len(current') : current'[i].begins <=> i = 1
                /\ \A i \in 1..Len(current') : current'[i].at = S + i
    <2>1. /\ current' \in Seq(Bytes) /\ Len(current') = Len(more) /\ batch' = <<>>
          /\ \A i \in 1..Len(more) : /\ current'[i].at = more[i]
                                     /\ current'[i].begins <=> i = 1
      BY <1>8, <1>12, BlockForm
    <2>2. current' # <<>>
      BY <1>3, <1>11, <2>1
    <2>3. Serialized' = S + Len(more)
      <3>1. Serialized' = BytesSent + Len(data) + (Len(current') - curOffset')
        BY <1>4 DEF Serialized
      <3>2. Len(current') - curOffset' = Len(more) /\ Len(more) \in Nat
        BY <1>2, <1>3, <1>8, <2>1
      <3> QED BY <1>5, <1>s, <3>1, <3>2
    <2>4. \A i \in 1..Len(current') : current'[i].at = S + i
      BY <1>8, <2>1 DEF Run
    <2> QED BY <2>1, <2>2, <2>3, <2>4
  <1>13. ASSUME batch' = more, current' = current
         PROVE  /\ batch' # <<>> /\ current' = <<>> /\ Serialized' = S
    <2>1. Serialized' = BytesSent + Len(data) + (Len(current) - curOffset)
      BY <1>2, <1>4, <1>13 DEF Serialized
    <2>2. batch' # <<>>
      BY <1>3, <1>11, <1>13
    <2> QED BY <1>2, <1>3, <1>5, <1>13, <1>s, <2>1, <2>2
  <1>14. StreamIo'
    <2>1. RunAt(data, BytesSent)
      BY <1>1, <1>4 DEF StreamIo
    <2>2. Run(batch', Serialized')
      <3>1. CASE FlushBlock(more)
        BY <1>3, <1>12, <3>1 DEF Run
      <3>2. CASE batch' = more /\ current' = current
        BY <1>8, <1>13, <3>2
      <3> QED BY <1>10, <3>1, <3>2
    <2>3. ASSUME NEW i \in 1..Len(current'), i > curOffset'
          PROVE  current'[i].at = BytesSent + Len(data) + (i - curOffset')
      <3>1. FlushBlock(more)
        BY <1>2, <1>3, <1>10, <2>3
      <3>2. current'[i].at = S + i
        BY <1>12, <3>1
      <3>3. S + i = BytesSent + Len(data) + (i - curOffset')
        BY <1>1, <1>2, <1>3, <1>5, <1>s
      <3> QED BY <3>2, <3>3
    <2> QED BY <1>4, <2>1, <2>2, <2>3 DEF StreamIo
  <1>15. StreamPipe'
    <2>1. Serialized' + Len(batch') = S + Len(more)
      <3>1. S + Len(more) + 0 = S + Len(more)
        BY <1>5, <1>8, <1>s
      <3>2. CASE FlushBlock(more)
        BY <1>3, <1>12, <3>1, <3>2, Zenon
      <3>3. CASE batch' = more /\ current' = current
        BY <1>13, <3>3, Zenon
      <3> QED BY <1>10, <3>2, <3>3
    <2> QED BY <1>1, <1>9, <2>1 DEF StreamPipe
  <1>16. Numbered'
    BY <1>1, <1>2 DEF Numbered
  <1>17. /\ current' = <<>> \/ current' # <<>>
         /\ \A i \in 1..Len(current') : current'[i].begins <=> i = 1
         /\ batch' # <<>> \/ (current' # <<>> /\ curOffset' = 0)
    <2>1. CASE FlushBlock(more)
      BY <1>2, <1>3, <1>12, <2>1, Zenon
    <2>2. CASE batch' = more /\ current' = current
      <3>1. batch' # <<>> /\ current' = <<>>
        BY <1>13, <2>2
      <3> QED BY <1>3, <3>1
    <2> QED BY <1>10, <2>1, <2>2
  <1>18. IF NoBegin(data) THEN Stream!OffsetOf(header') = Len(data)
                          ELSE FirstIs(data, Stream!OffsetOf(header'))
    <2>1. header' = IF o = Stream!kNonExistOffset THEN Stream!Header(Len(data)) ELSE header
      BY <1>2 DEF SetOffset
    <2>2. Stream!OffsetOf(Stream!Header(Len(data))) = Len(data)
      BY NewHeader
    <2>3. Len(data) < Stream!kNonExistOffset
      BY <1>1, <1>2, Constants
    <2>4. CASE NoBegin(data) /\ batch = <<>>
      <3>1. FirstIs(data, o)
        BY <1>1, <1>2, <2>4, Zenon DEF Offsets
      <3>2. o = Stream!kNonExistOffset
        BY <2>4, <3>1 DEF FirstIs, NoBegin
      <3> QED BY <2>1, <2>2, <2>4, <3>2, Zenon
    <2>5. CASE NoBegin(data) /\ batch # <<>>
      <3>1. o = Len(data)
        BY <1>1, <1>2, <2>5, Zenon DEF Offsets
      <3>2. o # Stream!kNonExistOffset
        <4> HIDE DEF o
        <4> QED BY <1>1, <2>3, <3>1
      <3> QED BY <2>1, <2>5, <3>1, <3>2, Zenon
    <2>6. CASE ~NoBegin(data)
      <3>1. FirstIs(data, o)
        BY <1>1, <1>2, <2>6, Zenon DEF Offsets
      <3>2. o + 1 \in 1..Len(data)
        BY <2>6, <3>1, Zenon DEF FirstIs
      <3>3. o # Stream!kNonExistOffset
        <4> HIDE DEF o
        <4> QED BY <1>0, <1>1, <2>3, <3>2
      <3> QED BY <2>1, <2>6, <3>1, <3>3, Zenon
    <2> QED BY <2>4, <2>5, <2>6
  <1>19. Offsets'
    <2>1. sent = <<>> => IF data = <<>> THEN curOffset' = 0 ELSE data[1].begins
      BY <1>1, <1>2, <1>3, <1>4, Zenon DEF Offsets
    <2>2. NoBegin(data') <=> NoBegin(data)
      BY <1>2
    <2> QED BY <1>2, <1>3, <1>4, <1>17, <1>18, <2>1, <2>2, Zenon DEF Offsets
  <1> QED BY <1>14, <1>15, <1>16, <1>19

(* The index behind the last one, in a ring. *)
LEMMA NextIndex ==
  ASSUME NEW a \in Nat, NEW m \in Nat \ {0}
  PROVE  ((a % m) + 1) % m = (a + 1) % m
  <1> DEFINE r == a % m  q == a \div m
  <1>1. r \in 0..(m - 1)
    OBVIOUS
  <1>2. a = m * q + r /\ q \in Nat
    OBVIOUS
  <1> HIDE DEF r, q
  <1>3. \A k, s \in Nat : s < m => (m * k + s) % m = s
    OBVIOUS
  <1>4. CASE r + 1 < m
    <2>1. a + 1 = m * q + (r + 1) /\ r + 1 \in Nat
      BY <1>1, <1>2
    <2>2. (m * q + (r + 1)) % m = r + 1
      BY <1>2, <1>3, <1>4, <2>1
    <2>3. (m * 0 + (r + 1)) % m = r + 1
      BY <1>3, <1>4, <2>1
    <2>4. m * 0 + (r + 1) = r + 1
      BY <2>1
    <2> QED BY <2>1, <2>2, <2>3, <2>4 DEF r
  <1>5. CASE r + 1 = m
    <2>1. a + 1 = m * (q + 1) + 0 /\ q + 1 \in Nat
      BY <1>1, <1>2, <1>5
    <2>2. (m * (q + 1) + 0) % m = 0
      BY <1>3, <2>1
    <2>3. (m * 1 + 0) % m = 0 /\ m * 1 + 0 = r + 1
      BY <1>3, <1>5
    <2> QED BY <2>1, <2>2, <2>3 DEF r
  <1> QED BY <1>1, <1>4, <1>5

(* The packet that is completed has the bytes filled in, and the next index. *)
LEMMA CloseStream ==
  ASSUME SenderInv, ipc = "fill", ClosePacket, batch = <<>>,
         current # <<>> => curOffset # 0,
         UNCHANGED <<data, header, batch, current, curOffset, sent>>
  PROVE  Filled' = Filled /\ Offsets' /\ Numbered'
  <1>1. /\ Offsets /\ Numbered /\ packet = NoPacket /\ Len(data) <= Capacity
        /\ data \in Seq(Bytes) /\ sent \in Seq(Packets) /\ Len(sent) \in Nat
    BY DEF SenderInv, Typed, FillTypes, PacketTypes, IoState
  <1>2. FirstIs(data, Stream!OffsetOf(header))
    BY <1>1, Zenon DEF Offsets
  <1>3. Filled = data /\ nextIndex = Len(sent) % IndexMod
    <2>1. Len(sent) + 0 = Len(sent)
      BY <1>1
    <2> QED BY <1>1, <2>1, Zenon DEF Filled, Numbered
  <1>4. ipc' # "fill"
    BY DEF ClosePacket
  <1>5. CASE data = <<>> /\ packet' = packet /\ nextIndex' = nextIndex
    <2>1. Filled' = <<>>
      BY <1>1, <1>4, <1>5 DEF Filled
    <2>2. Offsets'
      BY <1>1, <1>3, <1>4, <1>5, <2>1, Zenon DEF Offsets
    <2>3. Numbered'
      BY <1>1, <1>5 DEF Numbered
    <2> QED BY <1>3, <1>5, <2>1, <2>2, <2>3
  <1>6. CASE /\ data # <<>>
             /\ packet' = [header |-> header, index |-> nextIndex, data |-> data]
             /\ nextIndex' = (nextIndex + 1) % IndexMod
    <2>1. /\ packet'.header = header /\ packet'.index = nextIndex /\ packet'.data = data
          /\ NoPacket.data = <<>>
      BY <1>6 DEF NoPacket
    <2>2. packet' # NoPacket
      BY <1>6, <2>1
    <2>3. Filled' = data
      BY <2>1, <2>2 DEF Filled
    <2>4. Offsets'
      BY <1>1, <1>2, <1>3, <1>4, <2>1, <2>2, <2>3, Zenon DEF Offsets
    <2>5. Numbered'
      <3>1. Len(data) \in 1..Capacity
        <4>1. Len(data) \in Nat \ {0}
          BY <1>1, <1>6, EmptySeq
        <4> QED BY <1>1, <4>1, Constants
      <3>2. nextIndex' = (Len(sent) + 1) % IndexMod
        BY <1>1, <1>3, <1>6, NextIndex, Constants
      <3> QED BY <1>1, <1>3, <2>1, <2>2, <3>1, <3>2, Zenon DEF Numbered
    <2> QED BY <1>3, <2>3, <2>4, <2>5
  <1> QED BY <1>5, <1>6 DEF ClosePacket

(* Nothing read: what the serializer took becomes a block, or the packet is completed. *)
LEMMA NothingStream ==
  ASSUME SenderInv, ReadNothing
  PROVE  (StreamIo /\ StreamPipe /\ Offsets /\ Numbered)'
  <1>1. /\ StreamIo /\ StreamPipe /\ Offsets /\ Numbered /\ IoState
        /\ batch \in Seq(Nat) /\ data \in Seq(Bytes) /\ Len(data) \in Nat
    BY DEF SenderInv, Typed, FillTypes
  <1>2. /\ UNCHANGED <<data, header, curOffset, sent>>
        /\ ipc = "fill" /\ Len(data) < Capacity /\ current = <<>>
        /\ \/ batch # <<>> /\ FlushBlock(batch) /\ UNCHANGED <<ipc, packet, nextIndex>>
           \/ batch = <<>> /\ ClosePacket /\ UNCHANGED <<batch, current>>
    BY Zenon DEF ReadNothing, Reading
  <1>3. curOffset = 0 /\ packet = NoPacket /\ Len(<<>>) = 0 /\ BytesSent' = BytesSent
    BY <1>1, <1>2 DEF IoState, BytesSent
  <1>4. BytesSent \in Nat /\ Serialized = BytesSent + Len(data) /\ Filled = data
    <2>1. Filled = data
      BY <1>2, <1>3 DEF Filled
    <2>2. BytesSent \in Nat
      BY Places
    <2> QED BY <1>1, <1>2, <1>3, <2>1, <2>2 DEF Serialized
  <1>5. /\ pipe'.items = pipe.items
        /\ ~ended' => ~ended /\ pipe'.taken = pipe.taken
    BY NothingForm
  <1>6. ASSUME Serialized' + Len(batch') = Serialized + Len(batch)
        PROVE  StreamPipe'
    BY <1>1, <1>5, <1>6 DEF StreamPipe
  <1>7. CASE batch # <<>> /\ FlushBlock(batch) /\ UNCHANGED <<ipc, packet, nextIndex>>
    <2>1. /\ current' \in Seq(Bytes) /\ Len(current') = Len(batch) /\ batch' = <<>>
          /\ \A i \in 1..Len(batch) : /\ current'[i].at = batch[i]
                                      /\ current'[i].begins <=> i = 1
      BY <1>1, <1>7, BlockForm
    <2>2. Len(batch) \in Nat \ {0} /\ current' # <<>>
      BY <1>1, <1>3, <1>7, <2>1, EmptySeq
    <2>3. Filled' = data
      BY <1>2, <1>3, <1>7 DEF Filled
    <2>4. Serialized' = Serialized + Len(batch)
      <3>1. Serialized' = BytesSent + Len(data) + (Len(batch) - 0)
        BY <1>2, <1>3, <2>1, <2>3 DEF Serialized
      <3> QED BY <1>1, <1>4, <2>2, <3>1
    <2>5. StreamPipe'
      <3>1. Serialized + Len(batch) + 0 = Serialized + Len(batch)
        BY <1>1, <1>4, <2>2
      <3> QED BY <1>3, <1>6, <2>1, <2>4, <3>1
    <2>6. StreamIo'
      <3>1. RunAt(data, BytesSent)
        BY <1>1, <1>4 DEF StreamIo
      <3>2. Run(<<>>, Serialized')
        BY DEF Run
      <3>3. ASSUME NEW i \in 1..Len(batch)
            PROVE  current'[i].at = BytesSent + Len(data) + (i - 0)
        <4>1. batch[i] = Serialized + i
          BY <1>1 DEF StreamIo, Run
        <4> QED BY <1>1, <1>4, <2>1, <4>1
      <3> QED BY <1>2, <1>3, <2>1, <2>3, <3>1, <3>2, <3>3 DEF StreamIo
    <2>7. Numbered'
      BY <1>1, <1>2, <1>7 DEF Numbered
    <2>8. Offsets'
      <3>1. IF NoBegin(data) THEN Stream!OffsetOf(header) = Len(data)
                             ELSE FirstIs(data, Stream!OffsetOf(header))
        BY <1>1, <1>2, <1>7, Zenon DEF Offsets
      <3>2. sent = <<>> => IF data = <<>> THEN curOffset = 0 ELSE data[1].begins
        BY <1>1, <1>4, Zenon DEF Offsets
      <3>3. \A i \in 1..Len(current') : current'[i].begins <=> i = 1
        BY <2>1
      <3>4. (NoBegin(data))' <=> NoBegin(data)
        BY <1>2 DEF NoBegin
      <3> QED BY <1>2, <1>3, <1>7, <2>1, <2>2, <2>3, <3>1, <3>2, <3>3, <3>4, Zenon DEF Offsets
    <2> QED BY <2>5, <2>6, <2>7, <2>8
  <1>8. CASE batch = <<>> /\ ClosePacket /\ UNCHANGED <<batch, current>>
    <2>1. Filled' = Filled /\ Offsets' /\ Numbered'
      BY <1>2, <1>8, CloseStream
    <2>2. Serialized' = Serialized
      BY <1>2, <1>3, <1>8, <2>1 DEF Serialized
    <2>3. StreamIo'
      BY <1>1, <1>2, <1>3, <1>8, <2>1, <2>2 DEF StreamIo
    <2> QED BY <1>6, <1>8, <2>1, <2>2, <2>3
  <1> QED BY <1>2, <1>7, <1>8

(* The packet is full. *)
LEMMA FullStream ==
  ASSUME SenderInv, PacketFull
  PROVE  (StreamIo /\ StreamPipe /\ Offsets /\ Numbered)'
  <1>1. /\ StreamIo /\ StreamPipe /\ IoState
    BY DEF SenderInv
  <1>2. /\ UNCHANGED <<data, header, batch, current, curOffset, sent, pipe, ended>>
        /\ ipc = "fill" /\ Len(data) = Capacity /\ ClosePacket
    BY DEF PacketFull, fillVars
  <1>3. batch = <<>> /\ (current # <<>> => curOffset # 0)
    BY <1>1, <1>2, Constants DEF IoState
  <1>4. Filled' = Filled /\ Offsets' /\ Numbered'
    BY <1>2, <1>3, CloseStream
  <1>5. BytesSent' = BytesSent
    BY <1>2 DEF BytesSent
  <1>6. Serialized' = Serialized
    BY <1>2, <1>4, <1>5 DEF Serialized
  <1> QED BY <1>1, <1>2, <1>4, <1>5, <1>6 DEF StreamIo, StreamPipe

(* The socket takes the packet: the stream is sent that much further. *)
LEMMA SendStream ==
  ASSUME SenderInv, SendAll
  PROVE  (StreamIo /\ StreamPipe /\ Offsets /\ Numbered)'
  <1>1. /\ StreamIo /\ StreamPipe /\ Offsets /\ Numbered /\ packet \in Packets
        /\ packet # NoPacket /\ sent \in Seq(Packets)
        /\ current \in Seq(Bytes) /\ curOffset \in Nat
    BY DEF SenderInv, Typed, FillTypes, PacketTypes, IoState, SendAll
  <1>2. /\ UNCHANGED <<pipe, ended, batch, current, curOffset, nextIndex>>
        /\ ipc' = "idle" /\ packet' = NoPacket /\ sent' = Append(sent, packet)
    BY DEF SendAll, fillVars
  <1> DEFINE d == packet.data  n == Len(d)
  <1>3. d \in Seq(Bytes) /\ n \in Nat \ {0} /\ Filled = d /\ Filled' = <<>> /\ Len(<<>>) = 0
    BY <1>1, <1>2, Constants DEF Packets, Numbered, Filled
  <1>4. /\ Len(sent) \in Nat /\ Len(sent') = Len(sent) + 1 /\ sent'[Len(sent) + 1] = packet
        /\ \A i \in 1..Len(sent) : sent'[i] = sent[i]
    BY <1>1, <1>2
  <1>5. BytesSent \in Nat /\ Len(current) \in Nat
    BY <1>1, Places
  <1>6. BytesSent' = BytesSent + n
    <2>1. sent' # <<>>
      BY <1>3, <1>4
    <2>2. BytesSent' = d[n].at
      BY <1>4, <2>1 DEF BytesSent
    <2>3. d[n].at = BytesSent + n
      BY <1>1, <1>3 DEF StreamIo, RunAt
    <2> QED BY <2>2, <2>3
  <1> HIDE DEF n
  <1>7. Serialized' = Serialized
    <2>1. Serialized = BytesSent + n + (Len(current) - curOffset)
      BY <1>3 DEF Serialized, n
    <2>2. Serialized' = (BytesSent + n) + 0 + (Len(current) - curOffset)
      BY <1>2, <1>3, <1>6 DEF Serialized
    <2> QED BY <1>1, <1>3, <1>5, <2>1, <2>2
  <1>8. StreamIo'
    <2>1. RunAt(<<>>, BytesSent')
      BY DEF RunAt
    <2>2. ASSUME NEW i \in 1..Len(current), i > curOffset
          PROVE  current[i].at = BytesSent' + 0 + (i - curOffset)
      <3>1. current[i].at = BytesSent + n + (i - curOffset)
        BY <1>1, <1>3, <2>2 DEF StreamIo, n
      <3> QED BY <1>1, <1>3, <1>5, <1>6, <3>1
    <2> QED BY <1>1, <1>2, <1>3, <1>7, <2>1, <2>2 DEF StreamIo
  <1>9. StreamPipe'
    BY <1>1, <1>2, <1>7 DEF StreamPipe
  <1>10. Offsets'
    <2>1. sent' # <<>> /\ (ipc' # "fill")
      BY <1>2, <1>3, <1>4
    <2> QED BY <1>1, <1>2, <2>1, Zenon DEF Offsets
  <1>11. Numbered'
    <2>1. nextIndex = (Len(sent) + 1) % IndexMod
      BY <1>1, Zenon DEF Numbered
    <2>2. Len(sent') + 0 = Len(sent) + 1
      BY <1>4
    <2>3. ASSUME NEW i \in 1..Len(sent') PROVE Len(sent'[i].data) > 0
      BY <1>1, <1>3, <1>4 DEF Numbered, n
    <2> QED BY <1>2, <2>1, <2>2, <2>3, Zenon DEF Numbered
  <1> QED BY <1>8, <1>9, <1>10, <1>11

(* What was pushed stays one stream on its way through the I/O thread. *)
LEMMA IoStream ==
  ASSUME SenderInv, IoStep
  PROVE  (StreamIo /\ StreamPipe /\ StreamUi /\ Offsets /\ Numbered)'
  <1>1. StreamUi'
    <2>1. UNCHANGED uiVars
      BY DEF IoStep, OutEventStep, PollOut, Plug, RestartOutput, Terminate, InEvent,
             RxTimerEvent, TxTimerEvent, Copy, ReadMessage, ReadNothing, PacketFull, SendAll,
             SendBusy, SendLimited, ProcessUpstream
    <2>2. pipe'.items = pipe.items
      <3>1. CASE ReadMessage
        BY <3>1, ReadForm
      <3>2. CASE ReadNothing
        BY <3>2, NothingForm
      <3>3. CASE ~ReadMessage /\ ~ReadNothing
        <4>1. pipe' = pipe
          BY <3>3 DEF IoStep, OutEventStep, PollOut, Plug, RestartOutput, Terminate, InEvent,
               RxTimerEvent, TxTimerEvent, Copy, PacketFull, SendAll, SendBusy, SendLimited,
               ProcessUpstream, BeginOutEvent
        <4> QED BY <4>1
      <3> QED BY <3>1, <3>2, <3>3
    <2>3. StreamUi
      BY DEF SenderInv
    <2> QED BY <2>1, <2>2, <2>3 DEF StreamUi, uiVars
  <1>2. CASE PollOut \/ RestartOutput \/ TxTimerEvent
    <2>1. BeginOutEvent /\ ipc = "idle"
      BY <1>2 DEF PollOut, RestartOutput, TxTimerEvent, TakeCommand
    <2> QED BY <1>1, <2>1, BeginStream
  <1>3. CASE Plug \/ Terminate \/ InEvent \/ RxTimerEvent
    <2>1. UNCHANGED <<pipe, ended, ipc, fillVars, packet, nextIndex, sent>>
      BY <1>3 DEF Plug, Terminate, InEvent, RxTimerEvent, ProcessUpstream
    <2> QED BY <1>1, <2>1, SameStream
  <1>4. CASE SendBusy \/ SendLimited
    <2>1. UNCHANGED <<pipe, ended, fillVars, packet, nextIndex, sent>> /\ ipc' = "idle"
          /\ packet # NoPacket
      BY <1>4 DEF SendBusy, SendLimited, SenderInv, IoState
    <2> QED BY <1>1, <2>1, SameStream
  <1>5. CASE Copy
    BY <1>1, <1>5, CopyStream
  <1>6. CASE ReadMessage
    BY <1>1, <1>6, ReadStream
  <1>7. CASE ReadNothing
    BY <1>1, <1>7, NothingStream
  <1>8. CASE PacketFull
    BY <1>1, <1>8, FullStream
  <1>9. CASE SendAll
    BY <1>1, <1>9, SendStream
  <1> QED BY <1>2, <1>3, <1>4, <1>5, <1>6, <1>7, <1>8, <1>9 DEF IoStep, OutEventStep

-----------------------------------------------------------------------------
(* The invariant holds at first, *)
LEMMA InitSenderInv == Init => SenderInv
  <1> SUFFICES ASSUME Init PROVE SenderInv
    OBVIOUS
  <1>0. /\ Len(<<>>) = 0 /\ \A S : <<>> \in Seq(S)
        /\ CacheSize \in Nat \ {0} /\ Capacity \in Nat \ {0} /\ MaxBatch \in Nat \ {0}
        /\ MaxBytes \in Nat /\ IndexMod \in Nat \ {0}
    BY Constants
  <1>1. Stream!kNonExistOffset \in Nat /\ Stream!kNonExistOffset <= Stream!kNonExistOffset
    BY Constants
  <1>2. /\ header \in Nat /\ Stream!OffsetOf(header) = Stream!kNonExistOffset
    BY <1>1, HeaderValue, Zenon DEF Init
  <1>3. pipe \in Channels /\ Sound(pipe) /\ pipe.items = <<>> /\ pipe.taken = 0
    BY DEF Init, EmptyChannel, Channels, Sound
  <1>4. UiTypes /\ CommandTypes /\ SelectTypes /\ PacketTypes
    <2>1. UiTypes
      BY <1>0 DEF Init, UiTypes
    <2>2. CommandTypes
      BY <1>0, Zenon DEF Init, CommandTypes
    <2>3. SelectTypes
      BY DEF Init, SelectTypes
    <2>4. PacketTypes
      <3>1. nextIndex \in 0..(IndexMod - 1)
        BY <1>0 DEF Init
      <3>2. packet = NoPacket /\ sent = <<>>
        BY DEF Init
      <3> QED BY <1>0, <3>1, <3>2, Zenon DEF PacketTypes
    <2> QED BY <2>1, <2>2, <2>3, <2>4
  <1>5. FillTypes
    BY <1>0, <1>2 DEF Init, FillTypes
  <1>6. CommandOrder /\ TimersTracked /\ UiState /\ IoState /\ Wakeups
    BY <1>0 DEF Init, CommandOrder, TimersTracked, UiState, IoState, Wakeups
  <1>7. Ends
    BY <1>0, <1>3 DEF Init, Ends
  <1>8. Filled = <<>> /\ BytesSent = 0
    BY DEF Init, Filled, BytesSent
  <1>9. Serialized = 0
    BY <1>0, <1>8 DEF Init, Serialized
  <1>10. StreamIo
    BY <1>0, <1>8, <1>9 DEF Init, StreamIo, Run, RunAt
  <1>11. After(pipe.items, 0) = 0
    BY DEF After
  <1>12. StreamPipe
    BY <1>0, <1>3, <1>9, <1>11 DEF Init, StreamPipe
  <1>13. StreamUi
    BY <1>0, <1>3, <1>11 DEF Init, StreamUi, Run
  <1>14. Offsets
    BY <1>0, <1>8 DEF Init, Offsets
  <1>15. Numbered
    <2>1. 0 % IndexMod = 0
      BY <1>0
    <2> QED BY <1>0, <2>1 DEF Init, Numbered
  <1> QED BY <1>3, <1>4, <1>5, <1>6, <1>7, <1>10, <1>12, <1>13, <1>14, <1>15 DEF SenderInv, Typed

(* and every step keeps it. *)
LEMMA NextSenderInv == SenderInv /\ [Next]_vars => SenderInv'
  <1> SUFFICES ASSUME SenderInv, [Next]_vars PROVE SenderInv'
    OBVIOUS
  <1>1. CASE UiStep
    <2>1. UiState'
      BY <1>1, UiMoves
    <2> QED BY <1>1, <2>1, UiTyped, UiControl, UiStream DEF SenderInv
  <1>2. CASE IoStep
    BY <1>2, IoTyped, IoCommands, TimersKept, IoControl, IoStream DEF SenderInv
  <1>3. CASE UNCHANGED vars
    <2>1. UNCHANGED <<upc, cache, rest, pushed, pipe, ended, commands, plugged, pollout, hasTx,
                      hasRx, armed, ipc, data, header, batch, reads, current, curOffset,
                      packet, nextIndex, sent>>
      BY <1>3 DEF vars, uiVars, selectVars, fillVars
    <2>2. Typed'
      BY <2>1 DEF SenderInv, Typed, UiTypes, CommandTypes, SelectTypes, FillTypes, PacketTypes
    <2>3. (Sound(pipe) /\ CommandOrder /\ TimersTracked /\ UiState /\ IoState /\ Ends /\ Wakeups)'
      BY <2>1 DEF SenderInv, Sound, CommandOrder, TimersTracked, UiState, IoState, Ends,
                  Wakeups, Quiet
    <2>4. (StreamIo /\ StreamPipe /\ StreamUi /\ Offsets /\ Numbered)'
      BY <2>1 DEF SenderInv, StreamIo, StreamPipe, StreamUi, Offsets, Numbered, Serialized,
                  Filled, BytesSent
    <2> QED BY <2>2, <2>3, <2>4 DEF SenderInv
  <1> QED BY <1>1, <1>2, <1>3 DEF Next, IoStep

(* The inductive invariant holds in every state the sender reaches. *)
THEOREM SenderInvariance == Spec => []SenderInv
  BY InitSenderInv, NextSenderInv, PTL DEF Spec

-----------------------------------------------------------------------------
(* Every variable stays in its type and its bounds. *)
THEOREM SenderTypeCorrect == Spec => []TypeOK
  <1>1. SenderInv => TypeOK
    <2> SUFFICES ASSUME SenderInv PROVE TypeOK
      OBVIOUS
    <2>1. UiTypes /\ SelectTypes /\ FillTypes /\ PacketTypes /\ TimersTracked /\ IoState
      BY DEF SenderInv, Typed
    <2>2. /\ upc \in {"new", "idle", "command", "rest", "closing", "stopped"}
          /\ Len(cache) <= CacheSize /\ pushed \in 0..MaxBytes
      BY <2>1 DEF UiTypes
    <2>3. \A t \in {"tx", "rx"} : armed[t] \in {0, 1}
      BY <2>1 DEF TimersTracked
    <2>4. /\ ipc \in {"idle", "fill", "send"} /\ Len(data) <= Capacity
          /\ reads \in 0..(MaxBatch - 1) /\ (current = <<>> => curOffset = 0)
          /\ curOffset \in 0..Len(current) /\ nextIndex \in 0..(IndexMod - 1)
      BY <2>1 DEF SelectTypes, FillTypes, PacketTypes, IoState
    <2>5. Len(packet.data) <= Capacity
      <3>1. CASE packet = NoPacket
        <4>1. packet.data = <<>> /\ Len(<<>>) = 0
          BY <3>1 DEF NoPacket
        <4> QED BY <4>1, Constants
      <3>2. CASE packet # NoPacket
        <4>1. Len(packet.data) \in 1..Capacity
          BY <3>2 DEF SenderInv, Numbered
        <4> QED BY <4>1, Constants
      <3> QED BY <3>1, <3>2
    <2> QED BY <2>2, <2>3, <2>4, <2>5 DEF TypeOK
  <1> QED BY <1>1, SenderInvariance, PTL

(* The timers Select has are the ones the sender knows of. *)
THEOREM TimersAreTracked == Spec => []TimersTracked
  <1>1. SenderInv => TimersTracked
    BY DEF SenderInv
  <1> QED BY <1>1, SenderInvariance, PTL

(* Asleep in Select, the sender has nothing to send that nobody will wake it for. *)
THEOREM NothingLeftBehind == Spec => []NothingStuck
  <1>1. SenderInv => NothingStuck
    <2> SUFFICES ASSUME SenderInv, plugged, ipc = "idle", ~pollout, ~hasTx, upc # "command",
                        \A i \in DOMAIN commands : commands[i] # "restart"
                 PROVE  /\ packet = NoPacket /\ current = <<>>
                        /\ HasItem(pipe) => NextItem(pipe) = Delimiter
      BY DEF NothingStuck
    <2>1. /\ Wakeups /\ Sound(pipe) /\ Ends /\ pipe \in Channels
          /\ commands \in Seq({"plug", "restart", "terminate"})
      BY DEF SenderInv, Typed, CommandTypes
    <2>2. packet = NoPacket /\ current = <<>> /\ Quiet
      BY <2>1 DEF Wakeups
    <2>3. ~\E i \in 1..Len(commands) : commands[i] = "restart"
      BY <2>1
    <2>4. pipe.taken = Len(pipe.items) => ~HasItem(pipe)
      BY <2>1 DEF Sound, HasItem, Channels
    <2>5. HasItem(pipe) => NextItem(pipe) = Delimiter
      <3>1. pipe.reader = "asleep" \/ ended => pipe.taken = Len(pipe.items)
        BY <2>1 DEF Sound, Ends
      <3> QED BY <2>2, <2>3, <2>4, <3>1, Zenon DEF Quiet
    <2> QED BY <2>2, <2>5
  <1> QED BY <1>1, SenderInvariance, PTL

(* A header that says where the first block begins is the offset PacketStream asks for. *)
LEMMA FirstBlockIs ==
  ASSUME NEW s \in Seq(Bytes), NEW n \in Nat, FirstIs(s, n)
  PROVE  Stream!FirstBlock(s) = n
  <1>1. DOMAIN s = 1..Len(s) /\ Len(s) \in Nat
    OBVIOUS
  <1>2. CASE n = Stream!kNonExistOffset /\ NoBegin(s)
    <2>1. ~\E i \in DOMAIN s : s[i].begins
      BY <1>1, <1>2, Zenon DEF NoBegin
    <2> QED BY <1>2, <2>1, Zenon DEF Stream!FirstBlock
  <1>3. CASE n + 1 \in 1..Len(s) /\ s[n + 1].begins /\ \A i \in 1..n : ~s[i].begins
    <2> DEFINE P(i) == s[i].begins /\ \A j \in 1..(i - 1) : ~s[j].begins
    <2>1. n + 1 \in DOMAIN s /\ (n + 1) - 1 = n
      BY <1>1, <1>3
    <2>2. P(n + 1)
      BY <1>3, <2>1, Zenon
    <2>3. ASSUME NEW i \in DOMAIN s, P(i) PROVE i = n + 1
      <3>1. i \in Nat /\ ~(n + 1 \in 1..(i - 1)) /\ ~(i \in 1..n) /\ i >= 1
        BY <1>1, <1>3, <2>3
      <3> QED BY <3>1
    <2>4. (CHOOSE i \in DOMAIN s : P(i)) = n + 1
      <3> HIDE DEF P
      <3> QED BY <2>1, <2>2, <2>3
    <2>5. Stream!FirstBlock(s) = (CHOOSE i \in DOMAIN s : P(i)) - 1
      <3>1. \E i \in DOMAIN s : s[i].begins
        BY <1>3, <2>1, Zenon
      <3> QED BY <3>1, Zenon DEF Stream!FirstBlock
    <2> DEFINE c == CHOOSE i \in DOMAIN s : P(i)
    <2>6. c = n + 1 /\ Stream!FirstBlock(s) = c - 1
      BY <2>4, <2>5, Zenon
    <2> HIDE DEF c
    <2> QED BY <2>1, <2>6
  <1> QED BY <1>2, <1>3 DEF FirstIs

(* What the socket takes is what the stream goes on with. *)
LEMMA SendEmits ==
  ASSUME SenderInv, SendAll
  PROVE  Stream!Emit
  <1>1. /\ StreamIo /\ Offsets /\ Numbered /\ packet \in Packets /\ packet # NoPacket
        /\ sent \in Seq(Packets) /\ sent' = Append(sent, packet)
    BY DEF SenderInv, Typed, PacketTypes, IoState, SendAll
  <1>2. Len(sent') = Len(sent) + 1 /\ sent'[Len(sent')] = packet
    BY <1>1
  <1> DEFINE d == packet.data
  <1>3. d \in Seq(Bytes) /\ packet.header \in Nat /\ Filled = d /\ BytesSent \in Nat
    BY <1>1, Places DEF Packets, Filled
  <1>4. packet.index = Len(sent) % IndexMod /\ Len(d) \in 1..Capacity
    BY <1>1, Zenon DEF Numbered
  <1>5. Stream!OffsetOf(packet.header) = Stream!FirstBlock(d)
    <2>1. FirstIs(d, Stream!OffsetOf(packet.header))
      BY <1>1, Zenon DEF Offsets
    <2>2. Stream!OffsetOf(packet.header) \in Nat
      BY <1>3, OffsetNumber
    <2> QED BY <1>3, <2>1, <2>2, FirstBlockIs, Zenon
  <1>6. Stream!NextByte = BytesSent + 1
    BY DEF Stream!NextByte, BytesSent
  <1>7. \A i \in DOMAIN d : d[i].at = Stream!NextByte + i - 1
    <2>1. ASSUME NEW i \in 1..Len(d) PROVE d[i].at = (BytesSent + 1) + i - 1
      <3>1. d[i].at = BytesSent + i
        BY <1>1, <1>3 DEF StreamIo, RunAt
      <3> QED BY <1>3, <3>1
    <2>2. DOMAIN d = 1..Len(d)
      BY <1>3
    <2> QED BY <1>6, <2>1, <2>2
  <1>8. sent = <<>> => d[1].begins
    <2>1. d # <<>>
      <3>1. Len(d) # 0 /\ Len(<<>>) = 0
        BY <1>4, Constants
      <3> QED BY <3>1
    <2> QED BY <1>1, <1>3, <2>1, Zenon DEF Offsets
  <1>9. Stream!Continues(packet)
    BY <1>4, <1>5, <1>7, <1>8, Zenon DEF Stream!Continues
  <1> QED BY <1>1, <1>2, <1>9, Zenon DEF Stream!Emit

(* The sender implements the packet stream: every packet continues the ones before it,    *)
(* with the next index, the next bytes and the offset of the first block that begins in it. *)
THEOREM SendsPacketStream == Spec => ImplementsPacketStream
  <1>1. Init => sent = <<>>
    BY DEF Init
  <1>2. SenderInv /\ [Next]_vars => [Stream!Emit]_sent
    <2> SUFFICES ASSUME SenderInv, [Next]_vars PROVE Stream!Emit \/ sent' = sent
      OBVIOUS
    <2>1. CASE SendAll
      BY <2>1, SendEmits
    <2>2. CASE ~SendAll /\ Next
      BY <2>2 DEF Next, UiStep, OutEventStep, Start, PushMessage, PushRest, EndPush, AwakePeer,
           Stop, StopPipe, PollOut, Plug, RestartOutput, Terminate, InEvent, RxTimerEvent,
           TxTimerEvent, Copy, ReadMessage, ReadNothing, PacketFull, SendBusy, SendLimited,
           ProcessUpstream, BeginOutEvent
    <2>3. CASE UNCHANGED vars
      BY <2>3 DEF vars
    <2> QED BY <2>1, <2>2, <2>3
  <1> QED BY <1>1, <1>2, SenderInvariance, PTL DEF Spec, ImplementsPacketStream,
             Stream!StreamSpec
=============================================================================
