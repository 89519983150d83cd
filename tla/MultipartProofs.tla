--------------------------- MODULE MultipartProofs --------------------------
(***************************************************************************)
(* Proofs about the multipart writer and the reader's state, for any       *)
(* messages, any buffers libcurl asks to fill, any chunks it passes on and *)
(* any failures.                                                           *)
(*                                                                         *)
(* What libcurl has and what is Left, in the buffer or to be written, make *)
(* up the message (Whole): every step but Return keeps both, and Return    *)
(* moves the buffer from the one to the other.  WInv is what the writers   *)
(* know at each of their steps.  The reader finds a boundary only where    *)
(* its boundary string is, and those of a message are numbered in order,   *)
(* so it comes to no more parts than there are (Ahead).                    *)
(***************************************************************************)
EXTENDS Multipart, DataLemmas

Mark == STRING \cup {"nl", "dd", "X", "h"}
Text == Seq(Mark)
Symbol == Nat \X Nat \X Nat \X Mark
Positions == [block : Nat \ {0}, offset : Nat]
Parts == 0..(num_parts - 1)
Results == {OK, "part_failed", "no_memory"}

\* TypeOK, but for what the boundary and the positions refer to
Types ==
  /\ message \in Messages
  /\ pc \in {"prepare", "idle", "loop", "blocks", "returned", "return", "ended"}
  /\ boundary \in BOOLEAN
  /\ part_index \in 0..num_parts
  /\ buffer \in Seq(Symbol)
  /\ sent \in Seq(Symbol)
  /\ buffer_length \in Nat
  /\ this_copy \in Nat
  /\ blocks_length \in Nat
  /\ result \in Results
  /\ request_result \in Results \cup {"not_prepared"}
  /\ faults \in 0..MaxFaults

\* The place of a writer is in one of its blocks, or after the last
Within(i, p) ==
  /\ p.block <= Len(part(i).blocks) + 1
  /\ p.block <= Len(part(i).blocks) => p.offset <= Len(part(i).blocks[p.block])
  /\ part(i).kind # "blocks" => p.block = 1

\* The parts that are due were not begun
Places ==
  /\ position \in [Parts -> Positions]
  /\ \A i \in Parts : Within(i, position[i])
  /\ \A i \in Parts : i > part_index => position[i] = fresh

\* The boundary before the current part is written before any of the part, unless
\* there is no room left in the buffer.
Boundaries ==
  IF current_boundary = NULL THEN current_boundary_offset = 0
  ELSE /\ has_boundary
       /\ current_boundary = part_index
       /\ current_boundary_offset \in 0..(Len(boundary_text(part_index)) - 1)
       /\ pc \notin {"prepare", "blocks", "returned", "return"}
       /\ pc = "loop" => room <= 0

\* Nothing is left of the current part
Exhausted ==
  at.block <= Len(part(part_index).blocks) =>
    /\ part(part_index).kind # "blocks"
    /\ at.offset = Len(part(part_index).blocks[at.block])

\* What a call knows at each of its steps
Calls ==
  /\ pc \in {"prepare", "idle", "ended"} => buffer = <<>>
  /\ pc = "prepare" => sent = <<>> /\ part_index = 0 /\ position[0] = fresh
  /\ pc \notin {"prepare", "ended"} => boundary = has_boundary
  /\ pc \in {"loop", "blocks", "returned"} => buffer_length > 0
  /\ pc \in {"blocks", "returned"} => part_index < num_parts
  /\ pc = "blocks" =>
       /\ part(part_index).kind = "blocks"
       /\ blocks_length > 0
       /\ room + this_copy = blocks_length
  /\ pc = "returned" /\ this_copy = 0 => room > 0 /\ Exhausted

Errors ==
  /\ pc = "return" => result # OK
  /\ result # OK => faults > 0
  /\ request_result # OK => faults > 0
  /\ request_result = "not_prepared" => pc = "ended"
  /\ pc = "ended" /\ request_result = OK =>
       part_index = num_parts /\ current_boundary = NULL

WInv == Types /\ Places /\ Boundaries /\ Calls /\ Errors

----------------------------------------------------------------------------
\* What the proofs use of the assumption on the constants.
LEMMA MessageIs ==
  ASSUME message \in Messages
  PROVE  /\ message \in MessageType
         /\ num_parts \in Nat \ {0}
         /\ \A i \in Parts :
              /\ part(i) \in PartType
              /\ part(i).blocks \in Seq(Text)
              /\ part(i).kind # "blocks" => Len(part(i).blocks) = 1
  <1>1. message \in MessageType /\ message.parts # <<>>
    BY WriteMultipartAssumption
  <1>2. message.parts \in Seq(PartType)
    BY <1>1 DEF MessageType
  <1>3. num_parts \in Nat \ {0}
    BY <1>1, <1>2, EmptySeq DEF num_parts
  <1>4. ASSUME NEW i \in Parts
        PROVE  /\ part(i) \in PartType
               /\ part(i).blocks \in Seq(Text)
               /\ part(i).kind # "blocks" => Len(part(i).blocks) = 1
    <2>1. i + 1 \in 1..Len(message.parts)
      BY <1>3 DEF Parts, num_parts
    <2>2. part(i) \in PartType
      BY <1>2, <2>1, ElementOfSeq DEF part
    <2>3. part(i) \in ToSet(message.parts)
      BY <1>2, <2>1 DEF part, ToSet
    <2>4. part(i).blocks \in Seq(Text)
      <3>1. Seq(STRING) \subseteq Seq(Mark)
        BY SeqMonotonic DEF Mark
      <3> QED
        BY <2>2, <3>1, SeqMonotonic DEF PartType, Text
    <2> QED
      BY <2>2, <2>3, <2>4, WriteMultipartAssumption DEF PartType
  <1> QED
    BY <1>1, <1>3, <1>4

LEMMA Limits == BufferLengths \subseteq Nat \ {0} /\ MaxFaults \in Nat
  BY WriteMultipartAssumption

\* A text as what is sent of it.
LEMMA SymbolsType ==
  ASSUME NEW i \in Nat, NEW b \in Nat, NEW text \in Text
  PROVE  /\ Symbols(i, b, text) \in Seq(Symbol)
         /\ Len(Symbols(i, b, text)) = Len(text)
         /\ \A k \in 1..Len(text) : Symbols(i, b, text)[k] = <<i, b, k, text[k]>>
  <1>1. text \in Seq(Mark)
    BY DEF Text
  <1>2. PICK n \in Nat : n = Len(text)
    BY <1>1
  <1>3. DOMAIN text = 1..n
    BY <1>1, <1>2
  <1>4. \A k \in 1..n : <<i, b, k, text[k]>> \in Symbol
    BY <1>1, <1>2 DEF Symbol
  <1>5. Symbols(i, b, text) = [k \in 1..n |-> <<i, b, k, text[k]>>]
    BY <1>3 DEF Symbols
  <1> DEFINE f == [k \in 1..n |-> <<i, b, k, text[k]>>]
  <1>6. f \in [1..n -> Symbol]
    BY <1>4
  <1>7. f \in Seq(Symbol) /\ Len(f) = n
    <2> HIDE DEF f
    <2> QED
      BY <1>6, SeqDef
  <1> QED
    BY <1>2, <1>5, <1>7

\* A boundary is a text, and not an empty one.
LEMMA BoundaryText ==
  ASSUME message \in Messages, NEW i \in 0..num_parts
  PROVE  boundary_text(i) \in Text /\ Len(boundary_text(i)) \in Nat \ {0}
  <1>1. CASE i = num_parts
    <2> DEFINE last == <<"nl", "dd", "X", "dd", "nl">>
    <2>1. last \in Seq(Mark) /\ Len(last) = 5
      BY DEF Mark
    <2> HIDE DEF last
    <2> QED
      BY <1>1, <2>1 DEF boundary_text, last, Text
  <1>2. CASE i # num_parts
    <2>1. i \in Parts
      BY <1>2, MessageIs DEF Parts
    <2>2. PICK n \in Nat : n = part(i).headers
      BY <2>1, MessageIs DEF PartType
    <2> DEFINE lines == [j \in 1..n |-> <<"h", "nl">>]
               first == <<"nl", "dd", "X", "nl">>
    <2>3. lines \in Seq(Seq(Mark))
      <3>1. <<"h", "nl">> \in Seq(Mark)
        BY DEF Mark
      <3>2. lines \in [1..n -> Seq(Mark)]
        BY <3>1
      <3> HIDE DEF lines
      <3> QED
        BY <3>2, SeqDef
    <2> HIDE DEF lines
    <2>4. PICK t \in Seq(Mark) : t = FlattenSeq(lines)
      BY <2>3, FlattenType
    <2>5. first \in Seq(Mark) /\ Len(first) = 4 /\ <<"nl">> \in Seq(Mark)
      BY DEF Mark
    <2> HIDE DEF first
    <2>6. first \o t \in Seq(Mark) /\ Len(first \o t) = 4 + Len(t)
      <3>1. first \o t \in Seq(Mark) /\ Len(first \o t) = Len(first) + Len(t)
        BY <2>5, ConcatProperties
      <3> QED
        BY <2>5, <3>1
    <2>7. (first \o t) \o <<"nl">> \in Seq(Mark)
      BY <2>5, <2>6, ConcatProperties
    <2>8. Len((first \o t) \o <<"nl">>) = Len(first \o t) + Len(<<"nl">>)
      BY <2>5, <2>6, ConcatProperties
    <2>9. boundary_text(i) = (first \o t) \o <<"nl">>
      BY <1>2, <2>2, <2>4 DEF boundary_text, lines, first
    <2> QED
      BY <2>6, <2>7, <2>8, <2>9 DEF Text
  <1> QED
    BY <1>1, <1>2

\* What a part has from a block on, and what there is from a part on, one at a time.
LEMMA Unfold ==
  ASSUME NEW S, NEW n \in Nat, NEW s \in Seq(Seq(S)), NEW t \in Seq(Seq(S)),
         Len(s) = n + 1, Len(t) = n, \A k \in 1..n : t[k] = s[k + 1]
  PROVE  FlattenSeq(s) = s[1] \o FlattenSeq(t)
  <1>1. s # <<>>
    <2>1. s = <<>> => Len(s) = 0
      OBVIOUS
    <2> QED
      BY <2>1
  <1>2. /\ Tail(s) \in Seq(Seq(S))
        /\ Len(Tail(s)) = Len(s) - 1
        /\ \A k \in 1..Len(Tail(s)) : Tail(s)[k] = s[k + 1]
    BY <1>1, HeadTailProperties
  <1>3. PICK u \in Seq(Seq(S)) : u = Tail(s)
    BY <1>2
  <1>4. Len(u) = Len(t) /\ \A k \in 1..Len(u) : u[k] = t[k]
    BY <1>2, <1>3
  <1>5. u = t
    BY <1>4, SeqEqual
  <1> QED
    BY <1>1, <1>3, <1>5, FlattenFront

LEMMA SymbolsOfBlock ==
  ASSUME message \in Messages, NEW i \in Parts, NEW b \in 1..Len(part(i).blocks)
  PROVE  /\ part(i).blocks[b] \in Text
         /\ Symbols(i, b, part(i).blocks[b]) \in Seq(Symbol)
         /\ Len(Symbols(i, b, part(i).blocks[b])) = Len(part(i).blocks[b])
         /\ Len(part(i).blocks[b]) \in Nat
  <1>1. part(i).blocks[b] \in Text
    BY MessageIs, ElementOfSeq
  <1>2. PICK text \in Text : text = part(i).blocks[b]
    BY <1>1
  <1>3. i \in Nat /\ b \in Nat
    BY MessageIs DEF Parts
  <1>4. Len(text) \in Nat
    BY LenProperties DEF Text
  <1> QED
    BY <1>2, <1>3, <1>4, SymbolsType

LEMMA BytesFromIs ==
  ASSUME message \in Messages, NEW i \in Parts, NEW b \in 1..(Len(part(i).blocks) + 1)
  PROVE  /\ BytesFrom(i, b) \in Seq(Symbol)
         /\ b = Len(part(i).blocks) + 1 => BytesFrom(i, b) = <<>>
         /\ b <= Len(part(i).blocks) =>
              BytesFrom(i, b) = Join(Symbols(i, b, part(i).blocks[b]), BytesFrom(i, b + 1))
  <1>1. PICK n \in Nat : n = Len(part(i).blocks)
    BY MessageIs
  <1> DEFINE Say(c) == Symbols(i, c, part(i).blocks[c])
             texts(c) == [k \in 1..(n + 1 - c) |-> Say(c + k - 1)]
  <1>2. \A c : BytesFrom(i, c) = FlattenSeq(texts(c))
    BY <1>1 DEF BytesFrom
  <1>3. \A c \in 1..n : Say(c) \in Seq(Symbol)
    BY <1>1, SymbolsOfBlock
  <1> HIDE DEF Say
  <1>4. ASSUME NEW c \in 1..(n + 1)
        PROVE  texts(c) \in Seq(Seq(Symbol)) /\ Len(texts(c)) = n + 1 - c
    <2>1. PICK m \in Nat : m = n + 1 - c
      OBVIOUS
    <2>2. \A k \in 1..m : c + k - 1 \in 1..n
      BY <2>1
    <2>3. [k \in 1..m |-> Say(c + k - 1)] \in [1..m -> Seq(Symbol)]
      BY <1>3, <2>2
    <2> DEFINE f == [k \in 1..m |-> Say(c + k - 1)]
    <2>4. f \in [1..m -> Seq(Symbol)]
      BY <2>3
    <2>5. f \in Seq(Seq(Symbol)) /\ Len(f) = m
      <3> HIDE DEF f
      <3> QED
        BY <2>4, SeqDef
    <2>6. texts(c) = f
      BY <2>1
    <2> HIDE DEF f, texts
    <2> QED
      BY <2>1, <2>5, <2>6
  <1>5. b \in 1..(n + 1)
    BY <1>1
  <1>6. BytesFrom(i, b) \in Seq(Symbol)
    <2>1. texts(b) \in Seq(Seq(Symbol))
      BY <1>4, <1>5
    <2> HIDE DEF texts
    <2> QED
      BY <1>2, <2>1, FlattenType
  <1>7. ASSUME b = n + 1 PROVE BytesFrom(i, b) = <<>>
    <2>1. texts(b) \in Seq(Seq(Symbol)) /\ Len(texts(b)) = 0
      BY <1>4, <1>5, <1>7
    <2> HIDE DEF texts
    <2>2. PICK t \in Seq(Seq(Symbol)) : t = texts(b) /\ Len(t) = 0
      BY <2>1
    <2>3. t = <<>>
      BY <2>2, EmptySeq
    <2> QED
      BY <1>2, <2>2, <2>3 DEF FlattenSeq
  <1>8. ASSUME b <= n PROVE BytesFrom(i, b) = Say(b) \o BytesFrom(i, b + 1)
    <2>1. PICK m \in Nat : m = n - b
      BY <1>5, <1>8
    <2>2. b + 1 \in 1..(n + 1)
      BY <1>5, <1>8
    <2>3. PICK s \in Seq(Seq(Symbol)) : s = texts(b) /\ Len(s) = m + 1
      <3>1. texts(b) \in Seq(Seq(Symbol)) /\ Len(texts(b)) = n + 1 - b
        BY <1>4, <1>5
      <3> HIDE DEF texts
      <3> QED
        BY <2>1, <3>1, <1>5
    <2>4. PICK t \in Seq(Seq(Symbol)) : t = texts(b + 1) /\ Len(t) = m
      <3>1. texts(b + 1) \in Seq(Seq(Symbol)) /\ Len(texts(b + 1)) = n + 1 - (b + 1)
        BY <1>4, <2>2
      <3>2. n + 1 - (b + 1) = m
        BY <1>5, <2>1
      <3> HIDE DEF texts
      <3> QED
        BY <3>1, <3>2
    <2>5. s[1] = Say(b)
      <3>1. 1 \in 1..(n + 1 - b) /\ b + 1 - 1 = b
        BY <1>5, <1>8
      <3>2. texts(b)[1] = Say(b + 1 - 1)
        BY <3>1
      <3> QED
        BY <2>3, <3>1, <3>2
    <2>6. ASSUME NEW k \in 1..m PROVE t[k] = s[k + 1]
      <3>1. k \in 1..(n + 1 - (b + 1)) /\ k + 1 \in 1..(n + 1 - b)
        BY <1>5, <2>1
      <3>2. b + (k + 1) - 1 = (b + 1) + k - 1
        BY <1>5
      <3>3. texts(b)[k + 1] = Say(b + (k + 1) - 1) /\ texts(b + 1)[k] = Say((b + 1) + k - 1)
        BY <3>1
      <3> QED
        BY <2>3, <2>4, <3>2, <3>3
    <2>7. FlattenSeq(s) = s[1] \o FlattenSeq(t)
      BY <2>3, <2>4, <2>6, Unfold
    <2> HIDE DEF texts
    <2> QED
      BY <1>2, <2>3, <2>4, <2>5, <2>7
  <1> QED
    BY <1>1, <1>6, <1>7, <1>8 DEF Say, Join

LEMMA BoundaryOfIs ==
  ASSUME message \in Messages, NEW i \in 0..num_parts
  PROVE  /\ BoundaryOf(i) \in Seq(Symbol)
         /\ has_boundary => /\ BoundaryOf(i) = Symbols(i, 0, boundary_text(i))
                            /\ Len(BoundaryOf(i)) = Len(boundary_text(i))
         /\ ~has_boundary => BoundaryOf(i) = <<>>
  <1>1. delimited = has_boundary
    BY MessageIs DEF delimited, has_boundary, MessageType
  <1>2. i \in Nat /\ boundary_text(i) \in Text
    BY MessageIs, BoundaryText
  <1>3. PICK text \in Text : text = boundary_text(i)
    BY <1>2
  <1>4. Symbols(i, 0, text) \in Seq(Symbol) /\ Len(Symbols(i, 0, text)) = Len(text)
    BY <1>2, SymbolsType
  <1>5. <<>> \in Seq(Symbol)
    BY EmptySeq
  <1> QED
    BY <1>1, <1>3, <1>4, <1>5 DEF BoundaryOf

LEMMA BytesOfIs ==
  ASSUME message \in Messages, NEW i \in Parts
  PROVE  BytesOf(i) \in Seq(Symbol)
  <1>1. 1 \in 1..(Len(part(i).blocks) + 1)
    BY MessageIs
  <1> QED
    BY <1>1, BytesFromIs DEF BytesOf

LEMMA EndingIs ==
  ASSUME message \in Messages, NEW i \in 0..num_parts
  PROVE  /\ Ending(i) \in Seq(Symbol)
         /\ i = num_parts => Ending(i) = BoundaryOf(i)
         /\ i < num_parts => Ending(i) = Join(BoundaryOf(i), Join(BytesOf(i), Ending(i + 1)))
  <1>1. PICK n \in Nat : n = num_parts
    BY MessageIs
  <1> DEFINE Say(j) == BoundaryOf(j) \o BytesOf(j)
             texts(c) == [k \in 1..(n - c) |-> Say(c + k - 1)]
  <1>2. \A c : Ending(c) = FlattenSeq(texts(c)) \o BoundaryOf(n)
    BY <1>1 DEF Ending
  <1>3. ASSUME NEW c \in 0..(n - 1)
        PROVE  BoundaryOf(c) \in Seq(Symbol) /\ BytesOf(c) \in Seq(Symbol) /\ Say(c) \in Seq(Symbol)
    <2>1. c \in Parts /\ c \in 0..num_parts
      BY <1>1 DEF Parts
    <2>2. BoundaryOf(c) \in Seq(Symbol) /\ BytesOf(c) \in Seq(Symbol)
      BY <2>1, BoundaryOfIs, BytesOfIs
    <2> QED
      BY <2>2, ConcatProperties
  <1>4. BoundaryOf(n) \in Seq(Symbol)
    BY <1>1, BoundaryOfIs
  <1> HIDE DEF Say
  <1>5. ASSUME NEW c \in 0..n
        PROVE  texts(c) \in Seq(Seq(Symbol)) /\ Len(texts(c)) = n - c
    <2>1. PICK m \in Nat : m = n - c
      OBVIOUS
    <2>2. \A k \in 1..m : c + k - 1 \in 0..(n - 1)
      BY <2>1
    <2> DEFINE f == [k \in 1..m |-> Say(c + k - 1)]
    <2>3. f \in [1..m -> Seq(Symbol)]
      BY <1>3, <2>2
    <2>4. f \in Seq(Seq(Symbol)) /\ Len(f) = m
      <3> HIDE DEF f
      <3> QED
        BY <2>3, SeqDef
    <2>5. texts(c) = f
      BY <2>1
    <2> HIDE DEF f, texts
    <2> QED
      BY <2>1, <2>4, <2>5
  <1>6. i \in 0..n
    BY <1>1
  <1>7. \A c \in 0..n : FlattenSeq(texts(c)) \in Seq(Symbol) /\ Ending(c) \in Seq(Symbol)
    <2> SUFFICES ASSUME NEW c \in 0..n
                 PROVE  FlattenSeq(texts(c)) \in Seq(Symbol) /\ Ending(c) \in Seq(Symbol)
      OBVIOUS
    <2>1. texts(c) \in Seq(Seq(Symbol))
      BY <1>5
    <2> HIDE DEF texts
    <2>2. FlattenSeq(texts(c)) \in Seq(Symbol)
      BY <2>1, FlattenType
    <2> QED
      BY <1>2, <1>4, <2>2, ConcatProperties
  <1>8. ASSUME i = n PROVE Ending(i) = BoundaryOf(i)
    <2>1. texts(i) \in Seq(Seq(Symbol)) /\ Len(texts(i)) = 0
      BY <1>5, <1>6, <1>8
    <2> HIDE DEF texts
    <2>2. PICK t \in Seq(Seq(Symbol)) : t = texts(i) /\ Len(t) = 0
      BY <2>1
    <2>3. t = <<>>
      BY <2>2, EmptySeq
    <2>4. FlattenSeq(t) = <<>>
      BY <2>3 DEF FlattenSeq
    <2> QED
      BY <1>2, <1>4, <1>8, <2>2, <2>4, ConcatEmptySeq
  <1>9. ASSUME i < n PROVE Ending(i) = Join(BoundaryOf(i), Join(BytesOf(i), Ending(i + 1)))
    <2>1. PICK m \in Nat : m = n - (i + 1)
      BY <1>6, <1>9
    <2>2. i + 1 \in 0..n /\ n - i = m + 1
      BY <1>6, <1>9, <2>1
    <2>3. PICK s \in Seq(Seq(Symbol)) : s = texts(i) /\ Len(s) = m + 1
      <3>1. texts(i) \in Seq(Seq(Symbol)) /\ Len(texts(i)) = n - i
        BY <1>5, <1>6
      <3> HIDE DEF texts
      <3> QED
        BY <2>2, <3>1
    <2>4. PICK t \in Seq(Seq(Symbol)) : t = texts(i + 1) /\ Len(t) = m
      <3>1. texts(i + 1) \in Seq(Seq(Symbol)) /\ Len(texts(i + 1)) = n - (i + 1)
        BY <1>5, <2>2
      <3> HIDE DEF texts
      <3> QED
        BY <2>1, <3>1
    <2>5. s[1] = Say(i)
      <3>1. 1 \in 1..(n - i) /\ i + 1 - 1 = i
        BY <1>6, <1>9
      <3>2. texts(i)[1] = Say(i + 1 - 1)
        BY <3>1
      <3> QED
        BY <2>3, <3>1, <3>2
    <2>6. ASSUME NEW k \in 1..m PROVE t[k] = s[k + 1]
      <3>1. k \in 1..(n - (i + 1)) /\ k + 1 \in 1..(n - i)
        BY <1>6, <2>1
      <3>2. i + (k + 1) - 1 = (i + 1) + k - 1
        BY <1>6
      <3>3. texts(i)[k + 1] = Say(i + (k + 1) - 1) /\ texts(i + 1)[k] = Say((i + 1) + k - 1)
        BY <3>1
      <3> QED
        BY <2>3, <2>4, <3>2, <3>3
    <2>7. FlattenSeq(s) = s[1] \o FlattenSeq(t)
      BY <2>3, <2>4, <2>6, Unfold
    <2> HIDE DEF texts
    <2>8. PICK f \in Seq(Symbol) : f = FlattenSeq(t)
      BY <1>7, <2>2, <2>4
    <2>9. PICK x \in Seq(Symbol), y \in Seq(Symbol), z \in Seq(Symbol) :
            x = BoundaryOf(i) /\ y = BytesOf(i) /\ z = BoundaryOf(n)
      BY <1>3, <1>4, <1>6, <1>9
    <2>10. Ending(i) = Join(Join(Join(x, y), f), z) /\ Ending(i + 1) = Join(f, z)
      BY <1>2, <2>3, <2>4, <2>5, <2>7, <2>8, <2>9 DEF Say, Join
    <2>11. Join(Join(Join(x, y), f), z) = Join(x, Join(y, Join(f, z)))
      BY JoinFour
    <2> QED
      BY <2>9, <2>10, <2>11
  <1> QED
    BY <1>1, <1>6, <1>7, <1>8, <1>9

\* What a part has from the start of a block on, and from a place in one on.
LEMMA RestOfFresh ==
  ASSUME message \in Messages, NEW i \in Parts,
         NEW q, q.block \in 1..(Len(part(i).blocks) + 1), q.offset = 0
  PROVE  RestOf(i, q) = BytesFrom(i, q.block) /\ RestOf(i, q) \in Seq(Symbol)
  <1>1. PICK b \in 1..(Len(part(i).blocks) + 1) : b = q.block
    OBVIOUS
  <1>2. BytesFrom(i, b) \in Seq(Symbol)
    BY BytesFromIs
  <1>3. CASE b > Len(part(i).blocks)
    <2>1. b = Len(part(i).blocks) + 1
      BY <1>3, MessageIs
    <2> QED
      BY <1>1, <1>2, <1>3, <2>1, BytesFromIs DEF RestOf
  <1>4. CASE ~(b > Len(part(i).blocks))
    <2>1. b \in 1..Len(part(i).blocks)
      BY <1>4, MessageIs
    <2>2. PICK s \in Seq(Symbol) : s = Symbols(i, b, part(i).blocks[b])
      BY <2>1, SymbolsOfBlock
    <2>3. Len(s) = Len(part(i).blocks[b])
      BY <2>1, <2>2, SymbolsOfBlock
    <2>4. SubSeq(s, 0 + 1, Len(s)) = s
      BY SubSeqFull
    <2>5. RestOf(i, q) = Join(SubSeq(s, 0 + 1, Len(s)), BytesFrom(i, b + 1))
      BY <1>1, <1>4, <2>2, <2>3 DEF RestOf, Join
    <2>6. BytesFrom(i, b) = Join(s, BytesFrom(i, b + 1))
      BY <2>1, <2>2, BytesFromIs
    <2> QED
      BY <1>1, <1>2, <2>4, <2>5, <2>6
  <1> QED
    BY <1>3, <1>4

LEMMA RestOfType ==
  ASSUME message \in Messages, NEW i \in Parts, NEW p \in Positions, Within(i, p)
  PROVE  RestOf(i, p) \in Seq(Symbol)
  <1>1. CASE p.block > Len(part(i).blocks)
    BY <1>1, EmptySeq DEF RestOf
  <1>2. CASE ~(p.block > Len(part(i).blocks))
    <2>1. PICK b \in 1..Len(part(i).blocks) : b = p.block
      BY <1>2, MessageIs DEF Positions
    <2>2. PICK s \in Seq(Symbol) : s = Symbols(i, b, part(i).blocks[b])
      BY SymbolsOfBlock
    <2>3. PICK o \in Nat : o = p.offset /\ o <= Len(s)
      <3>1. Len(s) = Len(part(i).blocks[b]) /\ Len(s) \in Nat
        BY <2>2, SymbolsOfBlock
      <3> QED
        BY <1>2, <2>1, <3>1 DEF Positions, Within
    <2>4. SubSeq(s, o + 1, Len(s)) \in Seq(Symbol)
      <3>1. o + 0 <= Len(s)
        BY <2>3
      <3> QED
        BY <3>1, Cut
    <2>5. b + 1 \in 1..(Len(part(i).blocks) + 1)
      BY MessageIs
    <2>6. BytesFrom(i, b + 1) \in Seq(Symbol)
      BY <2>5, BytesFromIs
    <2>7. RestOf(i, p) = Join(SubSeq(s, o + 1, Len(s)), BytesFrom(i, b + 1))
      <3>1. Len(s) = Len(part(i).blocks[b])
        BY <2>2, SymbolsOfBlock
      <3> QED
        BY <1>2, <2>1, <2>2, <2>3, <3>1 DEF RestOf, Join
    <2> QED
      BY <2>4, <2>6, <2>7, JoinType
  <1> QED
    BY <1>1, <1>2

\* A writer that goes on from p to q, in the same block or to the next one.
LEMMA RestAfter ==
  ASSUME message \in Messages, NEW i \in Parts, NEW p \in Positions, NEW n \in Nat,
         p.block <= Len(part(i).blocks), NEW s, s = Symbols(i, p.block, part(i).blocks[p.block]),
         p.offset + n <= Len(s), NEW q,
         \/ q.block = p.block /\ q.offset = p.offset + n
         \/ q.block = p.block + 1 /\ q.offset = 0 /\ p.offset + n = Len(s)
  PROVE  /\ Slice(s, p.offset, n) \in Seq(Symbol)
         /\ Len(Slice(s, p.offset, n)) = n
         /\ RestOf(i, q) \in Seq(Symbol)
         /\ RestOf(i, p) = Join(Slice(s, p.offset, n), RestOf(i, q))
  <1>1. PICK b \in 1..Len(part(i).blocks) : b = p.block
    BY MessageIs DEF Positions
  <1>2. /\ s \in Seq(Symbol)
        /\ Len(s) = Len(part(i).blocks[b])
        /\ Len(s) \in Nat
    BY <1>1, SymbolsOfBlock
  <1>3. PICK t \in Seq(Symbol) : t = s
    BY <1>2
  <1>4. PICK o \in Nat : o = p.offset /\ o + n <= Len(t)
    BY <1>3 DEF Positions
  <1>5. PICK x \in Seq(Symbol), y \in Seq(Symbol) :
          /\ x = Slice(t, o, n)
          /\ Len(x) = n
          /\ y = Rest(t, o + n)
          /\ Rest(t, o) = Join(x, y)
    BY <1>4, Cut
  <1>6. b + 1 \in 1..(Len(part(i).blocks) + 1)
    BY MessageIs
  <1>7. PICK z \in Seq(Symbol) : z = BytesFrom(i, b + 1)
    BY <1>6, BytesFromIs
  <1>8. ~(b > Len(part(i).blocks))
    BY MessageIs
  <1>9. RestOf(i, p) = Join(Join(x, y), z)
    BY <1>1, <1>2, <1>3, <1>4, <1>5, <1>7, <1>8 DEF RestOf, Join, Rest
  <1>10. Join(Join(x, y), z) = Join(x, Join(y, z)) /\ Join(y, z) \in Seq(Symbol)
    BY JoinThree, JoinType
  <1>11. RestOf(i, q) = Join(y, z)
    <2>1. CASE q.block = p.block /\ q.offset = p.offset + n
      BY <1>1, <1>2, <1>3, <1>4, <1>5, <1>7, <1>8, <2>1 DEF RestOf, Join, Rest
    <2>2. CASE q.block = p.block + 1 /\ q.offset = 0 /\ p.offset + n = Len(s)
      <3>1. y = <<>>
        <4>1. o + n = Len(t)
          BY <1>2, <1>3, <1>4, <2>2
        <4> QED
          BY <1>5, <4>1, RestOfNothing
      <3>2. RestOf(i, q) = z
        BY <1>1, <1>6, <1>7, <2>2, RestOfFresh
      <3> QED
        BY <3>1, <3>2, JoinEmpty
    <2> QED
      BY <2>1, <2>2
  <1> QED
    BY <1>3, <1>4, <1>5, <1>9, <1>10, <1>11

----------------------------------------------------------------------------
\* What depends on the message only does not change with it unchanged.
LEMMA SameMessage ==
  ASSUME message' = message
  PROVE  /\ num_parts' = num_parts
         /\ has_boundary' = has_boundary
         /\ Message' = Message
         /\ \A i : /\ part(i)' = part(i)
                   /\ boundary_text(i)' = boundary_text(i)
                   /\ BoundaryOf(i)' = BoundaryOf(i)
                   /\ BytesOf(i)' = BytesOf(i)
                   /\ Ending(i)' = Ending(i)
         /\ \A i, p : RestOf(i, p)' = RestOf(i, p) /\ Within(i, p)' = Within(i, p)
  <1>1. num_parts' = num_parts /\ has_boundary' = has_boundary /\ delimited' = delimited
    BY DEF num_parts, has_boundary, delimited
  <1>2. \A i : part(i)' = part(i)
    BY DEF part
  <1>3. \A i : boundary_text(i)' = boundary_text(i)
    BY <1>1, <1>2 DEF boundary_text
  <1>4. \A i : BoundaryOf(i)' = BoundaryOf(i)
    BY <1>1, <1>3 DEF BoundaryOf
  <1>5. \A i, b : BytesFrom(i, b)' = BytesFrom(i, b)
    BY <1>2 DEF BytesFrom
  <1>6. \A i : BytesOf(i)' = BytesOf(i)
    BY <1>5 DEF BytesOf
  <1>7. \A i : Ending(i)' = Ending(i)
    BY <1>1, <1>4, <1>6 DEF Ending
  <1>8. Message' = Message
    BY <1>7 DEF Message
  <1>9. \A i, p : RestOf(i, p)' = RestOf(i, p)
    BY <1>2, <1>5 DEF RestOf
  <1>10. \A i, p : Within(i, p)' = Within(i, p)
    BY <1>2 DEF Within
  <1> QED
    BY <1>1, <1>2, <1>3, <1>4, <1>6, <1>7, <1>8, <1>9, <1>10

\* As much of a boundary as there is space for is written, and the rest of it is left.
LEMMA Written ==
  ASSUME message \in Messages, message' = message, has_boundary,
         NEW i \in 0..num_parts, NEW written \in Seq(Symbol), NEW space \in Nat,
         current_boundary_offset \in 0..(Len(boundary_text(i)) - 1),
         WriteBoundary(i, written, space)
  PROVE  /\ buffer' \in Seq(Symbol)
         /\ Len(buffer') <= Len(written) + space
         /\ \/ current_boundary' = NULL /\ current_boundary_offset' = 0
            \/ /\ current_boundary' = i
               /\ current_boundary_offset' \in 0..(Len(boundary_text(i)) - 1)
               /\ Len(buffer') = Len(written) + space
         /\ RestOfBoundary' \in Seq(Symbol)
         /\ Join(buffer', RestOfBoundary') = Join(written, Rest(BoundaryOf(i), current_boundary_offset))
  <1>1. PICK s \in Seq(Symbol) : s = Symbols(i, 0, boundary_text(i)) /\ s = BoundaryOf(i)
    BY BoundaryOfIs
  <1>2. PICK l \in Nat : l = Len(s)
    OBVIOUS
  <1>3. Len(boundary_text(i)) = l
    BY <1>1, <1>2, BoundaryOfIs
  <1>4. PICK o \in Nat : o = current_boundary_offset /\ o < l
    BY <1>3
  <1>5. PICK n \in Nat : /\ n = Smaller(space, l - o)
                         /\ o + n <= l
                         /\ o + n = l \/ n = space
                         /\ n <= space
    <2>1. CASE space < l - o
      BY <1>4, <2>1 DEF Smaller
    <2>2. CASE ~(space < l - o)
      <3>1. l - o \in Nat /\ o + (l - o) = l /\ l - o <= space
        BY <1>4, <2>2
      <3>2. Smaller(space, l - o) = l - o
        BY <2>2 DEF Smaller
      <3> QED
        BY <3>1, <3>2
    <2> QED
      BY <2>1, <2>2
  <1>6. PICK x \in Seq(Symbol), y \in Seq(Symbol) :
          x = Slice(s, o, n) /\ Len(x) = n /\ y = Rest(s, o + n) /\ Rest(s, o) = Join(x, y)
    BY <1>2, <1>5, Cut
  <1>7. buffer' = Join(written, x)
    BY <1>1, <1>2, <1>3, <1>4, <1>5, <1>6 DEF WriteBoundary, Slice, Join
  <1>8. current_boundary' = IF o + n = l THEN NULL ELSE i
    BY <1>1, <1>2, <1>3, <1>4, <1>5 DEF WriteBoundary
  <1>9. current_boundary_offset' = IF o + n = l THEN 0 ELSE o + n
    BY <1>1, <1>2, <1>3, <1>4, <1>5 DEF WriteBoundary, offset_after
  <1>10. buffer' \in Seq(Symbol) /\ Len(buffer') = Len(written) + n
    BY <1>6, <1>7, JoinType
  <1>11. RestOfBoundary' = y
    <2>1. CASE o + n = l
      BY <1>2, <1>6, <1>8, <2>1, RestOfNothing DEF RestOfBoundary
    <2>2. CASE o + n # l
      <3>1. current_boundary' = i /\ i # NULL /\ current_boundary_offset' = o + n
        BY <1>8, <1>9, <2>2, MessageIs DEF NULL
      <3>2. BoundaryOf(i)' = s /\ boundary_text(i)' = boundary_text(i)
        BY <1>1, SameMessage
      <3>3. RestOfBoundary' = SubSeq(BoundaryOf(current_boundary)', o + n + 1,
                                     Len(boundary_text(current_boundary)'))
        BY <3>1 DEF RestOfBoundary
      <3>4. BoundaryOf(current_boundary)' = s /\ boundary_text(current_boundary)' = boundary_text(i)
        <4>1. \A j : j = current_boundary' => BoundaryOf(j)' = BoundaryOf(current_boundary)'
          BY DEF BoundaryOf, boundary_text
        <4> QED
          BY <3>1, <3>2
      <3> QED
        BY <1>2, <1>3, <1>6, <3>3, <3>4 DEF Rest
    <2> QED
      BY <2>1, <2>2
  <1>12. Join(Join(written, x), y) = Join(written, Join(x, y))
    BY JoinThree
  <1>13. \/ current_boundary' = NULL /\ current_boundary_offset' = 0
         \/ /\ current_boundary' = i
            /\ current_boundary_offset' \in 0..(l - 1)
            /\ Len(buffer') = Len(written) + space
    <2>1. CASE o + n = l
      BY <1>8, <1>9, <2>1
    <2>2. CASE o + n # l
      <3>1. n = space /\ o + n \in 0..(l - 1)
        BY <1>5, <2>2, SMTT(30)
      <3> QED
        BY <1>8, <1>9, <1>10, <2>2, <3>1
    <2> QED
      BY <2>1, <2>2
  <1>14. Len(buffer') <= Len(written) + space
    BY <1>5, <1>10
  <1> QED
    BY <1>1, <1>3, <1>4, <1>6, <1>7, <1>10, <1>11, <1>12, <1>13, <1>14

----------------------------------------------------------------------------
\* What is in the buffer, and what the writers have left
Left == Join(buffer, Join(RestOfBoundary, RestOfParts))

LEMMA RestTypes ==
  ASSUME WInv
  PROVE  /\ RestOfBoundary \in Seq(Symbol)
         /\ RestOfParts \in Seq(Symbol)
         /\ Left \in Seq(Symbol)
         /\ part_index < num_parts =>
              /\ part_index \in Parts
              /\ at \in Positions
              /\ Within(part_index, at)
              /\ RestOf(part_index, at) \in Seq(Symbol)
              /\ part_index + 1 \in 0..num_parts
              /\ Ending(part_index + 1) \in Seq(Symbol)
              /\ RestOfParts = Join(RestOf(part_index, at), Ending(part_index + 1))
  <1>1. message \in Messages /\ part_index \in 0..num_parts /\ num_parts \in Nat
    BY MessageIs DEF WInv, Types
  <1>2. RestOfBoundary \in Seq(Symbol)
    <2>1. CASE current_boundary = NULL
      BY <2>1, EmptySeq DEF RestOfBoundary
    <2>2. CASE current_boundary # NULL
      <3>1. PICK i \in 0..num_parts : i = current_boundary
        BY <1>1, <2>2 DEF WInv, Boundaries
      <3>2. PICK o \in Nat : o = current_boundary_offset /\ o <= Len(boundary_text(i))
        BY <1>1, <2>2, <3>1, BoundaryText DEF WInv, Boundaries
      <3>3. PICK s \in Seq(Symbol) : s = BoundaryOf(i) /\ Len(s) = Len(boundary_text(i))
        BY <1>1, <2>2, <3>1, BoundaryOfIs DEF WInv, Boundaries
      <3>4. RestOfBoundary = Rest(s, o)
        BY <2>2, <3>1, <3>2, <3>3 DEF RestOfBoundary, Rest
      <3>5. o + 0 <= Len(s)
        BY <3>2, <3>3
      <3> QED
        BY <3>4, <3>5, Cut
    <2> QED
      BY <2>1, <2>2
  <1>3. ASSUME part_index < num_parts
        PROVE  /\ part_index \in Parts
               /\ at \in Positions
               /\ Within(part_index, at)
               /\ RestOf(part_index, at) \in Seq(Symbol)
               /\ part_index + 1 \in 0..num_parts
               /\ Ending(part_index + 1) \in Seq(Symbol)
               /\ RestOfParts = Join(RestOf(part_index, at), Ending(part_index + 1))
    <2>1. part_index \in Parts /\ part_index + 1 \in 0..num_parts
      BY <1>1, <1>3 DEF Parts
    <2>2. at \in Positions /\ Within(part_index, at)
      BY <2>1 DEF at, WInv, Places
    <2>3. RestOf(part_index, at) \in Seq(Symbol)
      BY <1>1, <2>1, <2>2, RestOfType
    <2>4. Ending(part_index + 1) \in Seq(Symbol)
      BY <1>1, <2>1, EndingIs
    <2>5. RestOfParts = Join(RestOf(part_index, at), Ending(part_index + 1))
      BY <1>1, <1>3 DEF RestOfParts, Join
    <2> QED
      BY <2>1, <2>2, <2>3, <2>4, <2>5
  <1>4. RestOfParts \in Seq(Symbol)
    <2>1. CASE part_index = num_parts
      BY <2>1, EmptySeq DEF RestOfParts
    <2>2. CASE part_index # num_parts
      BY <1>1, <1>3, <2>2, JoinType
    <2> QED
      BY <2>1, <2>2
  <1>5. Left \in Seq(Symbol)
    BY <1>2, <1>4, JoinType DEF Left, WInv, Types
  <1> QED
    BY <1>2, <1>3, <1>4, <1>5

\* The current part's writer puts its next n bytes in the buffer.
LEMMA WriterAdvances ==
  ASSUME WInv, UNCHANGED <<message, part_index, current_boundary>>,
         part_index < num_parts, current_boundary = NULL,
         at.block <= Len(part(part_index).blocks),
         NEW n \in Nat, at.offset + n <= Len(block), buffer' = buffer \o Bytes(n),
         NEW q \in Positions, position' = [position EXCEPT ![part_index] = q],
         \/ q.block = at.block /\ q.offset = at.offset + n
         \/ /\ part(part_index).kind = "blocks"
            /\ q.block = at.block + 1 /\ q.offset = 0 /\ at.offset + n = Len(block)
  PROVE  /\ buffer' \in Seq(Symbol)
         /\ Len(buffer') = Len(buffer) + n
         /\ Places'
         /\ at' = q
         /\ Left' = Left
  <1>1. PICK i \in Parts : i = part_index
    BY RestTypes
  <1>2. message \in Messages
    BY DEF WInv, Types
  <1>3. PICK p \in Positions : p = at /\ Within(i, p)
    BY <1>1, RestTypes
  <1>4. PICK b \in 1..Len(part(i).blocks) : b = p.block
    BY <1>1, <1>2, <1>3, MessageIs DEF Positions
  <1>5. PICK s \in Seq(Symbol) : s = block /\ s = Symbols(i, b, part(i).blocks[b])
    BY <1>1, <1>2, <1>3, <1>4, SymbolsOfBlock DEF block
  <1>6. Len(s) = Len(part(i).blocks[b]) /\ Len(s) \in Nat
    BY <1>2, <1>5, SymbolsOfBlock
  <1>7. PICK x \in Seq(Symbol), r \in Seq(Symbol) :
          /\ x = Slice(s, p.offset, n)
          /\ Len(x) = n
          /\ r = RestOf(i, q)
          /\ RestOf(i, p) = Join(x, r)
    <2>1. p.block <= Len(part(i).blocks) /\ s = Symbols(i, p.block, part(i).blocks[p.block])
      BY <1>1, <1>3, <1>4, <1>5
    <2>2. p.offset + n <= Len(s)
      BY <1>3, <1>5
    <2>3. \/ q.block = p.block /\ q.offset = p.offset + n
          \/ q.block = p.block + 1 /\ q.offset = 0 /\ p.offset + n = Len(s)
      BY <1>3, <1>5
    <2>4. /\ Slice(s, p.offset, n) \in Seq(Symbol)
          /\ Len(Slice(s, p.offset, n)) = n
          /\ RestOf(i, q) \in Seq(Symbol)
          /\ RestOf(i, p) = Join(Slice(s, p.offset, n), RestOf(i, q))
      BY <1>2, <2>1, <2>2, <2>3, RestAfter
    <2> QED
      BY <2>4
  <1>8. buffer \in Seq(Symbol) /\ buffer' = Join(buffer, x)
    BY <1>3, <1>5, <1>7 DEF WInv, Types, Bytes, Slice, Join
  <1>9. position \in [Parts -> Positions] /\ position' = [position EXCEPT ![i] = q]
    BY <1>1 DEF WInv, Places
  <1>10. at' = q
    BY <1>1, <1>9 DEF at
  <1>11. Within(i, q)
    <2>1. CASE q.block = at.block /\ q.offset = at.offset + n
      BY <1>3, <1>4, <1>5, <1>6, <2>1 DEF Within
    <2>2. CASE /\ part(part_index).kind = "blocks"
               /\ q.block = at.block + 1 /\ q.offset = 0 /\ at.offset + n = Len(block)
      <3>1. q.block <= Len(part(i).blocks) + 1 /\ q.offset = 0 /\ part(i).kind = "blocks"
        BY <1>1, <1>2, <1>3, <1>4, <2>2, MessageIs
      <3>2. q.block <= Len(part(i).blocks) => q.offset <= Len(part(i).blocks[q.block])
        <4> SUFFICES ASSUME q.block <= Len(part(i).blocks)
                     PROVE  0 <= Len(part(i).blocks[q.block])
          BY <3>1
        <4>1. PICK c \in 1..Len(part(i).blocks) : c = q.block
          BY <1>2, MessageIs DEF Positions
        <4> QED
          BY <1>2, <4>1, SymbolsOfBlock, SMTT(30)
      <3> QED
        BY <3>1, <3>2 DEF Within
    <2> QED
      BY <2>1, <2>2
  <1>12. Places'
    <2>1. Parts' = Parts
      BY SameMessage DEF Parts
    <2>2. position' \in [Parts -> Positions]
      BY <1>9
    <2>3. ASSUME NEW j \in Parts PROVE Within(j, position'[j])
      BY <1>9, <1>11 DEF WInv, Places
    <2>4. ASSUME NEW j \in Parts PROVE Within(j, position[j])'
      <3>1. \A y : Within(j, y)' = Within(j, y)
        BY SameMessage
      <3>2. Within(j, position'[j])
        BY <2>3
      <3> QED
        BY <1>9, <3>1, <3>2 DEF Within, part
    <2>5. ASSUME NEW j \in Parts, j > part_index' PROVE position'[j] = fresh
      <3>1. j # i /\ j > part_index
        BY <1>1, <1>2, <2>5, MessageIs DEF Parts
      <3> QED
        BY <1>9, <3>1 DEF WInv, Places
    <2> QED
      BY <2>1, <2>2, <2>4, <2>5 DEF Places, fresh
  <1>13. Left' = Left
    <2>1. PICK e \in Seq(Symbol) : e = Ending(i + 1)
      BY <1>1, RestTypes
    <2>2. PICK w \in Seq(Symbol) : w = buffer
      BY <1>8
    <2>3. RestOfParts = Join(Join(x, r), e)
      BY <1>1, <1>3, <1>7, <2>1, RestTypes
    <2>4. RestOfParts' = Join(r, e)
      <3>1. part_index' # num_parts' /\ part_index' = i
        BY <1>1, <1>2, SameMessage, MessageIs DEF Parts
      <3>2. RestOf(i, q)' = r /\ Ending(i + 1)' = e
        BY <1>7, <2>1, SameMessage
      <3>3. RestOf(part_index, at)' = RestOf(i, q)' /\ Ending(part_index + 1)' = Ending(i + 1)'
        BY <1>10, <3>1 DEF RestOf, Ending
      <3> QED
        BY <3>1, <3>2, <3>3 DEF RestOfParts, Join
    <2>5. RestOfBoundary = <<>> /\ RestOfBoundary' = <<>>
      BY DEF RestOfBoundary
    <2>6. Join(r, e) \in Seq(Symbol) /\ Join(Join(x, r), e) = Join(x, Join(r, e))
      BY JoinType, JoinThree
    <2>7. PICK v \in Seq(Symbol) : v = Join(r, e) /\ Join(x, v) \in Seq(Symbol)
      BY <2>6, JoinType
    <2>8. Join(Join(w, x), v) = Join(w, Join(x, v))
      BY JoinThree
    <2>9. Join(<<>>, v) = v /\ Join(<<>>, Join(x, v)) = Join(x, v)
      BY <2>7, JoinEmpty
    <2>10. Left = Join(w, Join(x, v))
      BY <2>2, <2>3, <2>5, <2>6, <2>7, <2>9 DEF Left
    <2>11. Left' = Join(Join(w, x), v)
      BY <1>8, <2>2, <2>4, <2>5, <2>7, <2>9 DEF Left
    <2> QED
      BY <2>8, <2>10, <2>11
  <1>14. Join(buffer, x) \in Seq(Symbol) /\ Len(Join(buffer, x)) = Len(buffer) + Len(x)
    BY <1>8, JoinType
  <1> QED
    BY <1>7, <1>8, <1>10, <1>12, <1>13, <1>14

----------------------------------------------------------------------------
\* The steps.  Each keeps the invariant, and what is in the buffer or left to write.
LEMMA PrepareKept ==
  ASSUME WInv, Prepare PROVE WInv' /\ sent' = <<>> /\ Left' = Message
  <1>1. /\ message \in Messages /\ message' = message /\ pc = "prepare" /\ pc' = "idle"
        /\ boundary' = has_boundary /\ current_boundary' = first_boundary
        /\ part_index' = part_index /\ current_boundary_offset' = current_boundary_offset
        /\ position' = position /\ this_copy' = this_copy /\ blocks_length' = blocks_length
        /\ buffer_length' = buffer_length /\ result' = result /\ buffer' = buffer
        /\ request_result' = request_result /\ sent' = sent /\ faults' = faults
    BY DEF WInv, Types, Prepare, writer, call, transfer
  <1>2. /\ part_index = 0 /\ current_boundary = NULL /\ current_boundary_offset = 0
        /\ buffer = <<>> /\ sent = <<>> /\ position[0] = fresh
    BY <1>1 DEF WInv, Calls, Boundaries
  <1>3. PICK n \in Nat \ {0} : n = num_parts
    BY <1>1, MessageIs
  <1>4. 0 \in Parts /\ 0 \in 0..num_parts /\ 1 \in 0..num_parts
    BY <1>3 DEF Parts
  <1>5. BoundaryOf(0) \in Seq(Symbol) /\ BytesOf(0) \in Seq(Symbol) /\ Ending(1) \in Seq(Symbol)
    BY <1>1, <1>4, BoundaryOfIs, BytesOfIs, EndingIs
  <1>6. Message = Join(BoundaryOf(0), Join(BytesOf(0), Ending(1)))
    <2>1. 0 < num_parts /\ 0 + 1 = 1
      BY <1>3
    <2> QED
      BY <1>1, <1>4, <2>1, EndingIs DEF Message
  <1>7. RestOfParts' = Join(BytesOf(0), Ending(1))
    <2>1. part_index' # num_parts' /\ part_index' = 0 /\ at' = fresh
      BY <1>1, <1>2, <1>3, SameMessage DEF at
    <2>2. RestOf(0, fresh)' = RestOf(0, fresh) /\ Ending(1)' = Ending(1)
      BY <1>1, SameMessage
    <2>3. RestOf(part_index, at)' = RestOf(0, fresh)' /\ Ending(part_index + 1)' = Ending(1)'
      BY <2>1 DEF RestOf, Ending, fresh
    <2>4. RestOf(0, fresh) = BytesOf(0)
      <3>1. fresh.block = 1 /\ fresh.offset = 0 /\ 1 \in 1..(Len(part(0).blocks) + 1)
        BY <1>1, <1>4, MessageIs DEF fresh
      <3> QED
        BY <1>1, <1>4, <3>1, RestOfFresh DEF BytesOf
    <2> QED
      BY <2>1, <2>2, <2>3, <2>4 DEF RestOfParts, Join
  <1>8. RestOfBoundary' = BoundaryOf(0)
    <2>1. CASE has_boundary
      <3>1. current_boundary' = 0 /\ 0 # NULL /\ current_boundary_offset' = 0
        BY <1>1, <1>2, <2>1 DEF first_boundary, NULL
      <3>2. BoundaryOf(0)' = BoundaryOf(0) /\ boundary_text(0)' = boundary_text(0)
        BY <1>1, SameMessage
      <3>3. BoundaryOf(current_boundary)' = BoundaryOf(0)' /\ boundary_text(current_boundary)' = boundary_text(0)'
        BY <3>1 DEF BoundaryOf, boundary_text
      <3>4. Len(boundary_text(0)) = Len(BoundaryOf(0))
        BY <1>1, <1>4, <2>1, BoundaryOfIs
      <3>5. RestOfBoundary' = Rest(BoundaryOf(0), 0)
        BY <3>1, <3>2, <3>3, <3>4 DEF RestOfBoundary, Rest
      <3> QED
        BY <1>5, <3>5, RestOfNothing
    <2>2. CASE ~has_boundary
      BY <1>1, <1>4, <2>2, BoundaryOfIs DEF first_boundary, RestOfBoundary
    <2> QED
      BY <2>1, <2>2
  <1>9. Left' = Message
    <2>1. Join(BytesOf(0), Ending(1)) \in Seq(Symbol)
      BY <1>5, JoinType
    <2>2. Message \in Seq(Symbol)
      BY <1>5, <1>6, <2>1, JoinType
    <2> QED
      BY <1>1, <1>2, <1>6, <1>7, <1>8, <2>2, JoinEmpty DEF Left
  <1>10. Places'
    <2>1. Parts' = Parts /\ \A i, p : Within(i, p)' = Within(i, p)
      BY <1>1, SameMessage DEF Parts
    <2>2. \A i : Within(i, position[i])' = Within(i, position[i])
      BY <1>1 DEF Within, part
    <2> QED
      BY <1>1, <2>1, <2>2 DEF WInv, Places, fresh
  <1>11. Boundaries'
    <2>1. Len(boundary_text(0)) \in Nat \ {0}
      BY <1>1, <1>4, BoundaryText
    <2>2. has_boundary' = has_boundary /\ boundary_text(0)' = boundary_text(0)
      BY <1>1, SameMessage
    <2>3. boundary_text(part_index)' = boundary_text(0)'
      BY <1>1, <1>2 DEF boundary_text
    <2>4. CASE has_boundary
      BY <1>1, <1>2, <2>1, <2>2, <2>3, <2>4 DEF Boundaries, first_boundary, NULL
    <2>5. CASE ~has_boundary
      BY <1>1, <1>2, <2>5 DEF Boundaries, first_boundary, NULL
    <2> QED
      BY <2>4, <2>5
  <1>12. Types' /\ Calls' /\ Errors'
    <2>1. has_boundary' = has_boundary /\ num_parts' = num_parts
      BY <1>1, SameMessage
    <2>2. Types'
      BY <1>1, <2>1 DEF WInv, Types, has_boundary
    <2>3. Calls'
      BY <1>1, <1>2, <2>1 DEF Calls
    <2>4. Errors'
      BY <1>1 DEF WInv, Errors
    <2> QED
      BY <2>2, <2>3, <2>4
  <1> QED
    BY <1>1, <1>2, <1>9, <1>10, <1>11, <1>12 DEF WInv

\* A step that leaves the parts, or the boundary, as they are.
LEMMA SameParts ==
  ASSUME WInv, UNCHANGED <<message, part_index, position>>
  PROVE  Places' /\ RestOfParts' = RestOfParts
  <1>1. Places'
    <2>1. Parts' = Parts /\ \A i, p : Within(i, p)' = Within(i, p)
      BY SameMessage DEF Parts
    <2>2. \A i : Within(i, position[i])' = Within(i, position[i])
      BY DEF Within, part
    <2> QED
      BY <2>1, <2>2 DEF WInv, Places, fresh
  <1>2. RestOfParts' = RestOfParts
    <2>1. /\ num_parts' = num_parts
          /\ RestOf(part_index, at)' = RestOf(part_index, at)
          /\ Ending(part_index + 1)' = Ending(part_index + 1)
      <3>1. \A i, p : RestOf(i, p)' = RestOf(i, p) /\ Ending(i)' = Ending(i) /\ num_parts' = num_parts
        BY SameMessage
      <3>2. at' = at
        BY DEF at
      <3>3. RestOf(part_index, at)' = RestOf(part_index, at)
        BY <3>1, <3>2 DEF RestOf, BytesFrom, part
      <3>4. Ending(part_index + 1)' = Ending(part_index + 1)
        BY <3>1 DEF Ending, BoundaryOf, boundary_text, BytesOf, BytesFrom, part, num_parts,
                    delimited
      <3> QED
        BY <3>1, <3>3, <3>4
    <2> QED
      BY <2>1 DEF RestOfParts
  <1> QED
    BY <1>1, <1>2

LEMMA SameBoundary ==
  ASSUME WInv, UNCHANGED <<message, part_index, current_boundary, current_boundary_offset>>
  PROVE  /\ RestOfBoundary' = RestOfBoundary
         /\ \/ current_boundary = NULL
            \/ /\ pc' \notin {"prepare", "blocks", "returned", "return"}
               /\ pc' = "loop" => room' <= 0
            => Boundaries'
  <1>1. RestOfBoundary' = RestOfBoundary
    BY DEF RestOfBoundary, BoundaryOf, boundary_text, part, num_parts, delimited
  <1>2. boundary_text(part_index)' = boundary_text(part_index) /\ has_boundary' = has_boundary
    BY DEF boundary_text, part, num_parts, has_boundary
  <1>3. CASE current_boundary = NULL
    BY <1>1, <1>3 DEF WInv, Boundaries
  <1>4. CASE current_boundary # NULL
    BY <1>1, <1>2, <1>4 DEF WInv, Boundaries
  <1> QED
    BY <1>3, <1>4

LEMMA CallKept ==
  ASSUME WInv, Call
  PROVE  WInv' /\ sent' = sent /\ Left' = Left /\ Len(buffer') <= buffer_length'
  <1>1. /\ pc = "idle" /\ pc' = "loop" /\ result' = OK
        /\ message \in Messages /\ message' = message /\ boundary' = boundary
        /\ part_index' = part_index /\ position' = position /\ this_copy' = this_copy
        /\ blocks_length' = blocks_length /\ request_result' = request_result
        /\ sent' = sent /\ faults' = faults
    BY DEF WInv, Types, Call, writer, transfer
  <1>2. PICK l \in Nat \ {0} : l = buffer_length' /\ buffer_length' \in BufferLengths
    BY Limits DEF Call
  <1>3. buffer = <<>> /\ boundary = has_boundary
    BY <1>1 DEF WInv, Calls
  <1>4. Places' /\ RestOfParts' = RestOfParts
    BY <1>1, SameParts
  <1>5. /\ RestOfBoundary \in Seq(Symbol)
        /\ RestOfParts \in Seq(Symbol)
        /\ <<>> \in Seq(Symbol)
    BY RestTypes, EmptySeq
  <1>6. CASE current_boundary = NULL
    <2>1. UNCHANGED <<current_boundary, current_boundary_offset, buffer>>
      BY <1>6 DEF Call
    <2>2. Boundaries' /\ RestOfBoundary' = RestOfBoundary
      BY <1>1, <1>6, <2>1, SameBoundary
    <2>3. Left' = Left
      BY <1>4, <2>1, <2>2 DEF Left
    <2>4. Types' /\ Calls' /\ Errors'
      <3>1. has_boundary' = has_boundary /\ num_parts' = num_parts
        BY <1>1, SameMessage
      <3>2. Types'
        BY <1>1, <1>2, <2>1, <3>1 DEF WInv, Types, Results
      <3>3. Calls'
        BY <1>1, <1>2, <1>3, <3>1 DEF Calls
      <3>4. Errors'
        BY <1>1 DEF WInv, Errors
      <3> QED
        BY <3>2, <3>3, <3>4
    <2>5. Len(buffer') <= buffer_length'
      <3>1. Len(buffer') = 0 /\ l >= 0
        BY <1>3, <2>1
      <3> QED
        BY <1>2, <3>1
    <2> QED
      BY <1>1, <1>4, <2>2, <2>3, <2>4, <2>5 DEF WInv
  <1>7. CASE current_boundary # NULL
    <2>1. PICK i \in 0..num_parts : i = current_boundary /\ i = part_index
      BY <1>1, <1>7 DEF WInv, Types, Boundaries
    <2>2. has_boundary /\ current_boundary_offset \in 0..(Len(boundary_text(i)) - 1)
      BY <1>7, <2>1 DEF WInv, Boundaries
    <2>3. WriteBoundary(i, <<>>, l)
      BY <1>2, <1>7, <2>1 DEF Call
    <2>4. PICK e \in Seq(Symbol) : e = <<>> /\ Len(e) = 0
      BY EmptySeq
    <2>5. WriteBoundary(i, e, l)
      BY <2>3, <2>4
    <2>6. /\ buffer' \in Seq(Symbol)
          /\ Len(buffer') <= Len(e) + l
          /\ \/ current_boundary' = NULL /\ current_boundary_offset' = 0
             \/ /\ current_boundary' = i
                /\ current_boundary_offset' \in 0..(Len(boundary_text(i)) - 1)
                /\ Len(buffer') = Len(e) + l
          /\ RestOfBoundary' \in Seq(Symbol)
          /\ Join(buffer', RestOfBoundary') = Join(e, Rest(BoundaryOf(i), current_boundary_offset))
      BY <1>1, <2>2, <2>5, Written
    <2>7. RestOfBoundary = Rest(BoundaryOf(i), current_boundary_offset)
      BY <1>1, <1>7, <2>1, <2>2, BoundaryOfIs DEF RestOfBoundary, Rest
    <2>8. Left' = Left
      <3>1. PICK x \in Seq(Symbol), y \in Seq(Symbol), z \in Seq(Symbol), w \in Seq(Symbol) :
              x = buffer' /\ y = RestOfBoundary' /\ z = RestOfParts /\ w = RestOfBoundary
        BY <1>5, <2>6
      <3>2. Join(x, y) = Join(e, w)
        BY <2>6, <2>7, <3>1
      <3>3. Join(Join(x, y), z) = Join(x, Join(y, z))
        BY JoinThree
      <3>4. Join(Join(e, w), z) = Join(e, Join(w, z))
        BY JoinThree
      <3>5. Left' = Join(x, Join(y, z))
        BY <1>4, <3>1 DEF Left
      <3>6. Left = Join(e, Join(w, z))
        BY <1>3, <2>4, <3>1 DEF Left
      <3> QED
        BY <3>2, <3>3, <3>4, <3>5, <3>6
    <2>9. Boundaries'
      <3>1. boundary_text(part_index)' = boundary_text(i) /\ has_boundary'
        BY <1>1, <2>1, <2>2 DEF boundary_text, part, num_parts, has_boundary
      <3>2. CASE current_boundary' = NULL /\ current_boundary_offset' = 0
        BY <3>2 DEF Boundaries
      <3>3. CASE /\ current_boundary' = i
                 /\ current_boundary_offset' \in 0..(Len(boundary_text(i)) - 1)
                 /\ Len(buffer') = Len(e) + l
        <4>1. room' <= 0
          <5>1. Len(buffer') = l
            BY <2>4, <3>3
          <5>2. room' = l - Len(buffer')
            BY <1>2 DEF room, copied
          <5>3. l - l <= 0
            OBVIOUS
          <5> QED
            BY <5>1, <5>2, <5>3
        <4> QED
          BY <1>1, <2>1, <3>1, <3>3, <4>1 DEF Boundaries, NULL
      <3> QED
        BY <2>6, <3>2, <3>3
    <2>10. Types' /\ Calls' /\ Errors'
      <3>1. has_boundary' = has_boundary /\ num_parts' = num_parts
        BY <1>1, SameMessage
      <3>2. Types'
        BY <1>1, <1>2, <2>6, <3>1 DEF WInv, Types, Results
      <3>3. Calls'
        BY <1>1, <1>2, <1>3, <3>1 DEF Calls
      <3>4. Errors'
        BY <1>1 DEF WInv, Errors
      <3> QED
        BY <3>2, <3>3, <3>4
    <2>11. Len(buffer') <= buffer_length'
      <3>1. Len(e) + l = l
        BY <2>4
      <3> QED
        BY <1>2, <2>6, <3>1
    <2> QED
      BY <1>1, <1>4, <2>8, <2>9, <2>10, <2>11 DEF WInv
  <1> QED
    BY <1>6, <1>7

\* The writers of parts give n bytes: a block, or what a writer of the DSI likes.
LEMMA GiveKept ==
  ASSUME WInv, NEW kind, kind # "blocks", PartCalled(kind),
         NEW n \in Nat, n <= left, n <= room, n = 0 => left = 0, Give(n)
  PROVE  WInv' /\ sent' = sent /\ Left' = Left /\ Len(buffer') <= buffer_length'
  <1>1. /\ pc = "loop" /\ pc' = "returned" /\ goes_on /\ part(part_index).kind = kind
        /\ message \in Messages /\ message' = message /\ boundary' = boundary
        /\ part_index' = part_index /\ current_boundary' = current_boundary
        /\ current_boundary_offset' = current_boundary_offset
        /\ buffer_length' = buffer_length /\ result' = result /\ this_copy' = n
        /\ blocks_length' = blocks_length /\ request_result' = request_result
        /\ sent' = sent /\ faults' = faults
    <2>1. /\ pc = "loop" /\ goes_on /\ part(part_index).kind = kind
          /\ UNCHANGED <<message, multipart, call, transfer>>
      BY DEF PartCalled
    <2>2. pc' = "returned" /\ this_copy' = n /\ UNCHANGED <<blocks_length, faults>>
      BY DEF Give
    <2>3. message \in Messages
      BY DEF WInv, Types
    <2> QED
      BY <2>1, <2>2, <2>3 DEF multipart, call, transfer
  <1>2. PICK l \in Nat, c \in Nat : l = buffer_length /\ c = Len(buffer) /\ c < l
    <2>1. buffer_length \in Nat /\ Len(buffer) \in Nat
      BY LenProperties DEF WInv, Types
    <2>2. Len(buffer) < buffer_length
      BY <1>1 DEF goes_on, copied
    <2> QED
      BY <2>1, <2>2
  <1>3. room = l - c /\ l - c > 0 /\ part_index < num_parts
    BY <1>1, <1>2 DEF room, copied, goes_on
  <1>4. current_boundary = NULL
    BY <1>1, <1>2, <1>3 DEF WInv, Boundaries
  <1>5. PICK i \in Parts : i = part_index
    BY <1>3, RestTypes
  <1>6. PICK p \in Positions : p = at /\ Within(i, p) /\ p.block = 1
    BY <1>1, <1>3, <1>5, RestTypes DEF Within
  <1>7. part(i).kind # "blocks" /\ Len(part(i).blocks) = 1
    BY <1>1, <1>5, MessageIs
  <1>8. PICK m \in Nat : /\ m = Len(block)
                         /\ m = Len(part(i).blocks[1])
                         /\ left = m - p.offset
    <2>1. 1 \in 1..Len(part(i).blocks)
      BY <1>7
    <2> QED
      BY <1>1, <1>5, <1>6, <2>1, SymbolsOfBlock DEF block, left
  <1> DEFINE q == [block |-> 1, offset |-> p.offset + n]
  <1>9. q \in Positions /\ q.block = at.block /\ q.offset = at.offset + n
    BY <1>6 DEF Positions
  <1>10. position' = [position EXCEPT ![part_index] = q]
    <2>1. position \in [Parts -> Positions]
      BY DEF WInv, Places
    <2>2. position' = [position EXCEPT ![i] = [position[i] EXCEPT !.offset = @ + n]]
      BY <1>5 DEF Give
    <2>3. position[i] = p
      BY <1>5, <1>6 DEF at
    <2>4. [p EXCEPT !.offset = @ + n] = q
      BY <1>6 DEF Positions
    <2> QED
      BY <1>5, <2>2, <2>3, <2>4
  <1>11. at.block <= Len(part(part_index).blocks) /\ at.offset + n <= Len(block)
    BY <1>5, <1>6, <1>7, <1>8 DEF Positions
  <1>12. buffer' = buffer \o Bytes(n)
    BY DEF Give
  <1> HIDE DEF q
  <1>13. /\ buffer' \in Seq(Symbol)
         /\ Len(buffer') = Len(buffer) + n
         /\ Places'
         /\ at' = q
         /\ Left' = Left
    BY <1>1, <1>3, <1>4, <1>9, <1>10, <1>11, <1>12, WriterAdvances
  <1>14. Boundaries'
    BY <1>1, <1>4 DEF WInv, Boundaries
  <1>15. has_boundary' = has_boundary /\ num_parts' = num_parts /\ part(i)' = part(i)
    BY <1>1, SameMessage
  <1>16. Types' /\ Errors'
    BY <1>1, <1>13, <1>15 DEF WInv, Types, Errors
  <1>17. ASSUME n = 0 PROVE room' > 0 /\ Exhausted'
    <2>1. room' > 0
      <3>1. Len(buffer') = c
        BY <1>2, <1>13, <1>17
      <3> QED
        BY <1>1, <1>2, <3>1 DEF room, copied
    <2>2. q.block = 1 /\ q.offset = m
      BY <1>6, <1>8, <1>17 DEF q, Positions
    <2>3. part(part_index)' = part(i)
      BY <1>1, <1>5, <1>15 DEF part
    <2> QED
      BY <1>7, <1>8, <1>13, <2>1, <2>2, <2>3 DEF Exhausted
  <1>18. Calls'
    <2>1. buffer_length' > 0
      BY <1>1, <1>2
    <2> QED
      BY <1>1, <1>3, <1>15, <1>17, <2>1 DEF WInv, Calls
  <1>19. Len(buffer') <= buffer_length'
    BY <1>1, <1>2, <1>3, <1>13
  <1> QED
    BY <1>1, <1>13, <1>14, <1>16, <1>18, <1>19 DEF WInv

\* A writer has a natural number of bytes left of its block.
LEMMA LeftIs ==
  ASSUME WInv, part_index < num_parts, at.block <= Len(part(part_index).blocks), NEW x \in Nat
  PROVE  /\ left \in Nat
         /\ at.offset \in Nat
         /\ at.block \in Nat \ {0}
         /\ Len(block) = at.offset + left
         /\ amount(x) \in Nat
         /\ amount(x) <= left
         /\ amount(x) <= x
         /\ amount(x) = left \/ amount(x) = x
  <1>1. PICK i \in Parts : i = part_index
    BY RestTypes
  <1>2. PICK p \in Positions : p = at /\ Within(i, p)
    BY <1>1, RestTypes
  <1>3. message \in Messages
    BY DEF WInv, Types
  <1>4. PICK b \in 1..Len(part(i).blocks) : b = p.block
    BY <1>1, <1>2, <1>3, MessageIs DEF Positions
  <1>5. Len(block) = Len(part(i).blocks[b]) /\ Len(block) \in Nat
    BY <1>1, <1>2, <1>3, <1>4, SymbolsOfBlock DEF block
  <1>6. p.offset \in Nat /\ p.offset <= Len(block)
    BY <1>1, <1>2, <1>4, <1>5 DEF Within, Positions
  <1>7. left \in Nat /\ Len(block) = at.offset + left
    BY <1>2, <1>5, <1>6 DEF left
  <1> QED
    BY <1>2, <1>6, <1>7 DEF Positions, amount, Smaller

\* A part that is no list of blocks has one.
LEMMA OneBlock ==
  ASSUME WInv, part_index < num_parts, part(part_index).kind # "blocks"
  PROVE  at.block <= Len(part(part_index).blocks)
  <1>1. PICK i \in Parts : i = part_index
    BY RestTypes
  <1>2. Within(i, at) /\ message \in Messages
    BY <1>1, RestTypes DEF WInv, Types
  <1>3. at.block = 1
    BY <1>1, <1>2 DEF Within
  <1>4. Len(part(i).blocks) = 1
    BY <1>1, <1>2, MessageIs
  <1> QED
    BY <1>1, <1>3, <1>4

LEMMA CallBlockKept ==
  ASSUME WInv, CallBlock
  PROVE  WInv' /\ sent' = sent /\ Left' = Left /\ Len(buffer') <= buffer_length'
  <1>1. PartCalled("block") /\ Give(amount(room)) /\ goes_on
    BY DEF CallBlock, PartCalled
  <1>2. part_index < num_parts /\ part(part_index).kind # "blocks"
    BY <1>1 DEF PartCalled, goes_on
  <1>3. room \in Nat /\ room > 0
    <2>1. buffer_length \in Nat /\ Len(buffer) \in Nat
      BY LenProperties DEF WInv, Types
    <2> QED
      BY <1>1, <2>1 DEF goes_on, room, copied
  <1>4. PICK n \in Nat : n = amount(room) /\ n <= left /\ n <= room /\ (n = 0 => left = 0)
    <2>1. at.block <= Len(part(part_index).blocks)
      BY <1>2, OneBlock
    <2>2. /\ left \in Nat
          /\ amount(room) \in Nat
          /\ amount(room) <= left
          /\ amount(room) <= room
          /\ amount(room) = left \/ amount(room) = room
      BY <1>2, <1>3, <2>1, LeftIs
    <2> QED
      BY <1>3, <2>2
  <1>5. Give(n)
    BY <1>1, <1>4
  <1>6. "block" # "blocks"
    OBVIOUS
  <1> QED
    BY <1>1, <1>4, <1>5, <1>6, GiveKept

LEMMA CallUserKept ==
  ASSUME WInv, CallUser
  PROVE  WInv' /\ sent' = sent /\ Left' = Left /\ Len(buffer') <= buffer_length'
  <1>1. PartCalled("user") /\ goes_on
    BY DEF CallUser, PartCalled
  <1>2. part_index < num_parts /\ part(part_index).kind # "blocks"
    BY <1>1 DEF PartCalled, goes_on
  <1>3. room \in Nat /\ room > 0
    <2>1. buffer_length \in Nat /\ Len(buffer) \in Nat
      BY LenProperties DEF WInv, Types
    <2> QED
      BY <1>1, <2>1 DEF goes_on, room, copied
  <1>4. amount(room) \in Nat /\ amount(room) <= left /\ amount(room) <= room /\ left \in Nat
    BY <1>2, <1>3, OneBlock, LeftIs
  <1>5. PICK n \in 0..amount(room) : (n = 0 <=> left = 0) /\ Give(n)
    BY DEF CallUser
  <1>6. n \in Nat /\ n <= left /\ n <= room
    BY <1>3, <1>4, <1>5
  <1>7. "user" # "blocks"
    OBVIOUS
  <1> QED
    BY <1>1, <1>5, <1>6, <1>7, GiveKept

\* A step that changes neither the parts, the boundary nor the buffer.
LEMMA SameLeft ==
  ASSUME WInv, UNCHANGED <<message, position, part_index, current_boundary,
                           current_boundary_offset, buffer>>
  PROVE  Left' = Left
  BY SameParts, SameBoundary DEF Left

LEMMA FailsKept ==
  ASSUME WInv, CallUserFails \/ BoundaryFails
  PROVE  WInv' /\ sent' = sent /\ Left' = Left
  <1>1. /\ pc' = "return" /\ result' \in Results \ {OK} /\ faults < MaxFaults /\ faults' = faults + 1
        /\ UNCHANGED <<message, multipart, writer, buffer_length, buffer, transfer>>
        /\ pc \in {"loop", "returned"}
    BY DEF CallUserFails, BoundaryFails, Fault, Results, OK
  <1>2. current_boundary = NULL /\ boundary = has_boundary
    <2>1. CASE CallUserFails
      <3>1. buffer_length \in Nat /\ Len(buffer) \in Nat
        BY LenProperties DEF WInv, Types
      <3>2. room > 0 /\ pc = "loop"
        BY <2>1, <3>1 DEF CallUserFails, goes_on, room, copied
      <3>3. room \in Int
        BY <3>1 DEF room, copied
      <3> QED
        BY <1>1, <3>2, <3>3 DEF WInv, Boundaries, Calls
    <2>2. CASE BoundaryFails
      BY <1>1, <2>2 DEF BoundaryFails, WInv, Boundaries, Calls
    <2> QED
      BY <2>1, <2>2
  <1>3. /\ UNCHANGED <<message, position, part_index, current_boundary,
                       current_boundary_offset, buffer>>
        /\ boundary' = boundary /\ this_copy' = this_copy /\ blocks_length' = blocks_length
        /\ buffer_length' = buffer_length /\ request_result' = request_result /\ sent' = sent
    BY <1>1 DEF multipart, writer, transfer
  <1>4. Left' = Left
    BY <1>3, SameLeft
  <1>5. Places' /\ Boundaries'
    BY <1>2, <1>3, SameParts, SameBoundary
  <1>6. has_boundary' = has_boundary /\ num_parts' = num_parts
    BY <1>3, SameMessage
  <1>7. faults' \in 0..MaxFaults /\ faults' > 0
    BY <1>1, Limits DEF WInv, Types
  <1>8. Types'
    BY <1>1, <1>3, <1>6, <1>7 DEF WInv, Types
  <1>9. Calls'
    BY <1>1, <1>2, <1>3, <1>6 DEF WInv, Calls
  <1>10. Errors'
    BY <1>1, <1>3, <1>7 DEF WInv, Errors
  <1> QED
    BY <1>3, <1>4, <1>5, <1>8, <1>9, <1>10 DEF WInv

LEMMA PrepareFailsKept ==
  ASSUME WInv, PrepareFails
  PROVE  WInv' /\ request_result' = "not_prepared"
  <1>1. /\ pc = "prepare" /\ pc' = "ended" /\ request_result' = "not_prepared"
        /\ faults < MaxFaults /\ faults' = faults + 1
        /\ UNCHANGED <<message, multipart, writer, call, buffer, sent>>
    BY DEF PrepareFails, Fault
  <1>2. /\ UNCHANGED <<message, position, part_index, current_boundary,
                       current_boundary_offset, buffer>>
        /\ boundary' = boundary /\ this_copy' = this_copy /\ blocks_length' = blocks_length
        /\ buffer_length' = buffer_length /\ result' = result /\ sent' = sent
    BY <1>1 DEF multipart, writer, call
  <1>3. current_boundary = NULL /\ buffer = <<>>
    BY <1>1 DEF WInv, Boundaries, Calls
  <1>4. Places' /\ Boundaries'
    BY <1>2, <1>3, SameParts, SameBoundary
  <1>5. has_boundary' = has_boundary /\ num_parts' = num_parts
    BY <1>2, SameMessage
  <1>6. faults' \in 0..MaxFaults /\ faults' > 0
    BY <1>1, Limits DEF WInv, Types
  <1>7. Types'
    BY <1>1, <1>2, <1>5, <1>6 DEF WInv, Types
  <1>8. Calls'
    BY <1>1, <1>2, <1>3 DEF Calls
  <1>9. Errors'
    BY <1>1, <1>2, <1>6 DEF WInv, Errors, OK
  <1> QED
    BY <1>1, <1>4, <1>7, <1>8, <1>9 DEF WInv

LEMMA CallBlocksKept ==
  ASSUME WInv, CallBlocks
  PROVE  WInv' /\ sent' = sent /\ Left' = Left
  <1>1. /\ pc = "loop" /\ pc' = "blocks" /\ goes_on /\ part(part_index).kind = "blocks"
        /\ this_copy' = 0 /\ blocks_length' = room
        /\ UNCHANGED <<message, multipart, call, transfer>>
        /\ UNCHANGED <<position, buffer, faults>>
    BY DEF CallBlocks, PartCalled
  <1>2. /\ UNCHANGED <<message, position, part_index, current_boundary,
                       current_boundary_offset, buffer>>
        /\ boundary' = boundary /\ buffer_length' = buffer_length /\ result' = result
        /\ request_result' = request_result /\ sent' = sent /\ faults' = faults
    BY <1>1 DEF multipart, call, transfer
  <1>3. PICK l \in Nat, c \in Nat : l = buffer_length /\ c = Len(buffer) /\ c < l
    <2>1. buffer_length \in Nat /\ Len(buffer) \in Nat
      BY LenProperties DEF WInv, Types
    <2>2. Len(buffer) < buffer_length
      BY <1>1 DEF goes_on, copied
    <2> QED
      BY <2>1, <2>2
  <1>4. /\ room = l - c /\ room' = l - c
        /\ l - c \in Nat /\ l - c > 0 /\ (l - c) + 0 = l - c
        /\ part_index < num_parts
    BY <1>1, <1>2, <1>3 DEF room, copied, goes_on
  <1>5. current_boundary = NULL
    BY <1>1, <1>4 DEF WInv, Boundaries
  <1>6. Left' = Left
    BY <1>2, SameLeft
  <1>7. Places' /\ Boundaries'
    BY <1>2, <1>5, SameParts, SameBoundary
  <1>8. has_boundary' = has_boundary /\ num_parts' = num_parts /\ part(part_index)' = part(part_index)
    BY <1>2, SameMessage DEF part
  <1>9. Types' /\ Errors'
    BY <1>1, <1>2, <1>4, <1>8 DEF WInv, Types, Errors
  <1>10. Calls'
    BY <1>1, <1>2, <1>3, <1>4, <1>8 DEF WInv, Calls
  <1> QED
    BY <1>2, <1>6, <1>7, <1>9, <1>10 DEF WInv

\* write_blocks copies from one block, and goes on in it or with the next one.
LEMMA BlocksCopyKept ==
  ASSUME WInv, BlocksCopy
  PROVE  /\ WInv' /\ sent' = sent /\ Left' = Left
         /\ Len(buffer') = Len(buffer) + amount(blocks_length)
  <1>1. /\ pc = "blocks" /\ blocks_go_on
        /\ UNCHANGED <<message, pc, multipart, blocks_length, call, transfer, faults>>
    BY DEF BlocksCopy
  <1>2. /\ UNCHANGED <<message, part_index, current_boundary, current_boundary_offset>>
        /\ pc' = pc /\ boundary' = boundary /\ buffer_length' = buffer_length
        /\ result' = result /\ blocks_length' = blocks_length
        /\ request_result' = request_result /\ sent' = sent /\ faults' = faults
    BY <1>1 DEF multipart, call, transfer
  <1>3. /\ part_index < num_parts /\ part(part_index).kind = "blocks"
        /\ blocks_length > 0 /\ room + this_copy = blocks_length
        /\ buffer_length > 0 /\ boundary = has_boundary
        /\ current_boundary = NULL
    BY <1>1 DEF WInv, Calls, Boundaries
  <1>4. at.block <= Len(part(part_index).blocks)
    BY <1>1 DEF blocks_go_on
  <1>5. blocks_length \in Nat /\ this_copy \in Nat /\ buffer_length \in Nat
    BY DEF WInv, Types
  <1>6. /\ left \in Nat
        /\ at.offset \in Nat
        /\ at.block \in Nat \ {0}
        /\ Len(block) = at.offset + left
        /\ amount(blocks_length) \in Nat
        /\ amount(blocks_length) <= left
        /\ amount(blocks_length) <= blocks_length
        /\ amount(blocks_length) = left \/ amount(blocks_length) = blocks_length
    BY <1>3, <1>4, <1>5, LeftIs
  <1>7. PICK n \in Nat : n = amount(blocks_length)
    BY <1>6
  <1>8. /\ buffer' = buffer \o Bytes(n)
        /\ this_copy' = this_copy + n
        /\ position' = [position EXCEPT ![part_index] = advanced(n)]
    BY <1>7 DEF BlocksCopy
  <1>9. PICK q \in Positions :
          /\ q = advanced(n)
          /\ \/ q.block = at.block /\ q.offset = at.offset + n
             \/ q.block = at.block + 1 /\ q.offset = 0 /\ at.offset + n = Len(block)
    <2>1. PICK b \in Nat \ {0}, o \in Nat : b = at.block /\ o = at.offset
      BY <1>6
    <2>2. at \in Positions
      BY <1>3, RestTypes
    <2>3. CASE n = left
      <3> DEFINE q == [block |-> b + 1, offset |-> 0]
      <3>1. advanced(n) = q
        BY <2>1, <2>3 DEF advanced
      <3>2. q \in Positions /\ q.block = b + 1 /\ q.offset = 0
        BY DEF Positions
      <3>3. at.offset + n = Len(block)
        BY <1>6, <2>3
      <3> QED
        BY <2>1, <3>1, <3>2, <3>3
    <2>4. CASE n # left
      <3> DEFINE q == [block |-> b, offset |-> o + n]
      <3>1. advanced(n) = q
        BY <2>1, <2>2, <2>4 DEF advanced, Positions
      <3>2. q \in Positions /\ q.block = b /\ q.offset = o + n
        BY DEF Positions
      <3> QED
        BY <2>1, <3>1, <3>2
    <2> QED
      BY <2>3, <2>4
  <1>10. at.offset + n <= Len(block)
    BY <1>6, <1>7
  <1>11. position' = [position EXCEPT ![part_index] = q]
    BY <1>8, <1>9
  <1>12. \/ q.block = at.block /\ q.offset = at.offset + n
         \/ /\ part(part_index).kind = "blocks"
            /\ q.block = at.block + 1 /\ q.offset = 0 /\ at.offset + n = Len(block)
    BY <1>3, <1>9
  <1>13. /\ buffer' \in Seq(Symbol)
         /\ Len(buffer') = Len(buffer) + n
         /\ Places'
         /\ at' = q
         /\ Left' = Left
    BY <1>2, <1>3, <1>4, <1>8, <1>10, <1>11, <1>12, WriterAdvances
  <1>14. Boundaries'
    BY <1>2, <1>3, SameBoundary
  <1>15. has_boundary' = has_boundary /\ num_parts' = num_parts /\ part(part_index)' = part(part_index)
    BY <1>2, SameMessage DEF part
  <1>16. Types' /\ Errors'
    <2>1. this_copy' \in Nat
      BY <1>5, <1>8
    <2> QED
      BY <1>2, <1>13, <1>15, <2>1 DEF WInv, Types, Errors
  <1>17. room' + this_copy' = blocks_length'
    <2>1. PICK c \in Nat, l \in Nat, k \in Nat :
            c = Len(buffer) /\ l = buffer_length /\ k = this_copy
      BY <1>5, LenProperties DEF WInv, Types
    <2>2. room = l - c /\ room' = l - (c + n) /\ this_copy' = k + n
      BY <1>2, <1>8, <1>13, <2>1 DEF room, copied
    <2>3. (l - (c + n)) + (k + n) = (l - c) + k
      BY <2>1
    <2> QED
      BY <1>2, <1>3, <2>1, <2>2, <2>3
  <1>18. Calls'
    BY <1>1, <1>2, <1>3, <1>15, <1>17 DEF Calls
  <1> QED
    BY <1>2, <1>7, <1>13, <1>14, <1>16, <1>18 DEF WInv

LEMMA BlocksReturnKept ==
  ASSUME WInv, BlocksReturn
  PROVE  WInv' /\ sent' = sent /\ Left' = Left
  <1>1. /\ pc = "blocks" /\ ~blocks_go_on /\ pc' = "returned"
        /\ UNCHANGED <<message, multipart, writer, call, buffer, transfer, faults>>
    BY DEF BlocksReturn
  <1>2. /\ UNCHANGED <<message, position, part_index, current_boundary,
                       current_boundary_offset, buffer>>
        /\ boundary' = boundary /\ this_copy' = this_copy /\ blocks_length' = blocks_length
        /\ buffer_length' = buffer_length /\ result' = result
        /\ request_result' = request_result /\ sent' = sent /\ faults' = faults
    BY <1>1 DEF multipart, writer, call, transfer
  <1>3. /\ part_index < num_parts /\ blocks_length > 0 /\ room + this_copy = blocks_length
        /\ current_boundary = NULL
    BY <1>1 DEF WInv, Calls, Boundaries
  <1>4. Places' /\ Boundaries' /\ Left' = Left
    BY <1>2, <1>3, SameParts, SameBoundary, SameLeft
  <1>5. has_boundary' = has_boundary /\ num_parts' = num_parts
    BY <1>2, SameMessage
  <1>6. Types' /\ Errors'
    BY <1>1, <1>2, <1>5 DEF WInv, Types, Errors
  <1>7. ASSUME this_copy = 0 PROVE room' > 0 /\ Exhausted'
    <2>1. room > 0 /\ room' = room
      <3>1. buffer_length \in Nat /\ Len(buffer) \in Nat
        BY LenProperties DEF WInv, Types
      <3> QED
        BY <1>2, <1>3, <1>7, <3>1 DEF room, copied
    <2>2. Exhausted
      BY <1>1, <1>3, <1>7 DEF Exhausted, blocks_go_on
    <2>3. Exhausted' = Exhausted
      BY <1>2 DEF Exhausted, at, part
    <2> QED
      BY <2>1, <2>2, <2>3
  <1>8. Calls'
    BY <1>1, <1>2, <1>3, <1>5, <1>7 DEF WInv, Calls
  <1> QED
    BY <1>2, <1>4, <1>6, <1>8 DEF WInv

\* The part has more, or it is over and no boundary follows it.
LEMMA LoopKept ==
  ASSUME WInv, PartGoesOn \/ PlainPartEnds
  PROVE  WInv' /\ sent' = sent /\ Left' = Left
  <1>1. /\ pc = "returned" /\ pc' = "loop"
        /\ UNCHANGED <<message, multipart, writer, call, buffer, transfer, faults>>
    BY DEF PartGoesOn, PlainPartEnds
  <1>2. /\ UNCHANGED <<message, position, part_index, current_boundary,
                       current_boundary_offset, buffer>>
        /\ boundary' = boundary /\ this_copy' = this_copy /\ blocks_length' = blocks_length
        /\ buffer_length' = buffer_length /\ result' = result
        /\ request_result' = request_result /\ sent' = sent /\ faults' = faults
    BY <1>1 DEF multipart, writer, call, transfer
  <1>3. current_boundary = NULL
    BY <1>1 DEF WInv, Boundaries
  <1>4. Places' /\ Boundaries' /\ Left' = Left
    BY <1>2, <1>3, SameParts, SameBoundary, SameLeft
  <1>5. has_boundary' = has_boundary /\ num_parts' = num_parts
    BY <1>2, SameMessage
  <1>6. Types' /\ Errors' /\ Calls'
    BY <1>1, <1>2, <1>5 DEF WInv, Types, Errors, Calls
  <1> QED
    BY <1>2, <1>4, <1>6 DEF WInv

\* Nothing is left of a part that gave nothing, and its boundary is next.
LEMMA ExhaustedIs ==
  ASSUME WInv, part_index < num_parts, Exhausted
  PROVE  RestOf(part_index, at) = <<>>
  <1>1. PICK i \in Parts : i = part_index
    BY RestTypes
  <1>2. PICK p \in Positions : p = at /\ Within(i, p)
    BY <1>1, RestTypes
  <1>3. message \in Messages
    BY DEF WInv, Types
  <1>4. CASE p.block > Len(part(i).blocks)
    BY <1>1, <1>2, <1>4 DEF RestOf
  <1>5. CASE ~(p.block > Len(part(i).blocks))
    <2>1. p.block <= Len(part(i).blocks)
      BY <1>3, <1>5, MessageIs DEF Positions
    <2>2. part(i).kind # "blocks" /\ p.offset = Len(part(i).blocks[p.block])
      BY <1>1, <1>2, <2>1 DEF Exhausted
    <2>3. p.block = 1 /\ Len(part(i).blocks) = 1
      BY <1>2, <1>3, <2>2, MessageIs DEF Within
    <2>4. 1 \in 1..Len(part(i).blocks) /\ 2 \in 1..(Len(part(i).blocks) + 1)
          /\ 2 = Len(part(i).blocks) + 1
      BY <2>3
    <2>5. PICK s \in Seq(Symbol) : s = Symbols(i, 1, part(i).blocks[1])
                                   /\ Len(s) = Len(part(i).blocks[1])
      BY <1>3, <2>4, SymbolsOfBlock
    <2>6. BytesFrom(i, 2) = <<>>
      BY <1>3, <2>4, BytesFromIs
    <2>7. RestOf(i, p) = Join(Rest(s, Len(s)), BytesFrom(i, 2))
      <3>1. p.block + 1 = 2 /\ p.offset = Len(s)
        BY <2>2, <2>3, <2>5
      <3> QED
        BY <1>5, <2>3, <2>5, <3>1 DEF RestOf, Join, Rest
    <2>8. Rest(s, Len(s)) = <<>>
      BY RestOfNothing
    <2>9. Join(<<>>, <<>>) = <<>>
      <3>1. PICK e \in Seq(Symbol) : e = <<>>
        BY EmptySeq
      <3>2. Join(e, <<>>) = e
        BY JoinEmpty
      <3> QED
        BY <3>1, <3>2
    <2> QED
      BY <1>1, <1>2, <2>6, <2>7, <2>8, <2>9
  <1> QED
    BY <1>4, <1>5

LEMMA PartEndsKept ==
  ASSUME WInv, PartEnds
  PROVE  WInv' /\ sent' = sent /\ Left' = Left /\ Len(buffer') <= buffer_length'
  <1>1. /\ pc = "returned" /\ this_copy = 0 /\ boundary /\ pc' = "loop"
        /\ part_index' = part_index + 1
        /\ WriteBoundary(part_index + 1, buffer, room)
        /\ UNCHANGED <<message, boundary, writer, call, transfer, faults>>
    BY DEF PartEnds
  <1>2. /\ message' = message /\ boundary' = boundary /\ position' = position
        /\ this_copy' = this_copy /\ blocks_length' = blocks_length
        /\ buffer_length' = buffer_length /\ result' = result
        /\ request_result' = request_result /\ sent' = sent /\ faults' = faults
    BY <1>1 DEF writer, call, transfer
  <1>3. /\ part_index < num_parts /\ room > 0 /\ Exhausted /\ boundary = has_boundary
        /\ current_boundary = NULL /\ current_boundary_offset = 0 /\ buffer_length > 0
    BY <1>1 DEF WInv, Calls, Boundaries
  <1>4. message \in Messages /\ has_boundary /\ buffer \in Seq(Symbol)
    BY <1>1, <1>3 DEF WInv, Types
  <1>5. PICK l \in Nat, c \in Nat, r \in Nat :
          l = buffer_length /\ c = Len(buffer) /\ r = room /\ c + r = l
    <2>1. PICK l \in Nat, c \in Nat : l = buffer_length /\ c = Len(buffer)
      BY <1>4, LenProperties DEF WInv, Types
    <2>2. room = l - c
      BY <2>1 DEF room, copied
    <2>3. l - c \in Nat /\ c + (l - c) = l
      BY <1>3, <2>2
    <2> QED
      BY <2>1, <2>2, <2>3
  <1>6. PICK i \in 0..num_parts : i = part_index + 1
    BY <1>3, RestTypes
  <1>7. PICK n \in Nat : n = num_parts
    BY <1>4, MessageIs
  <1>8. current_boundary_offset \in 0..(Len(boundary_text(i)) - 1)
    BY <1>3, <1>4, BoundaryText
  <1>9. WriteBoundary(i, buffer, r)
    BY <1>1, <1>5, <1>6
  <1>10. /\ buffer' \in Seq(Symbol)
         /\ Len(buffer') <= Len(buffer) + r
         /\ \/ current_boundary' = NULL /\ current_boundary_offset' = 0
            \/ /\ current_boundary' = i
               /\ current_boundary_offset' \in 0..(Len(boundary_text(i)) - 1)
               /\ Len(buffer') = Len(buffer) + r
         /\ RestOfBoundary' \in Seq(Symbol)
         /\ Join(buffer', RestOfBoundary')
              = Join(buffer, Rest(BoundaryOf(i), current_boundary_offset))
    BY <1>2, <1>4, <1>8, <1>9, Written
  <1>11. Places'
    <2>1. Parts' = Parts /\ \A j, p : Within(j, p)' = Within(j, p)
      BY <1>2, SameMessage DEF Parts
    <2>2. \A j : Within(j, position[j])' = Within(j, position[j])
      BY <1>2 DEF Within, part
    <2>3. ASSUME NEW j \in Parts, j > part_index' PROVE position'[j] = fresh
      <3>1. part_index \in Int /\ j \in Int
        BY <1>4, MessageIs DEF WInv, Types, Parts
      <3>2. j > part_index
        BY <1>1, <2>3, <3>1
      <3> QED
        BY <1>2, <3>2 DEF WInv, Places
    <2> QED
      BY <1>2, <2>1, <2>2, <2>3 DEF WInv, Places, fresh
  <1>12. PICK R \in Seq(Symbol) : R = RestOfParts' /\ Ending(i) = Join(BoundaryOf(i), R)
    <2>1. num_parts' = num_parts /\ part_index' = i
      BY <1>1, <1>2, <1>6, SameMessage
    <2>2. CASE i = n
      <3>1. RestOfParts' = <<>>
        BY <1>7, <2>1, <2>2 DEF RestOfParts
      <3>2. Ending(i) = BoundaryOf(i) /\ BoundaryOf(i) \in Seq(Symbol) /\ <<>> \in Seq(Symbol)
        BY <1>4, <1>7, <2>2, EndingIs, BoundaryOfIs, EmptySeq
      <3>3. Join(BoundaryOf(i), <<>>) = BoundaryOf(i)
        BY <3>2, JoinEmpty
      <3> QED
        BY <3>1, <3>2, <3>3
    <2>3. CASE i # n
      <3>1. i \in Parts /\ i < num_parts /\ i + 1 \in 0..num_parts
        BY <1>7, <2>3 DEF Parts
      <3>2. position'[i] = fresh
        <4>1. i > part_index
          BY <1>4, <1>6, MessageIs DEF WInv, Types
        <4> QED
          BY <1>2, <3>1, <4>1 DEF WInv, Places
      <3>3. at' = fresh
        BY <2>1, <3>2 DEF at
      <3>4. RestOf(i, fresh) = BytesOf(i)
        <4>1. fresh.block = 1 /\ fresh.offset = 0 /\ 1 \in 1..(Len(part(i).blocks) + 1)
          BY <1>4, <3>1, MessageIs DEF fresh
        <4> QED
          BY <1>4, <3>1, <4>1, RestOfFresh DEF BytesOf
      <3>5. RestOf(i, fresh)' = RestOf(i, fresh) /\ Ending(i + 1)' = Ending(i + 1)
        BY <1>2, SameMessage
      <3>6. RestOf(part_index, at)' = RestOf(i, fresh)' /\ Ending(part_index + 1)' = Ending(i + 1)'
        BY <2>1, <3>3 DEF RestOf, Ending, fresh
      <3>7. RestOfParts' = Join(BytesOf(i), Ending(i + 1))
        BY <1>7, <2>1, <2>3, <3>4, <3>5, <3>6 DEF RestOfParts, Join
      <3>8. Join(BytesOf(i), Ending(i + 1)) \in Seq(Symbol)
        BY <1>4, <3>1, BytesOfIs, EndingIs, JoinType
      <3>9. Ending(i) = Join(BoundaryOf(i), Join(BytesOf(i), Ending(i + 1)))
        BY <1>4, <3>1, EndingIs
      <3> QED
        BY <3>7, <3>8, <3>9
    <2> QED
      BY <2>2, <2>3
  <1>13. Left' = Left
    <2>1. PICK x \in Seq(Symbol), y \in Seq(Symbol), w \in Seq(Symbol), d \in Seq(Symbol) :
            x = buffer' /\ y = RestOfBoundary' /\ w = buffer /\ d = BoundaryOf(i)
      BY <1>4, <1>10, BoundaryOfIs
    <2>2. Rest(d, 0) = d
      BY RestOfNothing
    <2>3. Join(x, y) = Join(w, d)
      BY <1>3, <1>10, <2>1, <2>2
    <2>4. Join(Join(x, y), R) = Join(x, Join(y, R)) /\ Join(Join(w, d), R) = Join(w, Join(d, R))
      BY JoinThree
    <2>5. Left' = Join(x, Join(y, R))
      BY <1>12, <2>1 DEF Left
    <2>6. RestOfBoundary = <<>> /\ RestOfParts = Join(<<>>, Ending(i))
      BY <1>3, <1>6, ExhaustedIs, RestTypes DEF RestOfBoundary
    <2>7. Ending(i) = Join(d, R) /\ Join(d, R) \in Seq(Symbol)
      BY <1>12, <2>1, JoinType
    <2>8. Join(<<>>, Ending(i)) = Ending(i)
      BY <2>7, JoinEmpty
    <2>9. Left = Join(w, Join(d, R))
      BY <2>1, <2>6, <2>7, <2>8 DEF Left
    <2> QED
      BY <2>3, <2>4, <2>5, <2>9
  <1>14. Boundaries'
    <2>1. boundary_text(part_index)' = boundary_text(i) /\ has_boundary'
      BY <1>1, <1>2, <1>4, <1>6 DEF boundary_text, part, num_parts, has_boundary
    <2>2. CASE current_boundary' = NULL /\ current_boundary_offset' = 0
      BY <2>2 DEF Boundaries
    <2>3. CASE /\ current_boundary' = i
               /\ current_boundary_offset' \in 0..(Len(boundary_text(i)) - 1)
               /\ Len(buffer') = Len(buffer) + r
      <3>1. room' <= 0
        <4>1. room' = l - l
          BY <1>2, <1>5, <2>3 DEF room, copied
        <4> QED
          BY <4>1
      <3>2. part_index' = i /\ pc' = "loop" /\ i # NULL
        BY <1>1, <1>6, <1>7 DEF NULL
      <3> QED
        BY <2>1, <2>3, <3>1, <3>2 DEF Boundaries
    <2> QED
      BY <1>10, <2>2, <2>3
  <1>15. has_boundary' = has_boundary /\ num_parts' = num_parts
    BY <1>2, SameMessage
  <1>16. Types' /\ Calls' /\ Errors'
    <2>1. part_index' \in 0..num_parts'
      BY <1>1, <1>6, <1>15
    <2> QED
      BY <1>1, <1>2, <1>3, <1>10, <1>15, <2>1 DEF WInv, Types, Calls, Errors
  <1>17. Len(buffer') <= buffer_length'
    BY <1>2, <1>5, <1>10
  <1> QED
    BY <1>2, <1>11, <1>13, <1>14, <1>16, <1>17 DEF WInv

LEMMA ReturnKept ==
  ASSUME WInv, Return
  PROVE  /\ WInv' /\ sent' = Join(sent, buffer) /\ Left = Join(buffer, Left')
         /\ Left' \in Seq(Symbol) /\ buffer' = <<>> /\ request_result' # "not_prepared"
  <1>1. /\ pc = "return" \/ (pc = "loop" /\ ~goes_on)
        /\ pc' = IF copied = 0 THEN "ended" ELSE "idle"
        /\ sent' = Join(sent, buffer) /\ buffer' = <<>>
        /\ request_result' = recorded
        /\ buffer_length' = 0 /\ result' = OK /\ this_copy' = 0 /\ blocks_length' = 0
        /\ UNCHANGED <<message, multipart, position, faults>>
    BY DEF Return, NoLocals, Join
  <1>2. /\ UNCHANGED <<message, position, part_index, current_boundary, current_boundary_offset>>
        /\ boundary' = boundary /\ faults' = faults
    BY <1>1 DEF multipart
  <1>3. pc' \in {"ended", "idle"}
    BY <1>1
  <1>4. Places' /\ Boundaries' /\ RestOfParts' = RestOfParts /\ RestOfBoundary' = RestOfBoundary
    BY <1>2, <1>3, SameParts, SameBoundary
  <1>5. has_boundary' = has_boundary /\ num_parts' = num_parts
    BY <1>2, SameMessage
  <1>6. PICK x \in Seq(Symbol), y \in Seq(Symbol), z \in Seq(Symbol), w \in Seq(Symbol) :
          x = buffer /\ y = RestOfBoundary /\ z = RestOfParts /\ w = sent
    BY RestTypes DEF WInv, Types
  <1>7. Join(y, z) \in Seq(Symbol) /\ Join(<<>>, Join(y, z)) = Join(y, z)
    BY JoinType, JoinEmpty
  <1>8. Left' = Join(y, z) /\ Left = Join(x, Join(y, z))
    BY <1>1, <1>4, <1>6, <1>7 DEF Left
  <1>9. sent' \in Seq(Symbol) /\ buffer' \in Seq(Symbol)
    BY <1>1, <1>6, JoinType, EmptySeq
  <1>10. recorded \in Results /\ (recorded = OK => result = OK) /\ (recorded # OK => faults > 0)
    <2>1. request_result # "not_prepared"
      BY <1>1 DEF WInv, Errors
    <2> QED
      BY <2>1 DEF WInv, Types, Errors, recorded, FirstError
  <1>11. Types'
    BY <1>1, <1>2, <1>3, <1>5, <1>9, <1>10 DEF WInv, Types, Results
  <1>12. Calls'
    BY <1>1, <1>2, <1>3, <1>5 DEF WInv, Calls
  <1>13. ASSUME pc' = "ended", request_result' = OK
         PROVE  part_index = num_parts /\ current_boundary = NULL
    <2>1. copied = 0 /\ pc = "loop" /\ ~goes_on
      BY <1>1, <1>10, <1>13 DEF WInv, Errors
    <2>2. buffer_length \in Nat /\ buffer_length > 0 /\ part_index \in 0..num_parts /\ num_parts \in Nat
      BY <2>1, MessageIs DEF WInv, Types, Calls
    <2>3. part_index = num_parts
      BY <2>1, <2>2 DEF goes_on
    <2>4. room > 0 /\ room \in Int
      BY <2>1, <2>2 DEF room
    <2> QED
      BY <2>1, <2>3, <2>4 DEF WInv, Boundaries
  <1>14. request_result' # "not_prepared"
    BY <1>1, <1>10 DEF Results, OK
  <1>15. Errors'
    BY <1>1, <1>2, <1>3, <1>5, <1>10, <1>13, <1>14 DEF Errors
  <1>16. WInv'
    BY <1>4, <1>11, <1>12, <1>15 DEF WInv
  <1>17. Left = Join(buffer, Left') /\ Left' \in Seq(Symbol)
    BY <1>6, <1>7, <1>8
  <1> QED
    BY <1>1, <1>14, <1>16, <1>17

----------------------------------------------------------------------------
\* What libcurl has, and what is in the buffer or left to write, is the message.
Whole == pc # "prepare" /\ request_result # "not_prepared" => Join(sent, Left) = Message

LEMMA MessageText == ASSUME message \in Messages PROVE Message \in Seq(Symbol)
  <1>1. 0 \in 0..num_parts
    BY MessageIs
  <1> QED
    BY <1>1, EndingIs DEF Message

LEMMA InitKept == Init => WInv /\ Whole
  <1> SUFFICES ASSUME Init PROVE WInv /\ Whole
    OBVIOUS
  <1>1. /\ message \in Messages /\ pc = "prepare" /\ boundary = FALSE /\ part_index = 0
        /\ current_boundary = NULL /\ current_boundary_offset = 0 /\ buffer_length = 0
        /\ buffer = <<>> /\ result = OK /\ this_copy = 0 /\ blocks_length = 0
        /\ request_result = OK /\ sent = <<>> /\ faults = 0
    BY DEF Init
  <1>2. position = [i \in Parts |-> fresh]
    BY DEF Init, Parts
  <1>3. PICK n \in Nat \ {0} : n = num_parts
    BY <1>1, MessageIs
  <1>4. <<>> \in Seq(Symbol)
    BY EmptySeq
  <1>5. Types
    <2>1. 0 \in 0..num_parts
      BY <1>3
    <2>2. 0 \in 0..MaxFaults
      BY Limits
    <2>3. FALSE \in BOOLEAN
      OBVIOUS
    <2>4. OK \in Results
      BY DEF Results
    <2> QED
      BY <1>1, <1>4, <2>1, <2>2, <2>3, <2>4 DEF Types
  <1>6. Places
    <2>1. fresh \in Positions
      BY DEF fresh, Positions
    <2>2. ASSUME NEW i \in Parts PROVE Within(i, fresh)
      <3>1. fresh.block = 1 /\ fresh.offset = 0
        BY DEF fresh
      <3>2. PICK m \in Nat : m = Len(part(i).blocks)
        BY <1>1, MessageIs
      <3>3. 1 <= m => 0 <= Len(part(i).blocks[1])
        <4> SUFFICES ASSUME 1 <= m PROVE 0 <= Len(part(i).blocks[1])
          OBVIOUS
        <4>1. 1 \in 1..Len(part(i).blocks)
          BY <3>2
        <4> QED
          BY <1>1, <4>1, SymbolsOfBlock
      <3> QED
        BY <3>1, <3>2, <3>3 DEF Within
    <2> QED
      BY <1>2, <2>1, <2>2 DEF Places
  <1>7. Boundaries /\ Errors
    BY <1>1 DEF Boundaries, Errors, OK
  <1>8. Calls
    <2>1. position[0] = fresh
      BY <1>2, <1>3 DEF Parts
    <2> QED
      BY <1>1, <2>1 DEF Calls
  <1> QED
    BY <1>1, <1>5, <1>6, <1>7, <1>8 DEF WInv, Whole

LEMMA StepKept == WInv /\ Whole /\ [Next]_vars => WInv' /\ Whole'
  <1> SUFFICES ASSUME WInv, Whole, [Next]_vars PROVE WInv' /\ Whole'
    OBVIOUS
  <1> DEFINE Kept == WInv' /\ sent' = sent /\ Left' = Left
  <1>1. ASSUME Kept, message' = message, pc # "prepare", request_result' = request_result
        PROVE  WInv' /\ Whole'
    <2>1. Message' = Message
      BY <1>1, SameMessage
    <2> QED
      BY <1>1, <2>1 DEF Whole
  <1>2. CASE Prepare
    <2>1. WInv' /\ sent' = <<>> /\ Left' = Message /\ message' = message /\ message \in Messages
      BY <1>2, PrepareKept DEF Prepare, WInv, Types
    <2>2. Message' = Message /\ Message \in Seq(Symbol)
      BY <2>1, SameMessage, MessageText
    <2>3. Join(<<>>, Message) = Message
      BY <2>2, JoinEmpty
    <2> QED
      BY <2>1, <2>2, <2>3 DEF Whole
  <1>3. CASE PrepareFails
    BY <1>3, PrepareFailsKept DEF Whole
  <1>4. CASE Call
    <2>1. Kept
      BY <1>4, CallKept
    <2> QED
      BY <1>1, <1>4, <2>1 DEF Call, transfer
  <1>5. CASE CallBlock
    <2>1. Kept
      BY <1>5, CallBlockKept
    <2> QED
      BY <1>1, <1>5, <2>1 DEF CallBlock, PartCalled, transfer
  <1>6. CASE CallUser
    <2>1. Kept
      BY <1>6, CallUserKept
    <2> QED
      BY <1>1, <1>6, <2>1 DEF CallUser, PartCalled, transfer
  <1>7. CASE CallUserFails \/ BoundaryFails
    <2>1. Kept
      BY <1>7, FailsKept
    <2> QED
      BY <1>1, <1>7, <2>1 DEF CallUserFails, BoundaryFails, transfer
  <1>8. CASE CallBlocks
    <2>1. Kept
      BY <1>8, CallBlocksKept
    <2> QED
      BY <1>1, <1>8, <2>1 DEF CallBlocks, PartCalled, transfer
  <1>9. CASE BlocksCopy
    <2>1. Kept
      BY <1>9, BlocksCopyKept
    <2> QED
      BY <1>1, <1>9, <2>1 DEF BlocksCopy, transfer
  <1>10. CASE BlocksReturn
    <2>1. Kept
      BY <1>10, BlocksReturnKept
    <2> QED
      BY <1>1, <1>10, <2>1 DEF BlocksReturn, transfer
  <1>11. CASE PartGoesOn \/ PlainPartEnds
    <2>1. Kept
      BY <1>11, LoopKept
    <2> QED
      BY <1>1, <1>11, <2>1 DEF PartGoesOn, PlainPartEnds, transfer
  <1>12. CASE PartEnds
    <2>1. Kept
      BY <1>12, PartEndsKept
    <2> QED
      BY <1>1, <1>12, <2>1 DEF PartEnds, transfer
  <1>13. CASE Return
    <2>1. /\ WInv' /\ sent' = Join(sent, buffer) /\ Left = Join(buffer, Left')
          /\ request_result' # "not_prepared" /\ message' = message
      BY <1>13, ReturnKept DEF Return
    <2>2. PICK x \in Seq(Symbol), y \in Seq(Symbol), z \in Seq(Symbol) :
            x = sent /\ y = buffer /\ z = Left'
      BY <1>13, ReturnKept DEF WInv, Types
    <2>3. Join(Join(x, y), z) = Join(x, Join(y, z))
      BY JoinThree
    <2>4. pc # "prepare" /\ request_result # "not_prepared"
      BY <1>13 DEF Return, WInv, Errors
    <2>5. Message' = Message /\ Join(sent, Left) = Message
      BY <2>1, <2>4, SameMessage DEF Whole
    <2> QED
      BY <2>1, <2>2, <2>3, <2>5 DEF Whole
  <1>14. CASE Finished \/ UNCHANGED vars
    <2>1. /\ UNCHANGED <<message, position, part_index, current_boundary,
                         current_boundary_offset, buffer>>
          /\ pc' = pc /\ boundary' = boundary /\ this_copy' = this_copy
          /\ blocks_length' = blocks_length /\ buffer_length' = buffer_length
          /\ result' = result /\ request_result' = request_result /\ sent' = sent
          /\ faults' = faults
      BY <1>14 DEF Finished, vars, multipart, writer, call, transfer
    <2>2. Places' /\ Left' = Left /\ Message' = Message
      BY <2>1, SameParts, SameLeft, SameMessage
    <2>3. Boundaries' /\ Types' /\ Calls' /\ Errors'
      BY <2>1 DEF WInv, Boundaries, Types, Calls, Errors, room, copied, Exhausted, at, part,
                  num_parts, has_boundary, boundary_text
    <2> QED
      BY <2>1, <2>2, <2>3 DEF WInv, Whole
  <1> HIDE DEF Kept
  <1> QED
    BY <1>2, <1>3, <1>4, <1>5, <1>6, <1>7, <1>8, <1>9, <1>10, <1>11, <1>12, <1>13, <1>14
    DEF Next, Steps

THEOREM WriterInvariant == Spec => [](WInv /\ Whole)
  BY InitKept, StepKept, PTL DEF Spec

\* However the body is cut into buffers and whatever fails, what libcurl has, what is in
\* the buffer and what the writers of the parts have left make up the message.
THEOREM NothingLostHolds == Spec => []NothingLost
  <1>1. WInv /\ Whole => NothingLost
    <2> SUFFICES ASSUME WInv, Whole, pc # "prepare", request_result # "not_prepared"
                 PROVE  Join(Join(Join(sent, buffer), RestOfBoundary), RestOfParts) = Message
      BY DEF NothingLost, Join
    <2>1. PICK x \in Seq(Symbol), y \in Seq(Symbol), z \in Seq(Symbol), w \in Seq(Symbol) :
            x = sent /\ y = buffer /\ z = RestOfBoundary /\ w = RestOfParts
      BY RestTypes DEF WInv, Types
    <2>2. Join(Join(Join(x, y), z), w) = Join(x, Join(y, Join(z, w)))
      BY JoinFour
    <2> QED
      BY <2>1, <2>2 DEF Whole, Left
  <1> QED
    BY <1>1, WriterInvariant, PTL

----------------------------------------------------------------------------
\* Behind the first byte of a part, its blocks have a byte each at most: then what a
\* block may take is never more than there is room for.
ShortBlocks ==
  \A m \in Messages : \A i \in 1..Len(m.parts) :
    m.parts[i].kind = "blocks" =>
      \A b \in 1..Len(m.parts[i].blocks), a \in 1..Len(m.parts[i].blocks) :
        a < b /\ Len(m.parts[i].blocks[a]) > 0 => Len(m.parts[i].blocks[b]) <= 1

\* write_blocks is done with this buffer, or what it gave is behind it
Filled ==
  pc = "blocks" /\ this_copy > 0 =>
    \/ this_copy >= blocks_length
    \/ \E a \in 1..Len(part(part_index).blocks) :
         a < at.block /\ Len(part(part_index).blocks[a]) > 0

LEMMA BlocksCopyFits ==
  ASSUME ShortBlocks, WInv, Filled, WithinBuffer, BlocksCopy
  PROVE  Filled' /\ WithinBuffer'
  <1>1. /\ pc = "blocks" /\ at.block <= Len(part(part_index).blocks) /\ this_copy < blocks_length
        /\ message' = message /\ part_index' = part_index
        /\ blocks_length' = blocks_length /\ buffer_length' = buffer_length
        /\ this_copy' = this_copy + amount(blocks_length)
        /\ position' = [position EXCEPT ![part_index] = advanced(amount(blocks_length))]
    BY DEF BlocksCopy, blocks_go_on, multipart, call
  <1>2. Len(buffer') = Len(buffer) + amount(blocks_length)
    BY BlocksCopyKept
  <1>3. /\ part_index < num_parts /\ part(part_index).kind = "blocks"
        /\ room + this_copy = blocks_length /\ message \in Messages
    BY <1>1 DEF WInv, Calls, Types
  <1>4. PICK c \in Nat, l \in Nat, k \in Nat, m \in Nat :
          c = Len(buffer) /\ l = buffer_length /\ k = this_copy /\ m = blocks_length
    BY LenProperties DEF WInv, Types
  <1>5. (l - c) + k = m /\ k < m /\ c <= l
    BY <1>1, <1>3, <1>4 DEF room, copied, WithinBuffer
  <1>6. /\ left \in Nat
        /\ at.offset \in Nat
        /\ at.block \in Nat \ {0}
        /\ Len(block) = at.offset + left
        /\ amount(m) \in Nat
        /\ amount(m) <= left
        /\ amount(m) <= m
        /\ amount(m) = left \/ amount(m) = m
    BY <1>1, <1>3, <1>4, LeftIs
  <1>7. PICK n \in Nat : n = amount(m)
    BY <1>6
  <1>8. PICK i \in Parts : i = part_index
    BY <1>3, RestTypes
  <1>9. PICK b \in Nat \ {0} : b = at.block /\ b \in 1..Len(part(i).blocks)
    BY <1>1, <1>6, <1>8, MessageIs, <1>3
  <1>10. Len(block) = Len(part(i).blocks[b]) /\ Len(block) \in Nat
    BY <1>3, <1>8, <1>9, SymbolsOfBlock DEF block
  <1>11. WithinBuffer'
    <2>1. CASE k = 0
      <3>1. n <= m /\ m = l - c
        BY <1>4, <1>5, <1>6, <1>7, <2>1
      <3>2. c + n <= l
        BY <1>4, <3>1
      <3> QED
        BY <1>1, <1>2, <1>4, <1>7, <3>2 DEF WithinBuffer, copied
    <2>2. CASE k # 0
      <3>1. PICK a \in 1..Len(part(i).blocks) : a < b /\ Len(part(i).blocks[a]) > 0
        <4>1. k > 0 /\ ~(k >= m)
          BY <1>4, <1>5, <2>2
        <4> QED
          BY <1>1, <1>4, <1>8, <1>9, <4>1 DEF Filled
      <3>2. i + 1 \in 1..Len(message.parts)
        BY <1>3, MessageIs DEF Parts, num_parts
      <3>3. Len(part(i).blocks[b]) <= 1
        BY <1>3, <1>8, <1>9, <3>1, <3>2 DEF ShortBlocks, part
      <3>4. n <= 1
        <4>1. PICK o \in Nat, r \in Nat : o = at.offset /\ r = left
          BY <1>6
        <4>2. o + r <= 1 /\ n <= r
          BY <1>6, <1>7, <1>10, <3>3, <4>1
        <4> QED
          BY <4>1, <4>2
      <3>5. c + n <= l
        BY <1>4, <1>5, <3>4
      <3> QED
        BY <1>1, <1>2, <1>4, <1>7, <3>5 DEF WithinBuffer, copied
    <2> QED
      BY <2>1, <2>2
  <1>12. Filled'
    <2>1. CASE n # left
      <3>1. this_copy' = k + m /\ k + m >= m
        BY <1>1, <1>4, <1>6, <1>7, <2>1
      <3> QED
        BY <1>1, <1>4, <3>1 DEF Filled
    <2>2. CASE n = left
      <3>1. at' = [block |-> b + 1, offset |-> 0]
        <4>1. position \in [Parts -> Positions]
          BY DEF WInv, Places
        <4>2. position' = [position EXCEPT ![i] = advanced(n)]
          BY <1>1, <1>4, <1>7, <1>8
        <4>3. at' = advanced(n)
          BY <1>1, <1>8, <4>1, <4>2 DEF at
        <4> QED
          BY <1>9, <2>2, <4>3 DEF advanced
      <3>2. at'.block = b + 1
        BY <3>1
      <3>3. part(part_index)' = part(i)
        BY <1>1, <1>8 DEF part
      <3>4. this_copy' = k + n
        BY <1>1, <1>4, <1>7
      <3>5. CASE n = 0
        <4>1. this_copy' = k
          BY <1>4, <3>4, <3>5
        <4>2. k > 0 => \E a \in 1..Len(part(i).blocks) : a < b /\ Len(part(i).blocks[a]) > 0
          <5>1. ~(k >= m)
            BY <1>4, <1>5
          <5> QED
            BY <1>1, <1>4, <1>8, <1>9, <5>1 DEF Filled
        <4>3. k > 0 => \E a \in 1..Len(part(i).blocks) : a < b + 1 /\ Len(part(i).blocks[a]) > 0
          <5>1. \A a \in 1..Len(part(i).blocks) : a < b => a < b + 1
            OBVIOUS
          <5> QED
            BY <4>2, <5>1
        <4> QED
          BY <3>2, <3>3, <4>1, <4>3 DEF Filled
      <3>6. CASE n # 0
        <4>1. Len(part(i).blocks[b]) > 0
          <5>1. PICK o \in Nat : o = at.offset
            BY <1>6
          <5>2. o + n > 0
            BY <3>6
          <5> QED
            BY <1>6, <1>10, <2>2, <5>1, <5>2
        <4>2. b < b + 1
          OBVIOUS
        <4> QED
          BY <1>9, <3>2, <3>3, <4>1, <4>2 DEF Filled
      <3> QED
        BY <3>5, <3>6
    <2> QED
      BY <2>1, <2>2
  <1> QED
    BY <1>11, <1>12

LEMMA WithinKept ==
  ASSUME ShortBlocks
  PROVE  WInv /\ Filled /\ WithinBuffer /\ [Next]_vars => Filled' /\ WithinBuffer'
  <1> SUFFICES ASSUME WInv, Filled, WithinBuffer, [Next]_vars PROVE Filled' /\ WithinBuffer'
    OBVIOUS
  <1>1. CASE Call
    BY <1>1, CallKept DEF Call, Filled, WithinBuffer, copied
  <1>2. CASE CallBlock
    BY <1>2, CallBlockKept DEF CallBlock, Give, Filled, WithinBuffer, copied
  <1>3. CASE CallUser
    BY <1>3, CallUserKept DEF CallUser, Give, Filled, WithinBuffer, copied
  <1>4. CASE PartEnds
    BY <1>4, PartEndsKept DEF PartEnds, Filled, WithinBuffer, copied
  <1>5. CASE BlocksCopy
    BY <1>5, BlocksCopyFits
  <1>6. CASE CallBlocks
    <2>1. this_copy' = 0 /\ buffer' = buffer /\ buffer_length' = buffer_length
      BY <1>6 DEF CallBlocks, PartCalled, call
    <2>2. ~(this_copy' > 0)
      BY <2>1
    <2> QED
      BY <2>1, <2>2 DEF Filled, WithinBuffer, copied
  <1>7. CASE Return
    <2>1. pc' # "blocks" /\ buffer' = <<>> /\ buffer_length' = 0
      BY <1>7 DEF Return, NoLocals
    <2>2. Len(buffer') = 0
      BY <2>1
    <2>3. copied' <= buffer_length'
      BY <2>1, <2>2 DEF copied
    <2> QED
      BY <2>1, <2>3 DEF Filled, WithinBuffer
  <1>8. CASE \/ Prepare \/ PrepareFails \/ CallUserFails \/ BoundaryFails \/ BlocksReturn
             \/ PartGoesOn \/ PlainPartEnds
    <2>1. pc' # "blocks" /\ buffer' = buffer /\ buffer_length' = buffer_length
      BY <1>8 DEF Prepare, PrepareFails, CallUserFails, BoundaryFails, BlocksReturn, PartGoesOn,
                  PlainPartEnds, call
    <2> QED
      BY <2>1 DEF Filled, WithinBuffer, copied
  <1>9. CASE Finished \/ UNCHANGED vars
    <2>1. /\ pc' = pc /\ buffer' = buffer /\ buffer_length' = buffer_length
          /\ this_copy' = this_copy /\ blocks_length' = blocks_length /\ message' = message
          /\ part_index' = part_index /\ position' = position
      BY <1>9 DEF Finished, vars, multipart, writer, call
    <2> QED
      BY <2>1 DEF Filled, WithinBuffer, copied, at, part
  <1> QED
    BY <1>1, <1>2, <1>3, <1>4, <1>5, <1>6, <1>7, <1>8, <1>9 DEF Next, Steps

\* The writers stay within the buffer they are given, as write_multipart.c asserts, if
\* the blocks of a part are short enough for the slip of write_blocks not to matter.
THEOREM WithinBufferHolds == ShortBlocks => (Spec => []WithinBuffer)
  <1> SUFFICES ASSUME ShortBlocks PROVE Spec => []WithinBuffer
    OBVIOUS
  <1>1. Init => Filled /\ WithinBuffer
    <2> SUFFICES ASSUME Init PROVE Filled /\ WithinBuffer
      OBVIOUS
    <2>1. pc # "blocks" /\ Len(buffer) = 0 /\ buffer_length = 0
      BY DEF Init
    <2> QED
      BY <2>1 DEF Filled, WithinBuffer, copied
  <1>2. WInv /\ Filled /\ WithinBuffer /\ [Next]_vars => Filled' /\ WithinBuffer'
    BY WithinKept
  <1> QED
    BY <1>1, <1>2, WriterInvariant, PTL DEF Spec

----------------------------------------------------------------------------
\* A body that ends without an error is the message.
Complete == pc = "ended" /\ request_result = OK => sent = Message

LEMMA AtTheEnd == WInv /\ Whole => Complete
  <1> SUFFICES ASSUME WInv, Whole, pc = "ended", request_result = OK PROVE sent = Message
    BY DEF Complete
  <1>1. part_index = num_parts /\ current_boundary = NULL /\ buffer = <<>>
    BY DEF WInv, Errors, Calls
  <1>2. RestOfBoundary = <<>> /\ RestOfParts = <<>>
    BY <1>1 DEF RestOfBoundary, RestOfParts
  <1>3. PICK e \in Seq(Symbol) : e = <<>>
    BY EmptySeq
  <1>4. Join(e, e) = e
    BY <1>3, JoinEmpty
  <1>5. Left = e
    BY <1>1, <1>2, <1>3, <1>4 DEF Left
  <1>6. Join(sent, Left) = Message
    BY DEF Whole, OK
  <1> QED
    BY <1>3, <1>5, <1>6, JoinEmpty DEF WInv, Types

LEMMA BodyMoves ==
  ASSUME WInv, Whole, WInv', Whole', Return, copied # 0
  PROVE  Body!Move
  <1>1. PICK x \in Seq(Symbol), y \in Seq(Symbol), z \in Seq(Symbol) :
          x = sent /\ y = buffer /\ z = Left'
    BY ReturnKept DEF WInv, Types
  <1>2. /\ pc # "ended" /\ pc' = "idle" /\ message' = message /\ faults' = faults
        /\ pc # "prepare" /\ request_result # "not_prepared"
    BY DEF Return, WInv, Errors
  <1>3. sent' = Join(x, y) /\ Message = Join(x, Join(y, z))
    BY <1>1, <1>2, ReturnKept DEF Whole
  <1>4. /\ Len(Join(x, y)) = Len(x) + Len(y)
        /\ Len(Join(y, z)) = Len(y) + Len(z) /\ Join(y, z) \in Seq(Symbol)
    BY JoinType
  <1>5. Len(Join(x, Join(y, z))) = Len(x) + Len(Join(y, z))
    BY <1>4, JoinType
  <1>6. PICK a \in Nat, b \in Nat, c \in Nat : a = Len(x) /\ b = Len(y) /\ c = Len(z)
    BY LenProperties
  <1>7. Len(sent') = a + b /\ Len(Message) = a + (b + c) /\ Len(sent) = a
    BY <1>1, <1>3, <1>4, <1>5, <1>6
  <1>8. b \in 1..(Len(Message) - Len(sent))
    <2>1. b # 0
      BY <1>1, <1>6 DEF copied
    <2>2. (a + (b + c)) - a = b + c
      BY <1>6
    <2> QED
      BY <1>6, <1>7, <2>1, <2>2
  <1>9. \E n \in 1..(Len(Message) - Len(sent)) : Len(sent') = Len(sent) + n
    BY <1>7, <1>8
  <1>10. Message' = Message
    BY <1>2, SameMessage
  <1> QED
    BY <1>2, <1>9, <1>10 DEF Body!Move

\* Every step of the writer is a step of Transfer, or none.
LEMMA BodyStep ==
  WInv /\ Whole /\ WInv' /\ Whole' /\ [Next]_vars => [Body!Next]_(Body!vars)
  <1> SUFFICES ASSUME WInv, Whole, WInv', Whole', [Next]_vars PROVE [Body!Next]_(Body!vars)
    OBVIOUS
  <1>1. message' = message => Message' = Message
    BY SameMessage
  <1>2. CASE \/ Prepare \/ Call \/ CallBlock \/ CallUser \/ CallBlocks \/ BlocksCopy
             \/ BlocksReturn \/ PartGoesOn \/ PlainPartEnds \/ PartEnds
    <2>1. /\ message' = message /\ pc # "ended" /\ pc' # "ended"
          /\ sent' = sent /\ faults' = faults
      BY <1>2 DEF Prepare, Call, CallBlock, CallUser, CallBlocks, BlocksCopy, BlocksReturn,
                  PartGoesOn, PlainPartEnds, PartEnds, PartCalled, Give, transfer
    <2> QED
      BY <1>1, <2>1 DEF Body!vars
  <1>3. CASE CallUserFails \/ BoundaryFails
    <2>1. /\ message' = message /\ pc # "ended" /\ pc' # "ended"
          /\ sent' = sent /\ faults' = faults + 1
      BY <1>3 DEF CallUserFails, BoundaryFails, Fault, transfer
    <2>2. faults' > 0
      BY <2>1 DEF WInv, Types
    <2>3. Body!Disturb
      BY <1>1, <2>1, <2>2 DEF Body!Disturb
    <2> QED
      BY <2>3 DEF Body!Next
  <1>4. CASE PrepareFails
    <2>1. /\ message' = message /\ pc = "prepare" /\ pc' = "ended"
          /\ request_result' = "not_prepared" /\ sent' = sent /\ faults' = faults + 1
      BY <1>4 DEF PrepareFails, Fault
    <2>2. faults' > 0
      BY <2>1 DEF WInv, Types
    <2>3. Body!Fail
      BY <1>1, <2>1, <2>2 DEF Body!Fail, OK
    <2> QED
      BY <2>3 DEF Body!Next
  <1>5. CASE Return
    <2>1. /\ message' = message /\ pc # "ended" /\ faults' = faults
          /\ pc' = IF copied = 0 THEN "ended" ELSE "idle"
      BY <1>5 DEF Return
    <2>2. CASE copied # 0
      BY <1>5, <2>2, BodyMoves DEF Body!Next
    <2>3. CASE copied = 0
      <3>1. Len(sent') = Len(sent)
        <4>1. sent' = Join(sent, buffer) /\ Len(buffer) = 0
          BY <1>5, <2>3, ReturnKept DEF copied
        <4>2. PICK x \in Seq(Symbol), y \in Seq(Symbol) : x = sent /\ y = buffer
          BY DEF WInv, Types
        <4>3. Len(Join(x, y)) = Len(x) + Len(y) /\ Len(x) \in Nat
          BY JoinType, LenProperties
        <4> QED
          BY <4>1, <4>2, <4>3
      <3>2. CASE request_result' = OK
        <4>1. Complete'
          BY AtTheEnd, PTL
        <4>2. Len(sent') = Len(Message')
          BY <2>1, <2>3, <3>2, <4>1 DEF Complete
        <4>3. Body!Succeed
          BY <1>1, <2>1, <2>3, <3>1, <3>2, <4>2 DEF Body!Succeed
        <4> QED
          BY <4>3 DEF Body!Next
      <3>3. CASE request_result' # OK
        <4>1. faults' > 0
          BY <3>3 DEF WInv, Errors
        <4>2. Body!Fail
          BY <1>1, <2>1, <2>3, <3>1, <3>3, <4>1 DEF Body!Fail
        <4> QED
          BY <4>2 DEF Body!Next
      <3> QED
        BY <3>2, <3>3
    <2> QED
      BY <2>2, <2>3
  <1>6. CASE Finished \/ UNCHANGED vars
    <2>1. /\ message' = message /\ pc' = pc /\ sent' = sent /\ faults' = faults
          /\ request_result' = request_result
      BY <1>6 DEF Finished, vars, transfer
    <2> QED
      BY <1>1, <2>1 DEF Body!vars
  <1> QED
    BY <1>2, <1>3, <1>4, <1>5, <1>6 DEF Next, Steps

\* The body is a transfer of the message: what libcurl has only grows, an upload that ends
\* without an error has sent all of it, and it fails only when something went wrong.
THEOREM BodyImplementsTransfer == Spec => BodyIsTransfer
  <1>1. Init => Body!Init
    <2> SUFFICES ASSUME Init PROVE Body!Init
      OBVIOUS
    <2>1. pc = "prepare" /\ message \in Messages /\ Len(sent) = 0
      BY DEF Init
    <2>2. Len(Message) \in Nat
      BY <2>1, MessageText, LenProperties
    <2> QED
      BY <2>1, <2>2 DEF Body!Init
  <1> QED
    BY <1>1, BodyStep, WriterInvariant, PTL DEF Spec, BodyIsTransfer, Body!Spec

----------------------------------------------------------------------------
\* The boundary strings of a message, which are all the reader goes by.
\* What data is made of, as it is not to have the boundary string in it
Silent == Nat \X Nat \X Nat \X (Mark \ {"X"})

Announces(s, k) == s[k][4] = "X"

\* The boundary strings in s are those of some of the boundaries i to m, in order
Numbered(s, i, m) ==
  /\ \A k \in 1..Len(s) : Announces(s, k) => i <= s[k][1] /\ s[k][1] <= m
  /\ \A k, l \in 1..Len(s) :
       k < l /\ Announces(s, k) /\ Announces(s, l) => s[k][1] < s[l][1]

LEMMA SilentNumbered ==
  ASSUME NEW s \in Seq(Silent), NEW i, NEW m
  PROVE  Numbered(s, i, m)
  <1>1. ASSUME NEW k \in 1..Len(s) PROVE ~Announces(s, k)
    <2>1. s[k] \in Silent
      BY ElementOfSeq
    <2> QED
      BY <2>1 DEF Silent, Announces
  <1> QED
    BY <1>1 DEF Numbered

LEMMA JoinNumbered ==
  ASSUME NEW s \in Seq(Symbol), NEW t \in Seq(Symbol), NEW i \in Nat, NEW j \in Int, NEW m \in Nat,
         i <= j + 1, j <= m, Numbered(s, i, j), Numbered(t, j + 1, m)
  PROVE  Numbered(Join(s, t), i, m)
  <1>1. PICK a \in Nat, b \in Nat : a = Len(s) /\ b = Len(t)
    BY LenProperties
  <1> DEFINE u == Join(s, t)
  <1>2. Len(u) = a + b
    BY <1>1, JoinType
  <1>3. \A k \in 1..(a + b) : u[k] = IF k <= a THEN s[k] ELSE t[k - a]
    BY <1>1, ConcatProperties DEF Join
  <1> HIDE DEF u
  <1>4. ASSUME NEW k \in 1..(a + b), k <= a
        PROVE  /\ k \in 1..a /\ u[k] = s[k] /\ u[k][1] \in Nat
               /\ Announces(u, k) => Announces(s, k) /\ i <= u[k][1] /\ u[k][1] <= j
    <2>1. k \in 1..a /\ u[k] = s[k]
      BY <1>3, <1>4
    <2>2. s[k] \in Symbol
      BY <1>1, <2>1, ElementOfSeq
    <2> QED
      BY <1>1, <2>1, <2>2 DEF Numbered, Announces, Symbol
  <1>5. ASSUME NEW k \in 1..(a + b), ~(k <= a)
        PROVE  /\ k - a \in 1..b /\ u[k] = t[k - a] /\ u[k][1] \in Nat
               /\ Announces(u, k) => Announces(t, k - a) /\ j + 1 <= u[k][1] /\ u[k][1] <= m
    <2>1. k - a \in 1..b /\ u[k] = t[k - a]
      BY <1>3, <1>5
    <2>2. PICK c \in 1..b : c = k - a
      BY <2>1
    <2>3. t[c] \in Symbol
      BY <1>1, ElementOfSeq
    <2> QED
      BY <1>1, <2>1, <2>2, <2>3 DEF Numbered, Announces, Symbol
  <1>6. ASSUME NEW k \in 1..(a + b), Announces(u, k)
        PROVE  i <= u[k][1] /\ u[k][1] <= m
    <2>1. CASE k <= a
      BY <1>4, <1>6, <2>1
    <2>2. CASE ~(k <= a)
      BY <1>5, <1>6, <2>2
    <2> QED
      BY <2>1, <2>2
  <1>7. ASSUME NEW k \in 1..(a + b), NEW l \in 1..(a + b), k < l, Announces(u, k), Announces(u, l)
        PROVE  u[k][1] < u[l][1]
    <2>1. CASE l <= a
      <3>1. k <= a
        BY <1>1, <1>7, <2>1
      <3> QED
        BY <1>1, <1>4, <1>7, <2>1, <3>1 DEF Numbered
    <2>2. CASE ~(k <= a)
      <3>1. ~(l <= a) /\ k - a < l - a
        BY <1>1, <1>7, <2>2
      <3>2. k - a \in 1..b /\ l - a \in 1..b /\ Announces(t, k - a) /\ Announces(t, l - a)
        BY <1>5, <1>7, <2>2, <3>1
      <3>3. t[k - a][1] < t[l - a][1]
        BY <1>1, <3>1, <3>2 DEF Numbered
      <3> QED
        BY <1>5, <2>2, <3>1, <3>3
    <2>3. CASE k <= a /\ ~(l <= a)
      <3>1. u[k][1] <= j /\ j + 1 <= u[l][1] /\ u[k][1] \in Nat /\ u[l][1] \in Nat
        BY <1>4, <1>5, <1>7, <2>3
      <3> QED
        BY <3>1
    <2> QED
      BY <2>1, <2>2, <2>3
  <1> QED
    BY <1>2, <1>6, <1>7 DEF Numbered, u

\* Each boundary has the boundary string once, in its third place.
LEMMA BoundaryString ==
  ASSUME message \in Messages, NEW i \in 0..num_parts, NEW k \in 1..Len(boundary_text(i)),
         boundary_text(i)[k] = "X"
  PROVE  k = 3
  <1>1. CASE i = num_parts
    <2>1. boundary_text(i) = <<"nl", "dd", "X", "dd", "nl">>
      BY <1>1 DEF boundary_text
    <2>2. k \in 1..5
      BY <2>1
    <2> QED
      BY <2>1, <2>2
  <1>2. CASE i # num_parts
    <2>1. i \in Parts
      BY <1>2, MessageIs DEF Parts
    <2>2. PICK n \in Nat : n = part(i).headers
      BY <2>1, MessageIs DEF PartType
    <2> DEFINE lines == [j \in 1..n |-> <<"h", "nl">>]
               first == <<"nl", "dd", "X", "nl">>
    <2>3. lines \in Seq(Seq({"h", "nl"}))
      <3>1. lines \in [1..n -> Seq({"h", "nl"})]
        OBVIOUS
      <3> HIDE DEF lines
      <3> QED
        BY <3>1, SeqDef
    <2> HIDE DEF lines
    <2>4. PICK t \in Seq({"h", "nl"}) : t = FlattenSeq(lines)
      BY <2>3, FlattenType
    <2>5. PICK a \in Nat : a = Len(t)
      BY <2>4
    <2> DEFINE S == {"nl", "dd", "X", "h"}
    <2>6. first \in Seq(S) /\ Len(first) = 4 /\ <<"nl">> \in Seq(S) /\ Len(<<"nl">>) = 1
      OBVIOUS
    <2>7. t \in Seq(S)
      BY <2>4, SeqMonotonic
    <2>8. \A c \in 1..4 : first[c] = "X" => c = 3
      OBVIOUS
    <2> HIDE DEF first, S
    <2>9. /\ first \o t \in Seq(S) /\ Len(first \o t) = 4 + a
          /\ \A c \in 1..(4 + a) : (first \o t)[c] = IF c <= 4 THEN first[c] ELSE t[c - 4]
      <3>1. /\ first \o t \in Seq(S) /\ Len(first \o t) = Len(first) + Len(t)
            /\ \A c \in 1..(Len(first) + Len(t)) :
                 (first \o t)[c] = IF c <= Len(first) THEN first[c] ELSE t[c - Len(first)]
        BY <2>6, <2>7, ConcatProperties
      <3> QED
        BY <2>5, <2>6, <3>1
    <2>10. PICK u \in Seq(S) : u = first \o t
      BY <2>9
    <2>11. /\ Len(u \o <<"nl">>) = 5 + a
           /\ \A c \in 1..(5 + a) :
                (u \o <<"nl">>)[c] = IF c <= 4 + a THEN u[c] ELSE <<"nl">>[c - (4 + a)]
      <3>1. Len(u) = 4 + a /\ Len(u) + Len(<<"nl">>) = 5 + a
        BY <2>6, <2>9, <2>10
      <3> QED
        BY <2>6, <3>1, ConcatProperties
    <2>12. boundary_text(i) = u \o <<"nl">>
      BY <1>2, <2>2, <2>4, <2>10 DEF boundary_text, lines, first
    <2>13. k \in 1..(5 + a)
      BY <2>11, <2>12
    <2>14. CASE k <= 4
      <3>1. boundary_text(i)[k] = first[k]
        BY <2>9, <2>10, <2>11, <2>12, <2>13, <2>14
      <3>2. k \in 1..4
        BY <2>13, <2>14
      <3> QED
        BY <2>8, <3>1, <3>2
    <2>15. CASE ~(k <= 4) /\ k <= 4 + a
      <3>1. k - 4 \in 1..a /\ k \in 1..(4 + a)
        BY <2>13, <2>15
      <3>2. boundary_text(i)[k] = t[k - 4]
        BY <2>9, <2>10, <2>11, <2>12, <2>13, <2>15, <3>1
      <3>3. t[k - 4] \in {"h", "nl"}
        BY <2>4, <2>5, <3>1, ElementOfSeq
      <3> QED
        BY <3>2, <3>3
    <2>16. CASE ~(k <= 4 + a)
      <3>1. k - (4 + a) = 1
        BY <2>13, <2>16
      <3>2. boundary_text(i)[k] = <<"nl">>[1]
        BY <2>11, <2>12, <2>13, <2>16, <3>1
      <3> QED
        BY <3>2
    <2> QED
      BY <2>14, <2>15, <2>16
  <1> QED
    BY <1>1, <1>2

LEMMA BoundaryNumbered ==
  ASSUME message \in Messages, NEW i \in 0..num_parts
  PROVE  Numbered(BoundaryOf(i), i, i)
  <1>1. CASE ~has_boundary
    <2>1. BoundaryOf(i) = <<>> /\ <<>> \in Seq(Silent)
      BY <1>1, BoundaryOfIs, EmptySeq
    <2> QED
      BY <2>1, SilentNumbered
  <1>2. CASE has_boundary
    <2>1. i \in Nat
      BY MessageIs
    <2>2. PICK text \in Text : text = boundary_text(i)
      BY BoundaryText
    <2>3. PICK s : s = Symbols(i, 0, text) /\ s = BoundaryOf(i)
      BY <1>2, <2>2, BoundaryOfIs
    <2>4. PICK n \in Nat : n = Len(text)
      BY <2>2, LenProperties DEF Text
    <2>5. Len(s) = n /\ \A k \in 1..n : s[k] = <<i, 0, k, text[k]>>
      <3>1. /\ Len(Symbols(i, 0, text)) = Len(text)
            /\ \A k \in 1..Len(text) : Symbols(i, 0, text)[k] = <<i, 0, k, text[k]>>
        <4>1. 0 \in Nat
          OBVIOUS
        <4> QED
          BY <2>1, <2>2, <4>1, SymbolsType
      <3> QED
        BY <2>3, <2>4, <3>1
    <2>6. \A k \in 1..n : s[k][1] = i /\ (Announces(s, k) => k = 3)
      <3> SUFFICES ASSUME NEW k \in 1..n PROVE s[k][1] = i /\ (Announces(s, k) => k = 3)
        OBVIOUS
      <3>1. s[k][1] = i /\ s[k][4] = text[k]
        BY <2>5
      <3> QED
        BY <2>2, <2>4, <3>1, BoundaryString DEF Announces
    <2>7. \A k, l \in 1..n : k = 3 /\ l = 3 => ~(k < l)
      OBVIOUS
    <2> QED
      BY <2>1, <2>3, <2>5, <2>6, <2>7 DEF Numbered
  <1> QED
    BY <1>1, <1>2

LEMMA BytesSilent ==
  ASSUME message \in Messages, NEW i \in Parts
  PROVE  BytesOf(i) \in Seq(Silent)
  <1>1. PICK n \in Nat : n = Len(part(i).blocks)
    BY MessageIs
  <1>2. i \in Nat
    BY MessageIs DEF Parts
  <1> DEFINE Say(c) == Symbols(i, c, part(i).blocks[c])
             texts == [k \in 1..(n + 1 - 1) |-> Say(1 + k - 1)]
  <1>3. BytesOf(i) = FlattenSeq(texts)
    BY <1>1 DEF BytesOf, BytesFrom
  <1>4. ASSUME NEW c \in 1..n PROVE Say(c) \in Seq(Silent)
    <2>1. PICK text \in Text : text = part(i).blocks[c]
      BY <1>1, SymbolsOfBlock
    <2>2. "X" \notin ToSet(text)
      <3>1. i + 1 \in 1..Len(message.parts) /\ message.parts \in Seq(PartType)
        BY MessageIs DEF Parts, num_parts, MessageType
      <3>2. part(i) \in ToSet(message.parts)
        BY <3>1 DEF part, ToSet
      <3>3. part(i).blocks \in Seq(Text)
        BY MessageIs
      <3>4. text \in ToSet(part(i).blocks)
        BY <1>1, <2>1, <3>3 DEF ToSet
      <3> QED
        BY <3>2, <3>4, WriteMultipartAssumption
    <2>3. PICK m \in Nat : m = Len(text)
      BY <2>1, LenProperties DEF Text
    <2>4. DOMAIN text = 1..m
      BY <2>1, <2>3, LenProperties DEF Text
    <2>5. \A k \in 1..m : text[k] \in Mark \ {"X"}
      <3> SUFFICES ASSUME NEW k \in 1..m PROVE text[k] \in Mark /\ text[k] # "X"
        OBVIOUS
      <3>1. text[k] \in Mark
        BY <2>1, <2>3, ElementOfSeq DEF Text
      <3>2. text[k] \in ToSet(text)
        BY <2>4 DEF ToSet
      <3> QED
        BY <2>2, <3>1, <3>2
    <2> DEFINE f == [k \in 1..m |-> <<i, c, k, text[k]>>]
    <2>6. f \in [1..m -> Silent]
      <3>1. \A k \in 1..m : <<i, c, k, text[k]>> \in Silent
        BY <1>2, <2>5 DEF Silent
      <3> QED
        BY <3>1
    <2>7. Say(c) = f
      BY <2>1, <2>4 DEF Symbols
    <2> HIDE DEF f
    <2> QED
      BY <2>6, <2>7, SeqDef
  <1> HIDE DEF Say
  <1>5. texts \in Seq(Seq(Silent))
    <2>1. n + 1 - 1 = n /\ \A k \in 1..n : 1 + k - 1 = k
      BY <1>1
    <2>2. texts \in [1..n -> Seq(Silent)]
      BY <1>4, <2>1
    <2> HIDE DEF texts
    <2> QED
      BY <2>2, SeqDef
  <1> QED
    BY <1>3, <1>5, FlattenType

\* The boundary strings of a message are numbered as its boundaries are.
LEMMA MessageNumbered ==
  ASSUME message \in Messages
  PROVE  Numbered(Message, 0, num_parts)
  <1>1. PICK n \in Nat \ {0} : n = num_parts
    BY MessageIs
  <1> DEFINE wrong == {d \in 0..n : ~Numbered(Ending(n - d), n - d, n)}
  <1>2. ASSUME wrong # {} PROVE FALSE
    <2>1. wrong \subseteq Nat
      OBVIOUS
    <2> HIDE DEF wrong
    <2>2. PICK d \in wrong : \A e \in wrong : d <= e
      BY <1>2, <2>1, LeastNat
    <2>3. d \in 0..n /\ ~Numbered(Ending(n - d), n - d, n)
      BY <2>2 DEF wrong
    <2>4. PICK i \in 0..num_parts : i = n - d
      BY <1>1, <2>3
    <2>5. CASE i = n
      BY <1>1, <2>3, <2>4, <2>5, EndingIs, BoundaryNumbered
    <2>6. CASE i # n
      <3>1. i \in Parts /\ i < num_parts /\ i + 1 \in 0..num_parts /\ i \in Nat
        BY <1>1, <2>6 DEF Parts
      <3>2. d - 1 \in 0..n /\ ~(d <= d - 1) /\ n - (d - 1) = i + 1
        BY <1>1, <2>3, <2>4, <2>6
      <3>3. Numbered(Ending(i + 1), i + 1, n)
        BY <2>2, <3>2 DEF wrong
      <3>4. PICK x \in Seq(Symbol), y \in Seq(Symbol), z \in Seq(Symbol) :
              x = BoundaryOf(i) /\ y = BytesOf(i) /\ z = Ending(i + 1)
        BY <3>1, BoundaryOfIs, BytesOfIs, EndingIs
      <3>5. Ending(i) = Join(x, Join(y, z))
        BY <3>1, <3>4, EndingIs
      <3>6. PICK k \in Nat : k = i + 1 /\ i <= k /\ k <= n
        BY <1>1, <3>1
      <3>7. Numbered(y, k, i)
        BY <3>1, <3>4, BytesSilent, SilentNumbered
      <3>8. k <= i + 1 /\ i <= n
        BY <1>1, <3>1, <3>6
      <3>9. Numbered(Join(y, z), k, n)
        BY <3>1, <3>3, <3>4, <3>6, <3>7, <3>8, JoinNumbered
      <3>10. Numbered(x, i, i) /\ Join(y, z) \in Seq(Symbol)
        BY <3>4, BoundaryNumbered, JoinType
      <3>11. i <= i + 1
        BY <3>1
      <3>12. Numbered(Join(x, Join(y, z)), i, n)
        BY <3>1, <3>6, <3>8, <3>9, <3>10, <3>11, JoinNumbered
      <3> QED
        BY <2>3, <2>4, <3>5, <3>12
    <2> QED
      BY <2>5, <2>6
  <1>3. n \in 0..n /\ n - n = 0
    BY <1>1
  <1>4. Numbered(Ending(n - n), n - n, n)
    BY <1>2, <1>3
  <1> QED
    BY <1>1, <1>3, <1>4 DEF Message

----------------------------------------------------------------------------
\* The types of the writer follow from its invariant.
LEMMA WriterTypes == WInv => TypeOK
  <1> SUFFICES ASSUME WInv PROVE TypeOK
    OBVIOUS
  <1>1. current_boundary \in {NULL} \cup 0..num_parts
    BY DEF WInv, Types, Boundaries
  <1>2. IF current_boundary = NULL THEN current_boundary_offset = 0
        ELSE current_boundary_offset \in 0..(Len(boundary_text(current_boundary)) - 1)
    BY DEF WInv, Boundaries
  <1>3. \A i \in 0..(num_parts - 1) : position[i] \in [block : Nat, offset : Nat]
    <2> SUFFICES ASSUME NEW i \in Parts PROVE position[i] \in [block : Nat, offset : Nat]
      BY DEF Parts
    <2>1. position[i] \in Positions
      BY DEF WInv, Places
    <2> QED
      BY <2>1 DEF Positions
  <1>4. {buffer_length, this_copy, blocks_length} \subseteq Nat
    BY DEF WInv, Types
  <1>5. /\ result \in {OK, "part_failed", "no_memory"}
        /\ request_result \in {OK, "not_prepared", "part_failed", "no_memory"}
    BY DEF WInv, Types, Results
  <1>6. /\ message \in Messages
        /\ pc \in {"prepare", "idle", "loop", "blocks", "returned", "return", "ended"}
        /\ boundary \in BOOLEAN /\ part_index \in 0..num_parts /\ faults \in 0..MaxFaults
    BY DEF WInv, Types
  <1> QED
    BY <1>1, <1>2, <1>3, <1>4, <1>5, <1>6 DEF TypeOK

----------------------------------------------------------------------------
\* The reader.  It has what was sent, and only once all of it was.
Returned ==
  /\ response \in Seq(Symbol)
  /\ Numbered(response, 0, num_parts)
  /\ pc # "ended" => response = <<>>
  /\ num_parts \in Nat \ {0}

LEMMA ResponseIs == WInv /\ Whole => Returned
  <1> SUFFICES ASSUME WInv, Whole PROVE Returned
    OBVIOUS
  <1>1. message \in Messages /\ sent \in Seq(Symbol)
    BY DEF WInv, Types
  <1>2. num_parts \in Nat \ {0}
    BY <1>1, MessageIs
  <1>3. <<>> \in Seq(Silent) /\ <<>> \in Seq(Symbol)
    BY EmptySeq
  <1>4. CASE response = <<>>
    BY <1>2, <1>3, <1>4, SilentNumbered DEF Returned
  <1>5. CASE response # <<>>
    <2>1. pc = "ended" /\ request_result = OK /\ response = sent
      BY <1>5 DEF response
    <2>2. response = Message
      BY <2>1, AtTheEnd DEF Complete
    <2> QED
      BY <1>1, <1>2, <2>1, <2>2, MessageNumbered DEF Returned
  <1> QED
    BY <1>4, <1>5

\* The boundary string of what the reader is looking for is found
Passed == ~need_header /\ match_counter > IF read_index = -1 THEN 1 ELSE 2

\* The number of the next boundary string there may be
due == read_index + IF Passed THEN 2 ELSE 1

\* What boundary_buffer may have
Kept == Symbol \cup {<<"outside">>}

ReaderTypes ==
  /\ read_index \in Int /\ read_index >= -1
  /\ need_header \in BOOLEAN
  /\ match_counter \in 0..Len(Reader!boundary)
  /\ boundary_buffer \in Seq(Kept)
  /\ base \in Nat /\ scanned \in Nat /\ limit \in Nat
  /\ base + scanned <= limit /\ limit <= Len(response)
  /\ ends \in [Reader!Indices -> Nat]

\* Nothing is read before the message was sent
Waiting ==
  pc # "ended" =>
    base = 0 /\ limit = 0 /\ scanned = 0 /\ read_index = -1 /\ match_counter = 0 /\ ~need_header

\* What is kept of a boundary that may go on is what was matched in earlier chunks
Matched ==
  /\ boundary_buffer # <<>> => Len(boundary_buffer) <= match_counter - scanned
  /\ need_header => boundary_buffer = <<>> /\ read_index \in Reader!Indices

\* No more boundary strings are to come than there are parts left
Ahead ==
  /\ due <= num_parts + 1
  /\ \A k \in 1..Len(response) :
       k > base + scanned /\ Announces(response, k) => due <= response[k][1]

RInv == ReaderTypes /\ Waiting /\ Matched /\ Ahead

\* Where the boundary string is in what the reader is looking for
LEMMA Sought ==
  /\ Len(Reader!boundary) \in 2..5
  /\ ~need_header /\ read_index = -1 =>
       Len(Reader!boundary) > 1 /\ Reader!boundary[2] = "X"
  /\ ~need_header /\ read_index # -1 =>
       Len(Reader!boundary) > 2 /\ Reader!boundary[3] = "X"
  <1>1. CASE need_header
    BY <1>1 DEF Reader!boundary
  <1>2. CASE ~need_header /\ read_index = -1
    BY <1>2 DEF Reader!boundary
  <1>3. CASE ~need_header /\ read_index # -1
    BY <1>3 DEF Reader!boundary
  <1> QED
    BY <1>1, <1>2, <1>3

\* The result of the reader is success or an error
ResultKnown == read_result \in {"ok", "error"}

LEMMA ResultKept == ResultKnown /\ [MultipartNext]_all_vars => ResultKnown'
  <1> SUFFICES ASSUME ResultKnown, [MultipartNext]_all_vars PROVE ResultKnown'
    OBVIOUS
  <1>1. CASE UNCHANGED reader
    BY <1>1 DEF ResultKnown, reader
  <1>2. CASE Reader!Next
    BY <1>2
    DEF ResultKnown, Reader!Next, Reader!Chunk, Reader!ScanMatch, Reader!ScanMismatch,
        Reader!HeaderGoesOn, Reader!HeaderEnds, Reader!PrefaceEnds, Reader!PartEnds,
        Reader!PartialMatch, Reader!NoMatch
  <1> QED
    BY <1>1, <1>2 DEF MultipartNext, Writing, Reading, all_vars

LEMMA ReaderTypesHold == WInv /\ Whole /\ RInv /\ ResultKnown => Reader!TypeOK
  <1> SUFFICES ASSUME WInv, Whole, RInv, ResultKnown PROVE Reader!TypeOK
    OBVIOUS
  <1>1. PICK n \in Nat : n = num_parts
    BY ResponseIs DEF Returned
  <1>2. read_index \in -1..n
    <2>1. due \in Int /\ read_index + 1 <= due
      BY DEF due, RInv, ReaderTypes
    <2>2. due <= n + 1
      BY <1>1 DEF RInv, Ahead
    <2> QED
      BY <1>1, <2>1, <2>2 DEF RInv, ReaderTypes
  <1>3. Len(boundary_buffer) <= 5
    <2>1. CASE boundary_buffer = <<>>
      BY <2>1
    <2>2. CASE boundary_buffer # <<>>
      <3>1. PICK l \in Nat : l = Len(boundary_buffer)
        BY LenProperties DEF RInv, ReaderTypes
      <3>2. l <= match_counter - scanned /\ match_counter \in 0..Len(Reader!boundary) /\ scanned \in Nat
        BY <2>2, <3>1 DEF RInv, Matched, ReaderTypes
      <3>3. PICK b \in 2..5 : b = Len(Reader!boundary)
        BY Sought
      <3>4. PICK m \in 0..b, k \in Nat : m = match_counter /\ k = scanned
        BY <3>2, <3>3
      <3>5. l <= m - k
        BY <3>2, <3>4
      <3> QED
        BY <3>1, <3>5
    <2> QED
      BY <2>1, <2>2
  <1>4. \A i \in Reader!Indices : ends[i] \in Nat
    BY DEF RInv, ReaderTypes
  <1> QED
    BY <1>1, <1>2, <1>3, <1>4 DEF RInv, ReaderTypes, Matched, ResultKnown, Reader!TypeOK

LEMMA ReaderStarts == MultipartInit /\ WInv /\ Whole => RInv
  <1> SUFFICES ASSUME MultipartInit, WInv, Whole PROVE RInv
    OBVIOUS
  <1>1. /\ pc = "prepare" /\ read_index = -1 /\ need_header = FALSE /\ match_counter = 0
        /\ boundary_buffer = <<>> /\ base = 0 /\ limit = 0 /\ scanned = 0
        /\ ends = [i \in Reader!Indices |-> 0]
    BY DEF MultipartInit, Init, Reader!Init
  <1>2. response = <<>> /\ num_parts \in Nat \ {0}
    BY <1>1, ResponseIs DEF Returned
  <1>3. Len(response) = 0 /\ <<>> \in Seq(Kept)
    BY <1>2, EmptySeq
  <1>4. ReaderTypes
    <2>1. 0 \in 0..Len(Reader!boundary)
      BY Sought
    <2>2. FALSE \in BOOLEAN
      OBVIOUS
    <2>3. ends \in [Reader!Indices -> Nat]
      BY <1>1
    <2>4. /\ read_index \in Int /\ read_index >= -1
          /\ base \in Nat /\ scanned \in Nat /\ limit \in Nat
          /\ base + scanned <= limit /\ limit <= Len(response)
      BY <1>1, <1>3
    <2> QED
      BY <1>1, <1>3, <2>1, <2>2, <2>3, <2>4 DEF ReaderTypes
  <1>5. Waiting /\ Matched
    BY <1>1 DEF Waiting, Matched
  <1>6. due = 0
    BY <1>1 DEF due, Passed
  <1>7. Ahead
    BY <1>2, <1>3, <1>6 DEF Ahead
  <1> QED
    BY <1>4, <1>5, <1>7 DEF RInv

\* The writer goes on, and may have sent all of the message.
LEMMA WritingKept ==
  ASSUME WInv', Whole', RInv, message' = message, pc # "ended", UNCHANGED reader
  PROVE  RInv'
  <1>1. /\ base = 0 /\ limit = 0 /\ scanned = 0 /\ read_index = -1 /\ match_counter = 0
        /\ ~need_header
        /\ base' = 0 /\ limit' = 0 /\ scanned' = 0 /\ read_index' = -1 /\ match_counter' = 0
        /\ need_header' = need_header /\ boundary_buffer' = boundary_buffer /\ ends' = ends
    BY DEF RInv, Waiting, reader
  <1>2. num_parts' = num_parts
    BY SameMessage
  <1>3. Returned'
    BY ResponseIs, PTL
  <1>4. PICK r \in Seq(Symbol), n \in Nat :
          r = response' /\ n = num_parts' /\ Numbered(r, 0, n) /\ Len(r) \in Nat
    BY <1>3, LenProperties DEF Returned, Numbered
  <1>5. ReaderTypes'
    <2>1. Len(Reader!boundary') \in 2..5
      BY <1>1 DEF Reader!boundary
    <2>2. ends' \in [Reader!Indices' -> Nat]
      BY <1>1, <1>2 DEF RInv, ReaderTypes, Reader!Indices
    <2>3. 0 \in 0..Len(Reader!boundary')
      BY <2>1
    <2> QED
      BY <1>1, <1>4, <2>2, <2>3 DEF RInv, ReaderTypes
  <1>6. Waiting' /\ Matched'
    BY <1>1 DEF RInv, Waiting, Matched
  <1>7. due' = 0
    BY <1>1 DEF due, Passed
  <1>8. Ahead'
    <2>1. \A k \in 1..Len(r) : Announces(r, k) => 0 <= r[k][1]
      BY <1>4 DEF Numbered
    <2>2. 0 <= n + 1
      OBVIOUS
    <2> QED
      BY <1>4, <1>7, <2>1, <2>2 DEF Ahead, Announces
  <1> QED
    BY <1>5, <1>6, <1>8 DEF RInv

\* The reader has a response only when the writer has ended.
LEMMA Waits ==
  ASSUME WInv, Whole, RInv, base < Len(response) \/ base < limit
  PROVE  pc = "ended"
  <1> SUFFICES ASSUME pc # "ended" PROVE FALSE
    OBVIOUS
  <1>1. base = 0 /\ limit = 0
    BY DEF RInv, Waiting
  <1>2. Len(response) = 0
    BY ResponseIs DEF Returned
  <1> QED
    BY <1>1, <1>2

LEMMA ChunkKept ==
  ASSUME WInv, Whole, RInv, Reader!Chunk, UNCHANGED vars
  PROVE  RInv'
  <1>1. /\ base = limit /\ base < Len(response) /\ scanned' = 0
        /\ read_index' = read_index /\ need_header' = need_header /\ match_counter' = match_counter
        /\ boundary_buffer' = boundary_buffer /\ base' = base /\ ends' = ends
    BY DEF Reader!Chunk, Reader!state, Reader!parts
  <1>2. pc' = "ended" /\ message' = message /\ response' = response
    <2>1. pc = "ended"
      BY <1>1, Waits
    <2> QED
      BY <2>1 DEF vars, response, delimited, transfer
  <1>3. num_parts' = num_parts
    BY <1>2, SameMessage
  <1>4. PICK b \in Nat, s \in Nat, n \in Nat : b = base /\ s = scanned /\ n = Len(response)
    BY ResponseIs, LenProperties DEF Returned, RInv, ReaderTypes
  <1>5. s = 0
    BY <1>1, <1>4 DEF RInv, ReaderTypes
  <1>6. limit' \in Nat /\ limit' <= n /\ b <= limit'
    <2>1. CASE limit' = Len(response)
      BY <1>1, <1>4, <2>1
    <2>2. CASE \E c \in ChunkLengths : base + c < Len(response) /\ limit' = base + c
      <3>1. PICK c \in ChunkLengths : base + c < Len(response) /\ limit' = base + c
        BY <2>2
      <3>2. c \in Nat
        BY MultipartAssumption
      <3> QED
        BY <1>4, <3>1, <3>2
    <2> QED
      BY <2>1, <2>2 DEF Reader!Chunk
  <1>7. Reader!boundary' = Reader!boundary
    BY <1>1, <1>3 DEF Reader!boundary
  <1>8. ReaderTypes'
    <2>1. base' + scanned' <= limit'
      BY <1>1, <1>4, <1>6
    <2>2. ends' \in [Reader!Indices' -> Nat]
      BY <1>1, <1>3 DEF RInv, ReaderTypes, Reader!Indices
    <2> QED
      BY <1>1, <1>2, <1>4, <1>6, <1>7, <2>1, <2>2 DEF RInv, ReaderTypes
  <1>9. Waiting' /\ Matched'
    <2>1. scanned' = scanned
      BY <1>1, <1>4, <1>5
    <2> QED
      BY <1>1, <1>2, <1>3, <2>1 DEF RInv, Waiting, Matched, Reader!Indices
  <1>10. Ahead'
    <2>1. due' = due /\ scanned' = scanned
      BY <1>1, <1>4, <1>5 DEF due, Passed
    <2> QED
      BY <1>1, <1>2, <1>3, <2>1 DEF RInv, Ahead, Announces
  <1> QED
    BY <1>8, <1>9, <1>10 DEF RInv

\* A boundary string that is found was the next one, and those that follow come after it.
LEMMA ScanMatchKept ==
  ASSUME WInv, Whole, RInv, Reader!ScanMatch, UNCHANGED vars
  PROVE  RInv'
  <1>1. /\ base + scanned < limit /\ match_counter # Len(Reader!boundary)
        /\ response[base + scanned + 1][4] = Reader!boundary[match_counter + 1]
        /\ match_counter' = match_counter + 1 /\ scanned' = scanned + 1
        /\ read_index' = read_index /\ need_header' = need_header
        /\ boundary_buffer' = boundary_buffer /\ base' = base /\ limit' = limit /\ ends' = ends
    BY DEF Reader!ScanMatch, Reader!scanning, Reader!found, Reader!parts
  <1>2. PICK b \in Nat, s \in Nat, l \in Nat, n \in Nat, m \in Nat, i \in Int, p \in Nat :
          /\ b = base /\ s = scanned /\ l = limit /\ n = Len(response) /\ m = match_counter
          /\ i = read_index /\ p = num_parts
    <2>1. match_counter \in Nat
      BY Sought DEF RInv, ReaderTypes
    <2> QED
      BY <2>1, ResponseIs, LenProperties DEF Returned, RInv, ReaderTypes
  <1>3. b + s < l /\ l <= n /\ b + s + 1 \in 1..n
    BY <1>1, <1>2 DEF RInv, ReaderTypes
  <1>4. pc' = "ended" /\ message' = message /\ response' = response /\ num_parts' = num_parts
    <2>1. base < limit
      BY <1>2, <1>3
    <2>2. pc = "ended"
      BY <2>1, Waits
    <2> QED
      BY <2>2, SameMessage DEF vars, response, delimited, transfer
  <1>5. Reader!boundary' = Reader!boundary
    BY <1>1, <1>4 DEF Reader!boundary
  <1>6. ReaderTypes'
    <2>1. base' + scanned' <= limit' /\ scanned' \in Nat
      BY <1>1, <1>2, <1>3
    <2>2. ends' \in [Reader!Indices' -> Nat]
      BY <1>1, <1>4 DEF RInv, ReaderTypes, Reader!Indices
    <2>3. match_counter' \in 0..Len(Reader!boundary')
      <3>1. PICK k \in 2..5 : k = Len(Reader!boundary)
        BY Sought
      <3>2. m \in 0..k /\ m # k
        BY <1>1, <1>2, <3>1 DEF RInv, ReaderTypes
      <3> QED
        BY <1>1, <1>2, <1>5, <3>1, <3>2
    <2> QED
      BY <1>1, <1>4, <2>1, <2>2, <2>3 DEF RInv, ReaderTypes
  <1>7. Waiting' /\ Matched'
    <2>1. match_counter' - scanned' = match_counter - scanned
      BY <1>1, <1>2
    <2> QED
      BY <1>1, <1>4, <2>1 DEF RInv, Waiting, Matched, Reader!Indices
  <1>8. Ahead'
    <2>1. PICK d \in Int : d = due /\ d <= p + 1
      BY <1>2 DEF RInv, Ahead, due
    <2>2. \A k \in 1..n : k > b + s /\ Announces(response, k) => d <= response[k][1]
      BY <1>2, <2>1 DEF RInv, Ahead
    <2>3. /\ \A k \in 1..n : Announces(response, k) => response[k][1] <= p
          /\ \A k, j \in 1..n :
               k < j /\ Announces(response, k) /\ Announces(response, j)
                 => response[k][1] < response[j][1]
      BY <1>2, ResponseIs DEF Returned, Numbered
    <2>4. \A k \in 1..n : response[k][1] \in Nat
      <3> SUFFICES ASSUME NEW k \in 1..n PROVE response[k][1] \in Nat
        OBVIOUS
      <3>1. response \in Seq(Symbol)
        BY ResponseIs DEF Returned
      <3>2. response[k] \in Symbol
        BY <1>2, <3>1, ElementOfSeq
      <3> QED
        BY <3>2 DEF Symbol
    <2>5. CASE due' = due
      <3>1. \A k \in 1..n : k > b + (s + 1) => k > b + s
        BY <1>2
      <3> QED
        BY <1>1, <1>2, <1>4, <2>1, <2>2, <2>5, <3>1 DEF Ahead, Announces
    <2>6. CASE due' # due
      <3>1. ~need_header /\ ~Passed /\ Passed' /\ m + 1 = IF i = -1 THEN 2 ELSE 3
        <4>1. need_header => ~Passed /\ ~Passed'
          BY <1>1 DEF Passed
        <4>2. Passed => Passed'
          BY <1>1, <1>2 DEF Passed
        <4>3. ~need_header /\ ~Passed /\ Passed'
          BY <1>1, <2>6, <4>1, <4>2 DEF due
        <4>4. CASE i = -1
          BY <1>1, <1>2, <4>3, <4>4 DEF Passed
        <4>5. CASE i # -1
          BY <1>1, <1>2, <4>3, <4>5 DEF Passed
        <4> QED
          BY <4>3, <4>4, <4>5
      <3>2. due' = d + 1
        BY <1>1, <1>2, <2>1, <3>1 DEF due
      <3>3. Reader!boundary[m + 1] = "X"
        BY <1>2, <3>1, Sought
      <3>4. PICK c \in 1..n : c = b + s + 1 /\ c > b + s
        BY <1>2, <1>3
      <3>5. Announces(response, c)
        BY <1>1, <1>2, <3>3, <3>4 DEF Announces
      <3>6. d <= response[c][1] /\ response[c][1] <= p /\ response[c][1] \in Nat
        BY <2>2, <2>3, <2>4, <3>4, <3>5
      <3>7. d + 1 <= p + 1
        BY <1>2, <3>6
      <3>8. ASSUME NEW k \in 1..n, k > b + (s + 1), Announces(response, k)
            PROVE  d + 1 <= response[k][1]
        <4>1. c < k
          BY <1>2, <3>4, <3>8
        <4>2. response[c][1] < response[k][1] /\ response[k][1] \in Nat
          BY <2>3, <2>4, <3>5, <3>8, <4>1
        <4> QED
          BY <3>6, <4>2
      <3> QED
        BY <1>1, <1>2, <1>4, <3>2, <3>7, <3>8 DEF Ahead, Announces
    <2> QED
      BY <2>5, <2>6
  <1> QED
    BY <1>6, <1>7, <1>8 DEF RInv

\* The callback of a part is told of its end a number of times.
LEMMA CallCounts ==
  ASSUME RInv, NEW data, Reader!Call(data)
  PROVE  ends' \in [Reader!Indices -> Nat]
  <1>1. ends \in [Reader!Indices -> Nat]
    BY DEF RInv, ReaderTypes
  <1>2. CASE ends' = [ends EXCEPT ![read_index] = @ + 1]
    <2>1. CASE read_index \in Reader!Indices
      <3>1. ends[read_index] + 1 \in Nat
        BY <1>1, <2>1
      <3> QED
        BY <1>1, <1>2, <3>1
    <2>2. CASE read_index \notin Reader!Indices
      BY <1>1, <1>2, <2>2
    <2> QED
      BY <2>1, <2>2
  <1> QED
    BY <1>1, <1>2 DEF Reader!Call

LEMMA ScanMismatchKept ==
  ASSUME WInv, Whole, RInv, Reader!ScanMismatch, UNCHANGED vars
  PROVE  RInv'
  <1>1. /\ base + scanned < limit
        /\ match_counter' \in {0, 1} /\ scanned' = scanned + 1
        /\ read_index' = read_index /\ need_header' = need_header
        /\ boundary_buffer' = <<>> /\ base' = base /\ limit' = limit
        /\ ends' = ends \/ Reader!Call(boundary_buffer)
    BY DEF Reader!ScanMismatch, Reader!scanning, Reader!restarted
  <1>2. PICK b \in Nat, s \in Nat, l \in Nat, i \in Int, p \in Nat :
          b = base /\ s = scanned /\ l = limit /\ i = read_index /\ p = num_parts
    BY ResponseIs DEF Returned, RInv, ReaderTypes
  <1>3. b + s < l
    BY <1>1, <1>2
  <1>4. pc' = "ended" /\ message' = message /\ response' = response /\ num_parts' = num_parts
    <2>1. base < limit
      BY <1>2, <1>3
    <2>2. pc = "ended"
      BY <2>1, Waits
    <2> QED
      BY <2>2, SameMessage DEF vars, response, delimited, transfer
  <1>5. Reader!boundary' = Reader!boundary
    BY <1>1, <1>4 DEF Reader!boundary
  <1>6. ReaderTypes'
    <2>1. base' + scanned' <= limit' /\ scanned' \in Nat
      BY <1>1, <1>2, <1>3
    <2>2. ends' \in [Reader!Indices' -> Nat]
      <3>1. ends' \in [Reader!Indices -> Nat]
        BY <1>1, CallCounts DEF RInv, ReaderTypes
      <3> QED
        BY <1>4, <3>1 DEF Reader!Indices
    <2>3. match_counter' \in 0..Len(Reader!boundary')
      <3>1. PICK k \in 2..5 : k = Len(Reader!boundary)
        BY Sought
      <3> QED
        BY <1>1, <1>5, <3>1
    <2>4. <<>> \in Seq(Kept)
      BY EmptySeq
    <2> QED
      BY <1>1, <1>4, <2>1, <2>2, <2>3, <2>4 DEF RInv, ReaderTypes
  <1>7. Waiting' /\ Matched'
    BY <1>1, <1>4 DEF RInv, Waiting, Matched, Reader!Indices
  <1>8. Ahead'
    <2>1. PICK d \in Int, e \in Int : d = due /\ e = due' /\ e <= d /\ d <= p + 1
      <3>1. ~Passed'
        BY <1>1 DEF Passed
      <3>2. due' = i + 1 /\ due \in {i + 1, i + 2}
        BY <1>1, <1>2, <3>1 DEF due
      <3>3. due <= p + 1
        BY <1>2 DEF RInv, Ahead
      <3> QED
        BY <3>2, <3>3
    <2>2. ASSUME NEW k \in 1..Len(response), k > b + (s + 1), Announces(response, k)
          PROVE  e <= response[k][1]
      <3>1. k > b + s /\ k \in Int
        BY <1>2, <2>2
      <3>2. d <= response[k][1]
        BY <1>2, <2>1, <2>2, <3>1 DEF RInv, Ahead
      <3>3. response[k][1] \in Nat
        <4>1. response[k] \in Symbol
          BY ResponseIs, ElementOfSeq DEF Returned
        <4> QED
          BY <4>1 DEF Symbol
      <3> QED
        BY <2>1, <3>2, <3>3
    <2>3. e <= p + 1
      BY <2>1
    <2> QED
      BY <1>1, <1>2, <1>4, <2>1, <2>2, <2>3 DEF Ahead, Announces
  <1> QED
    BY <1>6, <1>7, <1>8 DEF RInv

\* What is left of the invariant to show for a step over what was scanned
LEMMA AdvanceKept ==
  ASSUME WInv, Whole, RInv, Reader!Advance, UNCHANGED vars,
         read_index' \in Int, read_index' >= read_index, need_header' \in BOOLEAN,
         match_counter' \in Nat, match_counter' \in 0..Len(Reader!boundary'),
         boundary_buffer' \in Seq(Kept),
         ends' \in [Reader!Indices -> Nat],
         boundary_buffer' # <<>> => Len(boundary_buffer') <= match_counter',
         need_header' => boundary_buffer' = <<>> /\ read_index' \in Reader!Indices,
         due' = due
  PROVE  RInv'
  <1>1. base < limit /\ base' = base + scanned /\ scanned' = 0 /\ limit' = limit
    BY DEF Reader!Advance
  <1>2. PICK b \in Nat, s \in Nat, l \in Nat :
          b = base /\ s = scanned /\ l = limit /\ b + s <= l
    BY DEF RInv, ReaderTypes
  <1>3. pc' = "ended" /\ message' = message /\ response' = response /\ num_parts' = num_parts
    <2>1. pc = "ended"
      BY <1>1, Waits
    <2> QED
      BY <2>1, SameMessage DEF vars, response, delimited, transfer
  <1>4. base' + scanned' = b + s /\ base' \in Nat /\ scanned' \in Nat
    BY <1>1, <1>2
  <1>5. ReaderTypes'
    <2>1. read_index' >= -1
      <3>1. PICK i \in Int, j \in Int : i = read_index /\ j = read_index'
        BY DEF RInv, ReaderTypes
      <3> QED
        BY <3>1 DEF RInv, ReaderTypes
    <2>2. ends' \in [Reader!Indices' -> Nat]
      BY <1>3 DEF Reader!Indices
    <2>3. base' + scanned' <= limit' /\ limit' \in Nat /\ limit' <= Len(response')
      BY <1>1, <1>2, <1>3, <1>4 DEF RInv, ReaderTypes
    <2> QED
      BY <1>4, <2>1, <2>2, <2>3 DEF ReaderTypes
  <1>6. Waiting'
    BY <1>3 DEF Waiting
  <1>7. Matched'
    <2>1. PICK m \in Nat : m = match_counter'
      OBVIOUS
    <2>2. m - 0 = m
      OBVIOUS
    <2>3. match_counter' - scanned' = match_counter'
      BY <1>1, <2>1, <2>2
    <2> QED
      BY <1>3, <2>3 DEF Matched, Reader!Indices
  <1>8. Ahead'
    BY <1>2, <1>3, <1>4 DEF RInv, Ahead, Announces
  <1> QED
    BY <1>5, <1>6, <1>7, <1>8 DEF RInv

SoughtSize == Len(Reader!boundary) \in 2..5

LEMMA SoughtSizes == SoughtSize
  BY Sought DEF SoughtSize

LEMMA HeadersKept ==
  ASSUME WInv, Whole, RInv, Reader!HeaderGoesOn \/ Reader!HeaderEnds, UNCHANGED vars
  PROVE  RInv'
  <1>1. /\ need_header /\ Reader!Advance /\ read_index' = read_index /\ ends' = ends
        /\ boundary_buffer' = boundary_buffer
        /\ \/ need_header' = need_header /\ match_counter' = match_counter
           \/ need_header' = FALSE /\ match_counter' = 0
    BY DEF Reader!HeaderGoesOn, Reader!HeaderEnds, Reader!parts
  <1>2. boundary_buffer = <<>> /\ read_index \in Reader!Indices
    BY <1>1 DEF RInv, Matched
  <1>3. num_parts' = num_parts
    BY SameMessage DEF vars
  <1>4. SoughtSize /\ SoughtSize'
    BY SoughtSizes, PTL
  <1>5. match_counter' \in Nat /\ match_counter' \in 0..Len(Reader!boundary')
    <2>1. PICK k \in 2..5, j \in 2..5 : k = Len(Reader!boundary) /\ j = Len(Reader!boundary')
      BY <1>4 DEF SoughtSize
    <2>2. match_counter \in 0..k
      BY <2>1 DEF RInv, ReaderTypes
    <2>3. CASE need_header' = need_header /\ match_counter' = match_counter
      <3>1. Reader!boundary' = Reader!boundary
        BY <1>1, <1>3, <2>3 DEF Reader!boundary
      <3> QED
        BY <2>1, <2>2, <2>3, <3>1
    <2>4. CASE match_counter' = 0
      BY <2>1, <2>4
    <2> QED
      BY <1>1, <2>3, <2>4
  <1>6. due' = due
    <2>1. ~Passed
      BY <1>1 DEF Passed
    <2>2. need_header' = need_header => ~Passed'
      <3> SUFFICES ASSUME need_header' = need_header PROVE need_header'
        BY DEF Passed
      <3> QED
        BY <1>1
    <2>3. ASSUME match_counter' = 0 PROVE ~Passed'
      <3>1. ~(match_counter' > 1) /\ ~(match_counter' > 2)
        BY <2>3
      <3> QED
        BY <3>1 DEF Passed
    <2>4. read_index' = read_index
      BY <1>1
    <2>5. ~Passed'
      BY <1>1, <2>2, <2>3
    <2> QED
      BY <2>1, <2>4, <2>5 DEF due
  <1>7. read_index' \in Int /\ read_index' >= read_index
    BY <1>1 DEF RInv, ReaderTypes
  <1>8. need_header' \in BOOLEAN
    BY <1>1
  <1> QED
    BY <1>1, <1>2, <1>5, <1>6, <1>7, <1>8, AdvanceKept DEF RInv, ReaderTypes

LEMMA BoundaryKept ==
  ASSUME WInv, Whole, RInv, Reader!PrefaceEnds \/ Reader!PartEnds, UNCHANGED vars
  PROVE  RInv'
  <1>1. /\ ~need_header /\ match_counter = Len(Reader!boundary) /\ Reader!Advance
        /\ read_index' = read_index + 1 /\ need_header' = (read_index + 1 < num_parts)
        /\ match_counter' = 0 /\ boundary_buffer' = <<>>
        /\ ends' = ends \/ ends' = [ends EXCEPT ![read_index] = @ + 1]
    BY DEF Reader!PrefaceEnds, Reader!PartEnds, Reader!Next_part, Reader!found, Reader!parts
  <1>2. PICK i \in Int, n \in Nat : i = read_index /\ n = num_parts /\ i >= -1
    BY ResponseIs DEF Returned, RInv, ReaderTypes
  <1>3. SoughtSize'
    BY SoughtSizes, PTL
  <1>4. match_counter' \in Nat /\ match_counter' \in 0..Len(Reader!boundary')
    <2>1. PICK j \in 2..5 : j = Len(Reader!boundary')
      BY <1>3 DEF SoughtSize
    <2> QED
      BY <1>1, <2>1
  <1>5. due' = due
    <2>1. Passed
      <3>1. CASE i = -1
        BY <1>1, <1>2, <3>1, Sought DEF Passed
      <3>2. CASE i # -1
        BY <1>1, <1>2, <3>2, Sought DEF Passed
      <3> QED
        BY <3>1, <3>2
    <2>2. ~Passed'
      BY <1>1 DEF Passed
    <2> QED
      BY <1>1, <1>2, <2>1, <2>2 DEF due
  <1>6. read_index' \in Int /\ read_index' >= read_index
    BY <1>1, <1>2
  <1>7. need_header' \in BOOLEAN
    BY <1>1
  <1>8. need_header' => read_index' \in Reader!Indices
    <2>1. i + 1 < n => i + 1 \in 0..(n - 1)
      BY <1>2
    <2> QED
      BY <1>1, <1>2, <2>1 DEF Reader!Indices
  <1>9. ends' \in [Reader!Indices -> Nat]
    <2>1. ends \in [Reader!Indices -> Nat]
      BY DEF RInv, ReaderTypes
    <2>2. CASE ends' = [ends EXCEPT ![read_index] = @ + 1]
      <3>1. CASE read_index \in Reader!Indices
        <4>1. ends[read_index] + 1 \in Nat
          BY <2>1, <3>1
        <4> QED
          BY <2>1, <2>2, <4>1
      <3>2. CASE read_index \notin Reader!Indices
        BY <2>1, <2>2, <3>2
      <3> QED
        BY <3>1, <3>2
    <2> QED
      BY <1>1, <2>1, <2>2
  <1>10. <<>> \in Seq(Kept)
    BY EmptySeq
  <1> QED
    BY <1>1, <1>4, <1>5, <1>6, <1>7, <1>8, <1>9, <1>10, AdvanceKept

LEMMA PartialKept ==
  ASSUME WInv, Whole, RInv, Reader!PartialMatch, UNCHANGED vars
  PROVE  RInv'
  <1>1. /\ ~need_header /\ match_counter # Len(Reader!boundary) /\ match_counter > 0
        /\ Reader!Advance /\ read_index' = read_index /\ need_header' = need_header
        /\ match_counter' = match_counter
    BY DEF Reader!PartialMatch, Reader!found
  <1>2. \E data : Reader!Call(data)
    <2>1. CASE Reader!outside
      BY <2>1 DEF Reader!PartialMatch
    <2>2. CASE ~Reader!outside
      BY <2>2 DEF Reader!PartialMatch
    <2> QED
      BY <2>1, <2>2
  <1>3. ends' \in [Reader!Indices -> Nat]
    BY <1>2, CallCounts
  <1>4. PICK b \in Nat, s \in Nat, l \in Nat, m \in Nat, n \in Nat :
          /\ b = base /\ s = scanned /\ l = limit /\ m = match_counter /\ n = Len(response)
          /\ b + s <= n
    <2>1. PICK k \in 2..5 : k = Len(Reader!boundary)
      BY Sought
    <2>2. match_counter \in Nat
      BY <2>1 DEF RInv, ReaderTypes
    <2>3. Len(response) \in Nat
      BY ResponseIs, LenProperties DEF Returned
    <2>4. base \in Nat /\ scanned \in Nat /\ limit \in Nat
          /\ base + scanned <= limit /\ limit <= Len(response)
      BY DEF RInv, ReaderTypes
    <2>5. base + scanned <= Len(response)
      BY <2>3, <2>4
    <2> QED
      BY <2>2, <2>3, <2>4, <2>5
  <1>5. s > 0
    <2>1. base < limit /\ ~(base + scanned < limit)
      BY <1>1 DEF Reader!Advance, Reader!scanning, Reader!found
    <2> QED
      BY <1>4, <2>1
  <1>6. PICK x \in Seq(Kept) : x = boundary_buffer /\ (x # <<>> => Len(x) <= m - s)
    BY <1>4 DEF RInv, ReaderTypes, Matched
  <1>7. PICK c \in Nat : c = Len(x) /\ (x = <<>> => c = 0) /\ (x # <<>> => c <= m - s)
    BY <1>6, LenProperties
  <1>8. boundary_buffer' \in Seq(Kept) /\ Len(boundary_buffer') <= m
    <2>1. CASE s < m
      <3>1. boundary_buffer' = Join(x, <<<<"outside">>>>)
        BY <1>4, <1>6, <2>1 DEF Reader!PartialMatch, Reader!outside, Reader!buffered, Join
      <3>2. PICK y \in Seq(Kept) : y = <<<<"outside">>>> /\ Len(y) = 1
        <4>1. PICK e \in Kept : e = <<"outside">>
          BY DEF Kept
        <4>2. <<e>> \in Seq(Kept) /\ Len(<<e>>) = 1
          OBVIOUS
        <4> QED
          BY <4>1, <4>2
      <3>3. boundary_buffer' \in Seq(Kept) /\ Len(boundary_buffer') = c + 1
        BY <1>7, <3>1, <3>2, JoinType
      <3>4. c + 1 <= m
        <4>1. CASE x = <<>>
          BY <1>1, <1>4, <1>7, <4>1
        <4>2. CASE x # <<>>
          BY <1>5, <1>7, <4>2
        <4> QED
          BY <4>1, <4>2
      <3> QED
        BY <3>3, <3>4
    <2>2. CASE ~(s < m)
      <3>1. PICK r \in Seq(Symbol) : r = response
        BY ResponseIs DEF Returned
      <3>2. PICK f \in Seq(Symbol) : f = Slice(r, b, s) /\ Len(f) = s
        BY <1>4, <3>1, Cut
      <3>3. PICK a \in Nat : a = s - m /\ a + m = s
        BY <2>2
      <3>4. PICK y \in Seq(Symbol) : y = Slice(f, a, m) /\ Len(y) = m
        BY <3>2, <3>3, Cut
      <3>5. y \in Seq(Kept)
        BY SeqMonotonic DEF Kept
      <3>6. boundary_buffer' = Join(x, y)
        BY <1>4, <1>6, <2>2, <3>1, <3>2, <3>3, <3>4
        DEF Reader!PartialMatch, Reader!outside, Reader!buffered, Reader!First, Join, Slice
      <3>7. boundary_buffer' \in Seq(Kept) /\ Len(boundary_buffer') = c + m
        BY <1>7, <3>4, <3>5, <3>6, JoinType
      <3>8. c + m <= m
        BY <1>7, <2>2
      <3> QED
        BY <3>7, <3>8
    <2> QED
      BY <2>1, <2>2
  <1>9. Reader!boundary' = Reader!boundary
    <2>1. num_parts' = num_parts
      BY SameMessage DEF vars
    <2> QED
      BY <1>1, <2>1 DEF Reader!boundary
  <1>10. due' = due
    BY <1>1 DEF due, Passed
  <1>11. match_counter' \in Nat /\ match_counter' \in 0..Len(Reader!boundary')
    BY <1>1, <1>4, <1>9 DEF RInv, ReaderTypes
  <1>12. read_index' \in Int /\ read_index' >= read_index /\ need_header' \in BOOLEAN
    BY <1>1 DEF RInv, ReaderTypes
  <1>13. ~need_header' /\ Len(boundary_buffer') <= match_counter'
    BY <1>1, <1>4, <1>8
  <1> QED
    BY <1>1, <1>3, <1>8, <1>10, <1>11, <1>12, <1>13, AdvanceKept

LEMMA NoMatchKept ==
  ASSUME WInv, Whole, RInv, Reader!NoMatch, UNCHANGED vars
  PROVE  RInv'
  <1>1. /\ ~need_header /\ match_counter = 0
        /\ Reader!Advance /\ read_index' = read_index /\ need_header' = need_header
        /\ match_counter' = match_counter /\ boundary_buffer' = <<>>
        /\ Reader!Call(Reader!First(limit - base))
    BY DEF Reader!NoMatch
  <1>2. ends' \in [Reader!Indices -> Nat]
    BY <1>1, CallCounts
  <1>3. Reader!boundary' = Reader!boundary
    <2>1. num_parts' = num_parts
      BY SameMessage DEF vars
    <2> QED
      BY <1>1, <2>1 DEF Reader!boundary
  <1>4. due' = due
    BY <1>1 DEF due, Passed
  <1>5. match_counter' \in Nat /\ match_counter' \in 0..Len(Reader!boundary')
    BY <1>1, <1>3 DEF RInv, ReaderTypes
  <1>6. read_index' \in Int /\ read_index' >= read_index /\ need_header' \in BOOLEAN
    BY <1>1 DEF RInv, ReaderTypes
  <1>7. ~need_header' /\ <<>> \in Seq(Kept)
    BY <1>1, EmptySeq
  <1> QED
    BY <1>1, <1>2, <1>4, <1>5, <1>6, <1>7, AdvanceKept

LEMMA StutterKept ==
  ASSUME RInv, UNCHANGED vars, UNCHANGED reader
  PROVE  RInv'
  <1>1. /\ pc' = pc /\ message' = message /\ sent' = sent /\ request_result' = request_result
        /\ read_index' = read_index /\ need_header' = need_header
        /\ match_counter' = match_counter /\ boundary_buffer' = boundary_buffer
        /\ base' = base /\ limit' = limit /\ scanned' = scanned /\ ends' = ends
    BY DEF vars, transfer, reader
  <1>2. response' = response /\ num_parts' = num_parts
    BY <1>1, SameMessage DEF response, delimited
  <1>3. Reader!boundary' = Reader!boundary /\ Reader!Indices' = Reader!Indices /\ due' = due
    BY <1>1, <1>2 DEF Reader!boundary, Reader!Indices, due, Passed
  <1>4. ReaderTypes'
    BY <1>1, <1>2, <1>3 DEF RInv, ReaderTypes
  <1>5. Waiting' /\ Matched' /\ Ahead'
    BY <1>1, <1>2, <1>3 DEF RInv, Waiting, Matched, Ahead, Announces
  <1> QED
    BY <1>4, <1>5 DEF RInv

LEMMA ReaderStep ==
  WInv /\ Whole /\ WInv' /\ Whole' /\ RInv /\ [MultipartNext]_all_vars => RInv'
  <1> SUFFICES ASSUME WInv, Whole, WInv', Whole', RInv, [MultipartNext]_all_vars PROVE RInv'
    OBVIOUS
  <1>1. CASE Reading
    <2>1. UNCHANGED vars /\ Reader!Next
      BY <1>1 DEF Reading
    <2> QED
      BY <2>1, ChunkKept, ScanMatchKept, ScanMismatchKept, HeadersKept, BoundaryKept, PartialKept,
         NoMatchKept DEF Reader!Next
  <1>2. CASE UNCHANGED all_vars
    <2>1. UNCHANGED vars /\ UNCHANGED reader
      BY <1>2 DEF all_vars
    <2> QED
      BY <2>1, StutterKept
  <1>3. CASE Writing(Next)
    <2>1. Next /\ UNCHANGED reader
      BY <1>3 DEF Writing
    <2>2. CASE pc = "ended"
      <3>1. UNCHANGED vars
        BY <2>1, <2>2
        DEF Next, Steps, Prepare, Call, CallBlock, CallUser, CallBlocks, PartCalled, BlocksCopy,
            BlocksReturn, PartGoesOn, PartEnds, PlainPartEnds, Return, PrepareFails,
            CallUserFails, BoundaryFails, Finished
      <3> QED
        BY <2>1, <3>1, StutterKept
    <2>3. CASE pc # "ended"
      <3>1. message' = message
        BY <2>1
        DEF Next, Steps, Prepare, Call, CallBlock, CallUser, CallBlocks, PartCalled, BlocksCopy,
            BlocksReturn, PartGoesOn, PartEnds, PlainPartEnds, Return, PrepareFails,
            CallUserFails, BoundaryFails, Finished, vars
      <3> QED
        BY <2>1, <2>3, <3>1, WritingKept
    <2> QED
      BY <2>2, <2>3
  <1> QED
    BY <1>1, <1>2, <1>3 DEF MultipartNext

\* The library sends and reads a message: every step of the writer is as before.
LEMMA MultipartWrites == MultipartSpec => Spec
  <1>1. MultipartInit => Init
    BY DEF MultipartInit
  <1>2. [MultipartNext]_all_vars => [Next]_vars
    BY DEF MultipartNext, Writing, Reading, all_vars
  <1> QED
    BY <1>1, <1>2, PTL DEF MultipartSpec, Spec

\* Whatever is sent, and however it comes back, the writer and the reader keep their types:
\* the reader never comes to more parts than there are, nor keeps more than a boundary.
THEOREM MultipartTypes == MultipartSpec => []MultipartTypeOK
  <1>1. MultipartSpec => [](WInv /\ Whole)
    BY MultipartWrites, WriterInvariant, PTL
  <1>2. MultipartInit /\ WInv /\ Whole => RInv
    BY ReaderStarts
  <1>3. WInv /\ Whole /\ WInv' /\ Whole' /\ RInv /\ [MultipartNext]_all_vars => RInv'
    BY ReaderStep
  <1>4. MultipartInit => ResultKnown
    BY DEF MultipartInit, Reader!Init, ResultKnown
  <1>5. ResultKnown /\ [MultipartNext]_all_vars => ResultKnown'
    BY ResultKept
  <1>6. WInv /\ Whole /\ RInv /\ ResultKnown => MultipartTypeOK
    BY WriterTypes, ReaderTypesHold DEF MultipartTypeOK
  <1> QED
    BY <1>1, <1>2, <1>3, <1>4, <1>5, <1>6, PTL DEF MultipartSpec
=============================================================================
