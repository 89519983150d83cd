------------------------ MODULE RequestMemoryProofs -------------------------
(***************************************************************************)
(* Proofs about what a request owns, for any tree of parts, of any depth,  *)
(* to write and to read, and any failures among those the code recovers    *)
(* from.                                                                   *)
(*                                                                         *)
(* The inductive invariant IInv follows the recursion: which parts have    *)
(* been come to (Order), and for each of them whose its argument is        *)
(* (Arguments), what has been allocated for it (Structures) and that all   *)
(* that is allocated is where the cleanup looks for it (Pieced, Above).    *)
(***************************************************************************)
EXTENDS RequestMemory, SequenceTheorems, TLAPS

\* The first part of a path, up to the k-th index
Up(p, k) == SubSeq(p, 1, k)

\* p is q or a part of it
Under(q, p) == Len(q) <= Len(p) /\ \A j \in 1..Len(q) : q[j] = p[j]

\* p comes before q, and is not above it
Earlier(p, q) ==
  \E k \in 1..Len(q) :
    k <= Len(p) /\ (\A j \in 1..(k - 1) : p[j] = q[j]) /\ p[k] < q[k]

\* The parts that the preparation has come to on the side it is at, and on both
PassedAt(p, q, after) == Under(p, q) \/ Earlier(p, q) \/ (after /\ Under(q, p))
Passed(p) == PassedAt(p, path, stage = "after")
Visited(s, p) == side = "request" \/ (s = "write" /\ side = "read") \/ (s = side /\ Passed(p))

\* The part whose own steps are being made, and those of them that were
Current(s, p) == pc = "prepare" /\ side = s /\ path = p /\ stage = "before"
Made(w) == \E j \in 1..made : steps[j] = w

Library(k) == k \notin {"none", "user"}
AssignedBy(k) == IF k = "gridftp" THEN "mutex" ELSE "arg"

\* The lists of blocks of a data channel
BufferLists(s) ==
  {"free_buffers", "pending_buffers", "registered_buffers"}
  \cup IF s = "read" THEN {"current_buffer"} ELSE {}

\* What is freed with any part; what the argument of one has
Loose(s) == IF s = "write" THEN {"headers", "added"} ELSE {"response_headers"}
Owned(s, k) ==
  (IF s = "write" THEN owned_by_write(k) ELSE owned_by_read(k))
  \cup IF k = "gridftp" THEN BufferLists(s) ELSE {}
OfRequest == {"handle", "complete_uri", "request_headers"}

TypeControl ==
  /\ request \in Requests
  /\ pc \in {"prepare", "run", "cleanup", "done"}
  /\ side \in Sides \cup {"request"} /\ stage \in {"before", "after"}
  /\ IF side = "request" THEN path = <<>> ELSE path \in DOMAIN Tree(side)
  /\ made \in 0..Len(steps)
  /\ DOMAIN args = Sides /\ \A s \in Sides : DOMAIN args[s] = DOMAIN Tree(s)

Order ==
  /\ pc = "prepare" =>
       \A s \in Sides : \A p \in DOMAIN Tree(s) : args[s][p] # "unset" <=> Visited(s, p)
  /\ pc = "run" => \A s \in Sides : \A p \in DOMAIN Tree(s) : args[s][p] # "unset"

Argument(s, p) ==
  /\ args[s][p] \in {"unset", "user", "own", "null"}
  /\ args[s][p] = "user" /\ Library(kind(s, p)) =>
       Current(s, p) /\ ~Made(AssignedBy(kind(s, p)))
  /\ args[s][p] = "own" =>
       Library(kind(s, p)) /\ (Current(s, p) => Made(AssignedBy(kind(s, p))))
  /\ args[s][p] = "null" =>
       s = "read" /\ kind(s, p) = "json" /\ pc \in {"cleanup", "done"}

Arguments == \A s \in Sides : \A p \in DOMAIN Tree(s) : Argument(s, p)

Structure(s, p) ==
  /\ args[s][p] = "own" \/ (Current(s, p) /\ Made("arg")) => Piece("arg", s, p) \in heap
  /\ args[s][p] # "unset" /\ kind(s, p) = "multipart" =>
       \/ Piece("parts", s, p) \in heap
       \/ Current(s, p) /\ ~Made("parts")
       \/ s = "read" /\ pc = "cleanup"

Structures == pc # "done" => \A s \in Sides : \A p \in DOMAIN Tree(s) : Structure(s, p)

Accounted(w, s, p) ==
  IF s = "request" THEN p = <<>> /\ w \in OfRequest
  ELSE /\ s \in Sides /\ p \in DOMAIN Tree(s)
       /\ args[s][p] # "unset"
       /\ w \in Loose(s) \cup Owned(s, kind(s, p))
       /\ w \in Loose(s) \/ args[s][p] = "own" \/ (Current(s, p) /\ Made(w))

Pieced == \A x \in heap : \E w, s, p : x = Piece(w, s, p) /\ Accounted(w, s, p)

\* The messages that a part is in have their arrays
Above ==
  pc # "done" =>
    \A s \in Sides : \A p \in DOMAIN Tree(s) :
      args[s][p] # "unset" => \A k \in 0..(Len(p) - 1) : Piece("parts", s, Up(p, k)) \in heap

\* What the cleanup leaves
Left ==
  \A x \in heap : \E s \in Sides : \E p \in channels(s) : x \in Pieces(not_looked_for(s), s, p)

IInv ==
  /\ TypeControl /\ Order /\ Arguments /\ Structures /\ Pieced /\ Above
  /\ misused = {}
  /\ pc = "done" => Left

----------------------------------------------------------------------------
\* Paths
LEMMA SamePath ==
  ASSUME NEW p \in Seq(Nat), NEW q \in Seq(Nat), Len(p) = Len(q), Under(p, q)
  PROVE  p = q
  BY SeqEqual DEF Under

LEMMA UpProperties ==
  ASSUME NEW p \in Seq(Nat), NEW k \in 0..Len(p)
  PROVE  /\ Up(p, k) \in Seq(Nat)
         /\ Len(Up(p, k)) = k
         /\ \A j \in 1..k : Up(p, k)[j] = p[j]
  <1>1. Len(p) \in Nat /\ \A j \in 1..Len(p) : p[j] \in Nat
    BY LenProperties, ElementOfSeq
  <1>2. k \in Int /\ \A j \in 1..k : p[j] \in Nat
    BY <1>1
  <1>3. /\ SubSeq(p, 1, k) \in Seq(Nat)
        /\ Len(SubSeq(p, 1, k)) = IF 1 <= k THEN k - 1 + 1 ELSE 0
        /\ \A j \in 1..(k - 1 + 1) : SubSeq(p, 1, k)[j] = p[1 + j - 1]
    BY <1>2, SubSeqProperties
  <1>4. k - 1 + 1 = k /\ (~(1 <= k) => k = 0) /\ \A j \in 1..k : 1 + j - 1 = j
    BY <1>1
  <1> QED
    BY <1>3, <1>4 DEF Up

LEMMA Child ==
  ASSUME NEW p \in Seq(Nat), NEW i \in Nat
  PROVE  /\ Append(p, i) \in Seq(Nat)
         /\ Len(p) \in Nat
         /\ Len(Append(p, i)) = Len(p) + 1
         /\ \A j \in 1..Len(p) : Append(p, i)[j] = p[j]
         /\ Append(p, i)[Len(p) + 1] = i
         /\ \A k \in 0..Len(p) : Up(Append(p, i), k) = Up(p, k)
         /\ Front(Append(p, i)) = p
         /\ Last(Append(p, i)) = i
  <1> DEFINE c == Append(p, i)
  <1>1. /\ c \in Seq(Nat) /\ Len(p) \in Nat /\ Len(c) = Len(p) + 1
        /\ \A j \in 1..Len(p) : c[j] = p[j]
        /\ c[Len(p) + 1] = i
    BY AppendProperties, LenProperties
  <1> HIDE DEF c
  <1>2. ASSUME NEW k \in 0..Len(p) PROVE Up(c, k) = Up(p, k)
    <2>1. k \in 0..Len(c)
      BY <1>1
    <2>2. /\ Up(c, k) \in Seq(Nat) /\ Up(p, k) \in Seq(Nat)
          /\ Len(Up(c, k)) = k /\ Len(Up(p, k)) = k
          /\ \A j \in 1..k : Up(c, k)[j] = c[j] /\ Up(p, k)[j] = p[j]
      BY <1>1, <2>1, UpProperties
    <2>3. \A j \in 1..k : j \in 1..Len(p)
      BY <1>1
    <2>4. \A j \in 1..k : Up(c, k)[j] = Up(p, k)[j]
      BY <1>1, <2>2, <2>3
    <2> QED
      BY <2>2, <2>4, SeqEqual
  <1>3. Front(c) = p
    <2>1. Len(c) - 1 = Len(p) /\ Len(p) \in 0..Len(p)
      BY <1>1
    <2>2. Front(c) = Up(p, Len(p))
      BY <1>2, <2>1 DEF Front, Up
    <2> QED
      BY <2>2, SubSeqFull DEF Up
  <1>4. Last(c) = i
    BY <1>1 DEF Last
  <1> QED
    BY <1>1, <1>2, <1>3, <1>4 DEF c

\* A part that is not the root is the child of the one it is in
LEMMA Parent ==
  ASSUME NEW p \in Seq(Nat), p # <<>>
  PROVE  /\ Front(p) \in Seq(Nat) /\ Last(p) \in Nat
         /\ Len(p) \in Nat \ {0}
         /\ Len(Front(p)) = Len(p) - 1
         /\ p = Append(Front(p), Last(p))
         /\ Front(p) = Up(p, Len(p) - 1) /\ Last(p) = p[Len(p)]
  <1>1. Len(p) \in Nat \ {0}
    BY EmptySeq
  <1>2. /\ Front(p) \in Seq(Nat) /\ Len(Front(p)) = Len(p) - 1
        /\ \A j \in 1..(Len(p) - 1) : Front(p)[j] = p[j]
        /\ Front(p) = Up(p, Len(p) - 1)
    <2>1. Len(p) - 1 \in 0..Len(p)
      BY <1>1
    <2> QED
      BY <2>1, UpProperties DEF Front, Up
  <1>3. Last(p) \in Nat /\ Last(p) = p[Len(p)]
    BY <1>1, ElementOfSeq DEF Last
  <1>4. /\ Append(Front(p), Last(p)) \in Seq(Nat)
        /\ Len(Append(Front(p), Last(p))) = Len(p)
        /\ \A j \in 1..(Len(p) - 1) : Append(Front(p), Last(p))[j] = Front(p)[j]
        /\ Append(Front(p), Last(p))[Len(p)] = Last(p)
    <2>1. (Len(p) - 1) + 1 = Len(p)
      BY <1>1
    <2> QED
      BY <1>2, <1>3, <2>1, Child
  <1>5. \A j \in 1..Len(p) : Append(Front(p), Last(p))[j] = p[j]
    <2>1. \A j \in 1..Len(p) : j = Len(p) \/ j \in 1..(Len(p) - 1)
      BY <1>1
    <2> QED
      BY <1>2, <1>3, <1>4, <2>1
  <1>6. p = Append(Front(p), Last(p))
    BY <1>4, <1>5, SeqEqual
  <1> QED
    BY <1>1, <1>2, <1>3, <1>6

----------------------------------------------------------------------------
\* The order of the preparation, over one tree
LEMMA TreeFacts ==
  ASSUME NEW tree, NEW kinds, IsTree(tree, kinds), NEW p \in DOMAIN tree
  PROVE  /\ p \in Seq(Nat) /\ Len(p) \in Nat
         /\ \A k \in 1..Len(p) : p[k] \in Nat /\ p[k] >= 1
         /\ tree[p] \in Node(kinds) /\ tree[p].parts \in Nat
         /\ tree[p].parts > 0 => tree[p].kind = "multipart"
         /\ \A i \in 1..tree[p].parts : Append(p, i) \in DOMAIN tree
         /\ \A k \in 0..(Len(p) - 1) :
              Up(p, k) \in DOMAIN tree /\ p[k + 1] \in 1..tree[Up(p, k)].parts
  <1>1. p \in Seq(Nat) /\ Len(p) \in Nat
    BY LenProperties DEF IsTree
  <1>2. tree[p] \in Node(kinds) /\ tree[p].parts \in Nat
    BY DEF IsTree, Node
  <1>3. ASSUME NEW k \in 1..Len(p) PROVE p[k] \in Nat /\ p[k] >= 1
    <2>1. SubSeq(p, 1, k - 1) \in DOMAIN tree /\ p[k] \in 1..tree[SubSeq(p, 1, k - 1)].parts
      BY DEF IsTree
    <2>2. tree[SubSeq(p, 1, k - 1)].parts \in Nat
      BY <2>1 DEF IsTree, Node
    <2> QED
      BY <2>1, <2>2
  <1>4. ASSUME NEW k \in 0..(Len(p) - 1)
        PROVE  Up(p, k) \in DOMAIN tree /\ p[k + 1] \in 1..tree[Up(p, k)].parts
    <2>1. k + 1 \in 1..Len(p) /\ (k + 1) - 1 = k
      BY <1>1
    <2> QED
      BY <2>1 DEF IsTree, Up
  <1> QED
    BY <1>1, <1>2, <1>3, <1>4 DEF IsTree

LEMMA PassRoot ==
  ASSUME NEW p \in Seq(Nat)
  PROVE  PassedAt(p, <<>>, TRUE) /\ (PassedAt(p, <<>>, FALSE) <=> p = <<>>)
  <1>1. Len(p) \in Nat /\ Len(<<>>) = 0 /\ (p # <<>> => Len(p) # 0)
    BY LenProperties, EmptySeq
  <1> QED
    BY <1>1 DEF PassedAt, Under, Earlier

\* A part of a part is the one itself, or below one of its children
LEMMA Below ==
  ASSUME NEW tree, NEW kinds, IsTree(tree, kinds),
         NEW c \in DOMAIN tree, NEW p \in DOMAIN tree, Under(c, p)
  PROVE  p = c \/ (Len(c) + 1 <= Len(p) /\ p[Len(c) + 1] \in 1..tree[c].parts)
  <1>1. c \in Seq(Nat) /\ Len(c) \in Nat /\ p \in Seq(Nat) /\ Len(p) \in Nat
    BY TreeFacts
  <1>2. CASE Len(c) = Len(p)
    BY <1>1, <1>2, SamePath
  <1>3. CASE Len(c) # Len(p)
    <2>1. Len(c) \in 0..(Len(p) - 1) /\ Len(c) \in 0..Len(p)
      BY <1>1, <1>3 DEF Under
    <2>2. /\ Up(p, Len(c)) \in Seq(Nat) /\ Len(Up(p, Len(c))) = Len(c)
          /\ \A j \in 1..Len(c) : Up(p, Len(c))[j] = p[j]
      BY <1>1, <2>1, UpProperties
    <2>3. Up(p, Len(c)) = c
      BY <1>1, <2>2, SeqEqual DEF Under
    <2>4. p[Len(c) + 1] \in 1..tree[Up(p, Len(c))].parts
      BY <2>1, TreeFacts
    <2> QED
      BY <1>1, <2>1, <2>3, <2>4
  <1> QED
    BY <1>2, <1>3

\* A part without parts: nothing is passed by leaving it
LEMMA PassLeaf ==
  ASSUME NEW tree, NEW kinds, IsTree(tree, kinds),
         NEW c \in DOMAIN tree, NEW p \in DOMAIN tree, tree[c].parts = 0
  PROVE  PassedAt(p, c, TRUE) <=> PassedAt(p, c, FALSE)
  <1>1. Under(c, p) => p = c
    BY Below
  <1>2. p = c => Under(p, c)
    BY TreeFacts DEF Under
  <1> QED
    BY <1>1, <1>2 DEF PassedAt

\* What comes before a child comes before its message, or is below an elder child
LEMMA EarlierChild ==
  ASSUME NEW q \in Seq(Nat), NEW i \in Nat, NEW p \in Seq(Nat)
  PROVE  Earlier(p, Append(q, i)) <=>
           \/ Earlier(p, q)
           \/ Under(q, p) /\ Len(q) + 1 <= Len(p) /\ p[Len(q) + 1] < i
  <1> DEFINE d == Append(q, i)
  <1>1. /\ d \in Seq(Nat) /\ Len(q) \in Nat /\ Len(d) = Len(q) + 1
        /\ \A j \in 1..Len(q) : d[j] = q[j]
        /\ d[Len(q) + 1] = i
        /\ Len(p) \in Nat
    BY Child, LenProperties
  <1> HIDE DEF d
  <1>2. ASSUME Earlier(p, d), ~Earlier(p, q)
        PROVE  Under(q, p) /\ Len(q) + 1 <= Len(p) /\ p[Len(q) + 1] < i
    <2>1. PICK k \in 1..Len(d) :
            k <= Len(p) /\ (\A j \in 1..(k - 1) : p[j] = d[j]) /\ p[k] < d[k]
      BY <1>2 DEF Earlier
    <2>2. CASE k = Len(q) + 1
      <3>1. \A j \in 1..Len(q) : p[j] = q[j]
        BY <1>1, <2>1, <2>2
      <3>2. p[Len(q) + 1] < i /\ Len(q) + 1 <= Len(p)
        BY <1>1, <2>1, <2>2
      <3>3. Len(q) <= Len(p)
        BY <1>1, <3>2
      <3>4. Under(q, p)
        BY <3>1, <3>3 DEF Under
      <3> QED
        BY <3>2, <3>4
    <2>3. CASE k # Len(q) + 1
      <3> DEFINE n == Len(q)
      <3>1. n \in Nat /\ k \in 1..(n + 1) /\ k # n + 1
        BY <1>1, <2>3
      <3> HIDE DEF n
      <3>2. k \in 1..n /\ \A j \in 1..(k - 1) : j \in 1..n
        BY <3>1
      <3>3. k \in 1..Len(q) /\ \A j \in 1..(k - 1) : j \in 1..Len(q)
        BY <3>2 DEF n
      <3> QED
        BY <1>1, <1>2, <2>1, <3>3 DEF Earlier
    <2> QED
      BY <2>2, <2>3
  <1>3. ASSUME Earlier(p, q) PROVE Earlier(p, d)
    <2>1. PICK k \in 1..Len(q) :
            k <= Len(p) /\ (\A j \in 1..(k - 1) : p[j] = q[j]) /\ p[k] < q[k]
      BY <1>3 DEF Earlier
    <2>2. k \in 1..Len(d) /\ \A j \in 1..(k - 1) : j \in 1..Len(q)
      BY <1>1, <2>1
    <2> QED
      BY <1>1, <2>1, <2>2 DEF Earlier
  <1>4. ASSUME Under(q, p), Len(q) + 1 <= Len(p), p[Len(q) + 1] < i
        PROVE  Earlier(p, d)
    <2> DEFINE k == Len(q) + 1
    <2>1. k \in 1..Len(d) /\ k <= Len(p) /\ p[k] < d[k]
      BY <1>1, <1>4
    <2>2. \A j \in 1..(k - 1) : p[j] = d[j]
      BY <1>1, <1>4 DEF Under
    <2> HIDE DEF k
    <2> QED
      BY <2>1, <2>2 DEF Earlier
  <1> QED
    BY <1>2, <1>3, <1>4 DEF d

\* What is above a child, or below it
LEMMA UnderChild ==
  ASSUME NEW q \in Seq(Nat), NEW i \in Nat, NEW p \in Seq(Nat)
  PROVE  /\ Under(p, Append(q, i)) <=> Under(p, q) \/ p = Append(q, i)
         /\ Under(Append(q, i), p) <=>
              Under(q, p) /\ Len(q) + 1 <= Len(p) /\ p[Len(q) + 1] = i
  <1> DEFINE d == Append(q, i)
  <1>1. /\ d \in Seq(Nat) /\ Len(q) \in Nat /\ Len(d) = Len(q) + 1
        /\ \A j \in 1..Len(q) : d[j] = q[j]
        /\ d[Len(q) + 1] = i
        /\ Len(p) \in Nat
    BY Child, LenProperties
  <1> HIDE DEF d
  <1>2. Under(p, d) /\ Len(p) = Len(d) => p = d
    BY <1>1, SamePath
  <1>3. Under(p, d) /\ Len(p) # Len(d) => Under(p, q)
    BY <1>1 DEF Under
  <1>4. Under(p, q) => Under(p, d)
    BY <1>1 DEF Under
  <1>5. p = d => Under(p, d)
    BY <1>1 DEF Under
  <1>6. Under(d, p) => Under(q, p) /\ Len(q) + 1 <= Len(p) /\ p[Len(q) + 1] = i
    BY <1>1 DEF Under
  <1>7. ASSUME Under(q, p), Len(q) + 1 <= Len(p), p[Len(q) + 1] = i PROVE Under(d, p)
    <2>1. \A j \in 1..Len(d) : j \in 1..Len(q) \/ j = Len(q) + 1
      BY <1>1
    <2> QED
      BY <1>1, <1>7, <2>1 DEF Under
  <1> QED
    BY <1>2, <1>3, <1>4, <1>5, <1>6, <1>7 DEF d

\* Down: nothing is passed but the first part itself
LEMMA PassDown ==
  ASSUME NEW c \in Seq(Nat), NEW p \in Seq(Nat),
         \A k \in 1..Len(p) : p[k] \in Nat /\ p[k] >= 1
  PROVE  PassedAt(p, Append(c, 1), FALSE) <=> PassedAt(p, c, FALSE) \/ p = Append(c, 1)
  <1>1. /\ Under(p, Append(c, 1)) <=> Under(p, c) \/ p = Append(c, 1)
        /\ Earlier(p, Append(c, 1)) <=>
             \/ Earlier(p, c)
             \/ Under(c, p) /\ Len(c) + 1 <= Len(p) /\ p[Len(c) + 1] < 1
    BY UnderChild, EarlierChild
  <1>2. Len(c) + 1 <= Len(p) => ~(p[Len(c) + 1] < 1)
    <2>1. Len(c) \in Nat /\ Len(p) \in Nat
      BY LenProperties
    <2>2. Len(c) + 1 <= Len(p) => Len(c) + 1 \in 1..Len(p)
      BY <2>1
    <2>3. ASSUME NEW n \in Nat, n >= 1 PROVE ~(n < 1)
      BY <2>3
    <2> QED
      BY <2>2, <2>3
  <1> QED
    BY <1>1, <1>2 DEF PassedAt

\* Across: a part and all below it are passed, and the next one is come to
LEMMA PassAcross ==
  ASSUME NEW q \in Seq(Nat), NEW i \in Nat, NEW p \in Seq(Nat)
  PROVE  PassedAt(p, Append(q, i + 1), FALSE) <=>
           PassedAt(p, Append(q, i), TRUE) \/ p = Append(q, i + 1)
  <1>1. i + 1 \in Nat /\ Len(q) \in Nat
    BY LenProperties
  <1>2. Len(q) + 1 <= Len(p) => p[Len(q) + 1] \in Nat
    <2>1. Len(p) \in Nat
      BY LenProperties
    <2>2. Len(q) + 1 <= Len(p) => Len(q) + 1 \in 1..Len(p)
      BY <1>1, <2>1
    <2> QED
      BY <2>2, ElementOfSeq
  <1>3. /\ Under(p, Append(q, i + 1)) <=> Under(p, q) \/ p = Append(q, i + 1)
        /\ Earlier(p, Append(q, i + 1)) <=>
             \/ Earlier(p, q)
             \/ Under(q, p) /\ Len(q) + 1 <= Len(p) /\ p[Len(q) + 1] < i + 1
    BY <1>1, UnderChild, EarlierChild
  <1>4. /\ Under(p, Append(q, i)) <=> Under(p, q) \/ p = Append(q, i)
        /\ Under(Append(q, i), p) <=>
             Under(q, p) /\ Len(q) + 1 <= Len(p) /\ p[Len(q) + 1] = i
        /\ Earlier(p, Append(q, i)) <=>
             \/ Earlier(p, q)
             \/ Under(q, p) /\ Len(q) + 1 <= Len(p) /\ p[Len(q) + 1] < i
    BY UnderChild, EarlierChild
  <1>5. p = Append(q, i) => Under(Append(q, i), p)
    BY Child DEF Under
  <1>6. Len(q) + 1 <= Len(p) =>
          (p[Len(q) + 1] < i + 1 <=> p[Len(q) + 1] < i \/ p[Len(q) + 1] = i)
    BY <1>2
  <1> QED
    BY <1>3, <1>4, <1>5, <1>6 DEF PassedAt

\* Up: with the last part of a message, all of it is passed
LEMMA PassUp ==
  ASSUME NEW tree, NEW kinds, IsTree(tree, kinds),
         NEW q \in DOMAIN tree, NEW i \in Nat, NEW p \in DOMAIN tree,
         ~(i < tree[q].parts)
  PROVE  PassedAt(p, q, TRUE) <=> PassedAt(p, Append(q, i), TRUE) \/ p = q
  <1>1. q \in Seq(Nat) /\ p \in Seq(Nat) /\ tree[q].parts \in Nat
    BY TreeFacts
  <1>2. Under(q, p) =>
          p = q \/ (Len(q) + 1 <= Len(p) /\ p[Len(q) + 1] \in 1..tree[q].parts)
    BY Below
  <1>3. p[Len(q) + 1] \in 1..tree[q].parts => p[Len(q) + 1] < i \/ p[Len(q) + 1] = i
    BY <1>1
  <1>4. /\ Under(p, Append(q, i)) <=> Under(p, q) \/ p = Append(q, i)
        /\ Under(Append(q, i), p) <=>
             Under(q, p) /\ Len(q) + 1 <= Len(p) /\ p[Len(q) + 1] = i
        /\ Earlier(p, Append(q, i)) <=>
             \/ Earlier(p, q)
             \/ Under(q, p) /\ Len(q) + 1 <= Len(p) /\ p[Len(q) + 1] < i
    BY <1>1, UnderChild, EarlierChild
  <1>5. p = q => Under(q, p)
    BY <1>1, LenProperties DEF Under
  <1>6. p = Append(q, i) => Under(q, p)
    BY <1>1, Child DEF Under
  <1> QED
    BY <1>2, <1>3, <1>4, <1>5, <1>6 DEF PassedAt

\* The part that is come to was not passed
LEMMA NewChild ==
  ASSUME NEW q \in Seq(Nat), NEW i \in Nat
  PROVE  /\ ~PassedAt(Append(q, i), q, FALSE)
         /\ ~PassedAt(Append(q, i + 1), Append(q, i), TRUE)
  <1> DEFINE d == Append(q, i)
             e == Append(q, i + 1)
  <1>1. /\ d \in Seq(Nat) /\ Len(q) \in Nat /\ Len(d) = Len(q) + 1
        /\ \A j \in 1..Len(q) : d[j] = q[j]
        /\ d[Len(q) + 1] = i
    BY Child
  <1>2. /\ e \in Seq(Nat) /\ Len(e) = Len(q) + 1
        /\ \A j \in 1..Len(q) : e[j] = q[j]
        /\ e[Len(q) + 1] = i + 1
    <2>1. i + 1 \in Nat
      OBVIOUS
    <2> QED
      BY <2>1, Child
  <1>3. \A j \in 1..Len(q) : q[j] \in Nat
    BY ElementOfSeq
  <1> HIDE DEF d, e
  <1>4. ~Under(d, q) /\ ~Under(e, d) /\ ~Under(d, e)
    <2>1. Len(q) + 1 \in 1..Len(d) /\ Len(q) + 1 \in 1..Len(e)
      BY <1>1, <1>2
    <2>2. e[Len(q) + 1] # d[Len(q) + 1]
      BY <1>1, <1>2
    <2>3. ~Under(e, d) /\ ~Under(d, e)
      BY <2>1, <2>2 DEF Under
    <2>4. ~Under(d, q)
      BY <1>1 DEF Under
    <2> QED
      BY <2>3, <2>4
  <1>5. ~Earlier(d, q)
    BY <1>1, <1>3 DEF Earlier
  <1>6. ~Earlier(e, d)
    <2> SUFFICES ASSUME NEW k \in 1..Len(d), e[k] < d[k] PROVE FALSE
      BY DEF Earlier
    <2>1. k \in 1..Len(q) \/ k = Len(q) + 1
      BY <1>1
    <2> QED
      BY <1>1, <1>2, <1>3, <2>1
  <1> QED
    BY <1>4, <1>5, <1>6 DEF PassedAt, d, e

----------------------------------------------------------------------------
\* The steps of one part
\* What is true of the steps of any part before its own parts: they make pieces that
\* the cleanup knows, the argument becomes the library's exactly where there is one, its
\* structure is there by then, and a message gets its array
Orderly(s, k, w) ==
  /\ Len(w) \in Nat
  /\ \A j \in 1..Len(w) :
       /\ w[j] \in {"headers", "added"} \cup Owned(s, k)
       /\ s = "read" => w[j] \in Owned(s, k)
       /\ w[j] # "current_boundary"
       /\ w[j] = AssignedBy(k) => Library(k)
       /\ w[j] = "mutex" => \E i \in 1..(j - 1) : w[i] = "arg"
  /\ Library(k) => \E j \in 1..Len(w) : w[j] = AssignedBy(k)
  /\ k = "multipart" => \E j \in 1..Len(w) : w[j] = "parts"

Word == {"headers", "added", "arg", "blocks", "text", "mutex", "boundary", "parts"}

LEMMA Words ==
  ASSUME NEW S, NEW a \in S, NEW b \in S, NEW c \in S, NEW d \in S
  PROVE  /\ <<>> \in Seq(S) /\ Len(<<>>) = 0
         /\ <<a>> \in Seq(S) /\ Len(<<a>>) = 1 /\ <<a>>[1] = a
         /\ <<a, b>> \in Seq(S) /\ Len(<<a, b>>) = 2
         /\ <<a, b>>[1] = a /\ <<a, b>>[2] = b
         /\ <<a, b, c>> \in Seq(S) /\ Len(<<a, b, c>>) = 3
         /\ <<a, b, c>>[1] = a /\ <<a, b, c>>[2] = b /\ <<a, b, c>>[3] = c
         /\ <<a, b, c, d>> \in Seq(S) /\ Len(<<a, b, c, d>>) = 4
         /\ <<a, b, c, d>>[1] = a /\ <<a, b, c, d>>[2] = b
         /\ <<a, b, c, d>>[3] = c /\ <<a, b, c, d>>[4] = d
  <1>1. /\ <<>> \in Seq(S) /\ Len(<<>>) = 0
        /\ <<a>> \in Seq(S) /\ Len(<<a>>) = 1 /\ <<a>>[1] = a
    OBVIOUS
  <1>2. /\ <<a, b>> \in Seq(S) /\ Len(<<a, b>>) = 2
        /\ <<a, b>>[1] = a /\ <<a, b>>[2] = b
    OBVIOUS
  <1>3. /\ <<a, b, c>> \in Seq(S) /\ Len(<<a, b, c>>) = 3
        /\ <<a, b, c>>[1] = a /\ <<a, b, c>>[2] = b /\ <<a, b, c>>[3] = c
    OBVIOUS
  <1>4. /\ <<a, b, c, d>> \in Seq(S) /\ Len(<<a, b, c, d>>) = 4
        /\ <<a, b, c, d>>[1] = a /\ <<a, b, c, d>>[2] = b
        /\ <<a, b, c, d>>[3] = c /\ <<a, b, c, d>>[4] = d
    OBVIOUS
  <1> QED
    BY <1>1, <1>2, <1>3, <1>4

LEMMA KindSteps ==
  ASSUME NEW node \in Node(WriteKinds)
  PROVE  Orderly("write", node.kind, kind_steps(node)) /\ kind_steps(node) \in Seq(Word)
  <1> DEFINE k == node.kind
             t == node.content_type
  <1>1. k \in WriteKinds /\ t \in {"none", "multipart", "other"}
    BY DEF Node
  <1>2. CASE k \in {"none", "user"}
    <2>1. PICK w : w = <<>>
      OBVIOUS
    <2>2. kind_steps(node) = w
      BY <1>2, <2>1 DEF kind_steps
    <2>3. w \in Seq(Word) /\ Len(w) = 0
      BY <2>1, Words DEF Word
    <2> QED
      BY <1>2, <2>2, <2>3 DEF Orderly, Library
  <1>3. CASE k = "block"
    <2>1. PICK w : w = <<"arg">>
      OBVIOUS
    <2>2. kind_steps(node) = w
      BY <1>3, <2>1 DEF kind_steps
    <2>3. w \in Seq(Word) /\ Len(w) = 1 /\ w[1] = "arg"
      BY <2>1, Words DEF Word
    <2> QED
      BY <1>3, <2>2, <2>3 DEF Orderly, Library, AssignedBy, Owned, owned_by_write
  <1>4. CASE k = "blocks"
    <2>1. PICK w : w = <<"blocks", "arg">>
      OBVIOUS
    <2>2. kind_steps(node) = w
      BY <1>4, <2>1 DEF kind_steps
    <2>3. w \in Seq(Word) /\ Len(w) = 2 /\ w[1] = "blocks" /\ w[2] = "arg"
      BY <2>1, Words DEF Word
    <2> QED
      BY <1>4, <2>2, <2>3 DEF Orderly, Library, AssignedBy, Owned, owned_by_write
  <1>5. CASE k \in {"json", "form"}
    <2>1. PICK w : w = <<"text", "arg", "added">>
      OBVIOUS
    <2>2. kind_steps(node) = w
      BY <1>5, <2>1 DEF kind_steps
    <2>3. w \in Seq(Word) /\ Len(w) = 3 /\ w[1] = "text" /\ w[2] = "arg" /\ w[3] = "added"
      BY <2>1, Words DEF Word
    <2> QED
      BY <1>5, <2>2, <2>3 DEF Orderly, Library, AssignedBy, Owned, owned_by_write
  <1>6. CASE k = "gridftp"
    <2>1. PICK w : w = <<"arg", "mutex">>
      OBVIOUS
    <2>2. kind_steps(node) = w
      BY <1>6, <2>1 DEF kind_steps
    <2>3. w \in Seq(Word) /\ Len(w) = 2 /\ w[1] = "arg" /\ w[2] = "mutex"
      BY <2>1, Words DEF Word
    <2> QED
      BY <1>6, <2>2, <2>3 DEF Orderly, Library, AssignedBy, Owned, owned_by_write
  <1>7. CASE k = "multipart"
    <2>1. CASE t = "none"
      <3>1. PICK w : w = <<"arg", "boundary", "added", "parts">>
        OBVIOUS
      <3>2. kind_steps(node) = w
        BY <1>7, <2>1, <3>1 DEF kind_steps
      <3>3. /\ w \in Seq(Word) /\ Len(w) = 4
            /\ w[1] = "arg" /\ w[2] = "boundary" /\ w[3] = "added" /\ w[4] = "parts"
        BY <3>1, Words DEF Word
      <3> QED
        BY <1>7, <3>2, <3>3 DEF Orderly, Library, AssignedBy, Owned, owned_by_write
    <2>2. CASE t = "multipart"
      <3>1. PICK w : w = <<"arg", "boundary", "parts">>
        OBVIOUS
      <3>2. kind_steps(node) = w
        BY <1>7, <2>2, <3>1 DEF kind_steps
      <3>3. /\ w \in Seq(Word) /\ Len(w) = 3
            /\ w[1] = "arg" /\ w[2] = "boundary" /\ w[3] = "parts"
        BY <3>1, Words DEF Word
      <3> QED
        BY <1>7, <3>2, <3>3 DEF Orderly, Library, AssignedBy, Owned, owned_by_write
    <2>3. CASE t = "other"
      <3>1. PICK w : w = <<"arg", "parts">>
        OBVIOUS
      <3>2. kind_steps(node) = w
        BY <1>7, <2>3, <3>1 DEF kind_steps
      <3>3. w \in Seq(Word) /\ Len(w) = 2 /\ w[1] = "arg" /\ w[2] = "parts"
        BY <3>1, Words DEF Word
      <3> QED
        BY <1>7, <3>2, <3>3 DEF Orderly, Library, AssignedBy, Owned, owned_by_write
    <2> QED
      BY <1>1, <2>1, <2>2, <2>3
  <1> QED
    BY <1>1, <1>2, <1>3, <1>4, <1>5, <1>6, <1>7 DEF WriteKinds

LEMMA WriteSteps ==
  ASSUME NEW node \in Node(WriteKinds)
  PROVE  Orderly("write", node.kind, write_steps(node))
  <1> DEFINE k == node.kind
             w == kind_steps(node)
             x == write_steps(node)
  <1>1. Orderly("write", k, w) /\ w \in Seq(Word)
    BY KindSteps
  <1>2. CASE ~node.headers
    <2>1. x = <<>> \o w
      BY <1>2 DEF write_steps
    <2> QED
      BY <1>1, <2>1, ConcatEmptySeq
  <1>3. CASE node.headers
    <2> DEFINE h == <<"headers">>
    <2>1. h \in Seq(Word) /\ Len(h) = 1 /\ h[1] = "headers"
      BY Words DEF Word
    <2>2. x = h \o w
      BY <1>3, <2>1 DEF write_steps
    <2> HIDE DEF w, x, h
    <2>3. /\ Len(w) \in Nat /\ Len(x) = 1 + Len(w)
          /\ \A i \in 1..(1 + Len(w)) : x[i] = IF i <= 1 THEN h[i] ELSE w[i - 1]
      <3>1. w \in Seq(Word)
        BY <1>1
      <3>2. /\ Len(h \o w) = Len(h) + Len(w)
            /\ \A i \in 1..(Len(h) + Len(w)) :
                 (h \o w)[i] = IF i <= Len(h) THEN h[i] ELSE w[i - Len(h)]
        BY <2>1, <3>1, ConcatProperties
      <3>3. Len(w) \in Nat
        BY <3>1, LenProperties
      <3> QED
        BY <2>1, <2>2, <3>2, <3>3
    <2>4. x[1] = "headers" /\ \A j \in 1..Len(w) : j + 1 \in 1..Len(x) /\ x[j + 1] = w[j]
      BY <2>1, <2>3
    <2>5. \A i \in 1..Len(x) : i = 1 \/ (i - 1 \in 1..Len(w) /\ x[i] = w[i - 1])
      BY <2>3
    <2>6. ASSUME NEW i \in 1..Len(x)
          PROVE  /\ x[i] \in {"headers", "added"} \cup Owned("write", k)
                 /\ x[i] # "current_boundary"
                 /\ x[i] = AssignedBy(k) => Library(k)
                 /\ x[i] = "mutex" => \E j \in 1..(i - 1) : x[j] = "arg"
      <3>1. CASE i = 1
        BY <2>4, <3>1 DEF AssignedBy
      <3>2. CASE i # 1
        <4>1. i - 1 \in 1..Len(w) /\ x[i] = w[i - 1]
          BY <2>5, <3>2
        <4>2. /\ w[i - 1] \in {"headers", "added"} \cup Owned("write", k)
              /\ w[i - 1] # "current_boundary"
              /\ w[i - 1] = AssignedBy(k) => Library(k)
              /\ w[i - 1] = "mutex" => \E j \in 1..((i - 1) - 1) : w[j] = "arg"
          BY <1>1, <4>1 DEF Orderly
        <4>3. ASSUME NEW j \in 1..((i - 1) - 1), w[j] = "arg"
              PROVE  j + 1 \in 1..(i - 1) /\ x[j + 1] = "arg"
          BY <2>3, <2>4, <4>1, <4>3
        <4> QED
          BY <4>1, <4>2, <4>3
      <3> QED
        BY <3>1, <3>2
    <2>7. Library(k) => \E i \in 1..Len(x) : x[i] = AssignedBy(k)
      BY <1>1, <2>4 DEF Orderly
    <2>8. k = "multipart" => \E i \in 1..Len(x) : x[i] = "parts"
      BY <1>1, <2>4 DEF Orderly
    <2>9. Len(x) \in Nat
      BY <2>3
    <2> HIDE DEF k
    <2>10. Orderly("write", k, x)
      BY <2>6, <2>7, <2>8, <2>9 DEF Orderly
    <2> QED
      BY <2>10 DEF x, k
  <1> QED
    BY <1>2, <1>3

LEMMA ReadSteps ==
  ASSUME NEW node \in Node(ReadKinds)
  PROVE  /\ Orderly("read", node.kind, read_steps(node))
         /\ node.kind \in {"json", "multipart"} => read_steps(node)[1] = "arg"
         /\ node.kind \in {"none", "user"} => Len(read_steps(node)) = 0
         /\ node.kind = "json" => Len(read_steps(node)) = 1
         /\ node.kind = "multipart" => Len(read_steps(node)) = 2
  <1> DEFINE k == node.kind
  <1>1. k \in ReadKinds
    BY DEF Node
  <1>2. CASE k \in {"none", "user"}
    <2>1. PICK w : w = <<>>
      OBVIOUS
    <2>2. read_steps(node) = w
      BY <1>2, <2>1 DEF read_steps
    <2>3. w \in Seq(Word) /\ Len(w) = 0
      BY <2>1, Words DEF Word
    <2> QED
      BY <1>2, <2>2, <2>3 DEF Orderly, Library
  <1>3. CASE k = "json"
    <2>1. PICK w : w = <<"arg">>
      OBVIOUS
    <2>2. read_steps(node) = w
      BY <1>3, <2>1 DEF read_steps
    <2>3. w \in Seq(Word) /\ Len(w) = 1 /\ w[1] = "arg"
      BY <2>1, Words DEF Word
    <2> QED
      BY <1>3, <2>2, <2>3 DEF Orderly, Library, AssignedBy, Owned, owned_by_read
  <1>4. CASE k = "gridftp"
    <2>1. PICK w : w = <<"arg", "mutex">>
      OBVIOUS
    <2>2. read_steps(node) = w
      BY <1>4, <2>1 DEF read_steps
    <2>3. w \in Seq(Word) /\ Len(w) = 2 /\ w[1] = "arg" /\ w[2] = "mutex"
      BY <2>1, Words DEF Word
    <2> QED
      BY <1>4, <2>2, <2>3 DEF Orderly, Library, AssignedBy, Owned, owned_by_read
  <1>5. CASE k = "multipart"
    <2>1. PICK w : w = <<"arg", "parts">>
      OBVIOUS
    <2>2. read_steps(node) = w
      BY <1>5, <2>1 DEF read_steps
    <2>3. w \in Seq(Word) /\ Len(w) = 2 /\ w[1] = "arg" /\ w[2] = "parts"
      BY <2>1, Words DEF Word
    <2> QED
      BY <1>5, <2>2, <2>3 DEF Orderly, Library, AssignedBy, Owned, owned_by_read
  <1> QED
    BY <1>1, <1>2, <1>3, <1>4, <1>5 DEF ReadKinds

----------------------------------------------------------------------------
\* Where the preparation is
Kinds(s) == IF s = "write" THEN WriteKinds ELSE ReadKinds

LEMMA TreeIs ==
  ASSUME request \in Requests, NEW s \in Sides
  PROVE  IsTree(Tree(s), Kinds(s))
  <1>1. IsTree(request.write, WriteKinds) /\ IsTree(request.read, ReadKinds)
    BY RequestMemoryAssumption
  <1> QED
    BY <1>1 DEF Tree, Kinds, Sides

LEMMA PartIs ==
  ASSUME request \in Requests, NEW s \in Sides, NEW p \in DOMAIN Tree(s)
  PROVE  /\ p \in Seq(Nat) /\ Len(p) \in Nat
         /\ kind(s, p) = Tree(s)[p].kind
         /\ Tree(s)[p] \in Node(Kinds(s))
         /\ parts(s, p) \in Nat
         /\ parts(s, p) > 0 => kind(s, p) = "multipart"
  <1>1. kind(s, p) = Tree(s)[p].kind
    BY DEF kind, Sides
  <1> QED
    BY <1>1, TreeIs, TreeFacts DEF parts

LEMMA StepsBefore ==
  ASSUME TypeControl, side \in Sides, stage = "before"
  PROVE  Orderly(side, kind(side, path), steps)
  <1>1. path \in DOMAIN Tree(side) /\ request \in Requests
    BY DEF TypeControl, Sides
  <1>2. Tree(side)[path] \in Node(Kinds(side)) /\ kind(side, path) = Tree(side)[path].kind
    BY <1>1, PartIs
  <1>3. CASE side = "write"
    <2>1. request.write[path] \in Node(WriteKinds) /\ kind(side, path) = request.write[path].kind
      BY <1>2, <1>3 DEF Tree, Kinds
    <2>2. steps = write_steps(request.write[path])
      BY <1>3 DEF steps
    <2> QED
      BY <1>3, <2>1, <2>2, WriteSteps
  <1>4. CASE side = "read"
    <2>1. request.read[path] \in Node(ReadKinds) /\ kind(side, path) = request.read[path].kind
      BY <1>2, <1>4 DEF Tree, Kinds
    <2>2. steps = read_steps(request.read[path])
      BY <1>4 DEF steps
    <2> QED
      BY <1>4, <2>1, <2>2, ReadSteps
  <1> QED
    BY <1>3, <1>4 DEF Sides

LEMMA StepsAfter ==
  ASSUME TypeControl, side \in Sides, stage = "after"
  PROVE  /\ Len(steps) \in Nat
         /\ made < Len(steps) => /\ side = "write" /\ kind(side, path) = "multipart"
                                 /\ step = "current_boundary"
  <1>1. CASE side = "read"
    <2>1. steps = <<>>
      BY <1>1 DEF steps
    <2>2. Len(steps) = 0
      BY <2>1
    <2> QED
      BY <2>2 DEF TypeControl
  <1>2. CASE side = "write"
    <2>1. steps = write_last(request.write[path]) /\ kind(side, path) = request.write[path].kind
      BY <1>2 DEF steps, kind, Tree
    <2>2. CASE steps = <<>>
      <3>1. Len(steps) = 0
        BY <2>2
      <3> QED
        BY <3>1 DEF TypeControl
    <2>3. CASE steps # <<>>
      <3>1. /\ kind(side, path) = "multipart" /\ steps = <<"current_boundary">>
        BY <2>1, <2>3 DEF write_last
      <3>2. Len(steps) = 1 /\ steps[1] = "current_boundary"
        BY <3>1
      <3>3. made < Len(steps) => made + 1 = 1
        BY <3>2 DEF TypeControl
      <3> QED
        BY <1>2, <3>1, <3>2, <3>3 DEF step
    <2> QED
      BY <2>2, <2>3
  <1> QED
    BY <1>1, <1>2 DEF Sides

LEMMA StepsOfRequest ==
  ASSUME TypeControl, side = "request"
  PROVE  /\ Len(steps) \in Nat
         /\ made < Len(steps) => step \in OfRequest \cup {"method", "thread"}
  <1>1. PICK w : w = request_steps
    OBVIOUS
  <1>2. steps = w
    BY <1>1 DEF steps
  <1>3. /\ Len(w) = 5 /\ w[1] = "handle" /\ w[2] = "complete_uri"
        /\ w[3] = "request_headers" /\ w[4] = "method" /\ w[5] = "thread"
    BY <1>1 DEF request_steps
  <1>4. made < Len(w) => made + 1 \in 1..5
    BY <1>2, <1>3 DEF TypeControl
  <1>5. \A j \in 1..5 : w[j] \in OfRequest \cup {"method", "thread"}
    BY <1>3 DEF OfRequest
  <1> QED
    BY <1>2, <1>3, <1>4, <1>5 DEF step

LEMMA StepsLength ==
  ASSUME TypeControl
  PROVE  Len(steps) \in Nat /\ made \in Nat /\ made <= Len(steps)
  <1>1. Len(steps) \in Nat
    BY StepsBefore, StepsAfter, StepsOfRequest DEF TypeControl, Orderly
  <1> QED
    BY <1>1 DEF TypeControl

----------------------------------------------------------------------------
\* Between the steps: a part that was come to has all it is to have
SettledPart(s, p) ==
  args[s][p] # "unset" =>
    /\ args[s][p] = IF Library(kind(s, p)) THEN "own" ELSE "user"
    /\ args[s][p] = "own" => Piece("arg", s, p) \in heap
    /\ kind(s, p) = "multipart" => Piece("parts", s, p) \in heap
    /\ \A w \in Owned(s, kind(s, p)) : args[s][p] = "own"

Settled == \A s \in Sides : \A p \in DOMAIN Tree(s) : SettledPart(s, p)

LEMMA AllMade ==
  ASSUME IInv, all_made
  PROVE  Settled
  <1> SUFFICES ASSUME NEW s \in Sides, NEW p \in DOMAIN Tree(s), args[s][p] # "unset"
               PROVE  SettledPart(s, p)
    BY DEF Settled, SettledPart
  <1> DEFINE k == kind(s, p)
  <1>1. Argument(s, p) /\ Structure(s, p) /\ pc = "prepare" /\ made = Len(steps)
    BY DEF IInv, Arguments, Structures, all_made
  <1>2. Current(s, p) =>
          /\ Library(k) => Made(AssignedBy(k))
          /\ k = "multipart" => Made("parts")
    <2> SUFFICES ASSUME Current(s, p) PROVE (Library(k) => Made(AssignedBy(k)))
                                           /\ (k = "multipart" => Made("parts"))
      OBVIOUS
    <2>1. Orderly(side, kind(side, path), steps) /\ side = s /\ path = p
      BY StepsBefore DEF IInv, Current, Sides
    <2> QED
      BY <1>1, <2>1 DEF Orderly, Made
  <1>3. args[s][p] # "null"
    BY <1>1 DEF Argument
  <1>4. Library(k) => args[s][p] = "own"
    BY <1>1, <1>2, <1>3 DEF Argument
  <1>5. ~Library(k) => args[s][p] = "user"
    BY <1>1, <1>3 DEF Argument
  <1>6. Owned(s, k) # {} => Library(k)
    BY DEF Owned, owned_by_write, owned_by_read, Library
  <1>7. k = "multipart" => Library(k)
    BY DEF Library
  <1>8. args[s][p] = "own" => Piece("arg", s, p) \in heap
    BY <1>1 DEF Structure
  <1>9. k = "multipart" => Piece("parts", s, p) \in heap
    BY <1>1, <1>2, <1>4, <1>7 DEF Structure
  <1> QED
    BY <1>4, <1>5, <1>6, <1>8, <1>9 DEF SettledPart

\* From there the preparation goes on with a part that has nothing yet, if with any
LEMMA KeepSettled ==
  ASSUME IInv, Settled, pc # "done", heap' = heap, request' = request,
         pc' \in {"prepare", "run", "cleanup"},
         \A s \in Sides : \A p \in DOMAIN Tree(s) :
           \/ args'[s][p] = args[s][p] /\ ~Current(s, p)'
           \/ /\ args[s][p] = "unset" /\ args'[s][p] = "user"
              /\ Current(s, p)' /\ made' = 0
  PROVE  Arguments' /\ Structures' /\ Pieced'
  <1>1. \A s : Tree(s)' = Tree(s)
    BY DEF Tree
  <1>2. \A s, p : kind(s, p)' = kind(s, p)
    BY DEF kind, Tree
  <1>3. made' = 0 => \A w : ~Made(w)'
    BY DEF Made
  <1>4. ASSUME NEW s \in Sides, NEW p \in DOMAIN Tree(s)
        PROVE  Argument(s, p)' /\ Structure(s, p)'
    <2>1. Argument(s, p) /\ SettledPart(s, p)
      BY DEF IInv, Arguments, Settled
    <2>2. CASE args'[s][p] = args[s][p] /\ ~Current(s, p)'
      <3>1. Argument(s, p)'
        BY <1>2, <2>1, <2>2 DEF Argument, SettledPart
      <3>2. Structure(s, p)'
        BY <1>2, <2>1, <2>2 DEF Structure, SettledPart, Piece
      <3> QED
        BY <3>1, <3>2
    <2>3. CASE args'[s][p] = "user" /\ Current(s, p)' /\ made' = 0
      BY <1>3, <2>3 DEF Argument, Structure
    <2> QED
      BY <2>2, <2>3
  <1>5. ASSUME NEW w, NEW s, NEW p, Accounted(w, s, p) PROVE Accounted(w, s, p)'
    <2>1. CASE s = "request"
      BY <1>5, <2>1 DEF Accounted
    <2>2. CASE s # "request"
      <3>1. /\ s \in Sides /\ p \in DOMAIN Tree(s) /\ args[s][p] # "unset"
            /\ w \in Loose(s) \cup Owned(s, kind(s, p))
        BY <1>5, <2>2 DEF Accounted
      <3>2. args'[s][p] = args[s][p]
        BY <3>1
      <3>3. w \in Loose(s) \/ args[s][p] = "own"
        BY <3>1 DEF Settled, SettledPart
      <3> QED
        BY <1>1, <1>2, <2>2, <3>1, <3>2, <3>3 DEF Accounted
    <2> QED
      BY <2>1, <2>2
  <1>6. Arguments' /\ Structures'
    BY <1>1, <1>4 DEF Arguments, Structures
  <1>7. Pieced'
    BY <1>5 DEF IInv, Pieced, Piece
  <1> QED
    BY <1>6, <1>7

\* The preparation comes to a part that it had not come to
LEMMA PrepareStep ==
  ASSUME IInv, all_made, NEW s \in Sides, NEW p \in DOMAIN Tree(s), Prepare(s, p),
         ~Visited(s, p),
         \A t \in Sides : \A q \in DOMAIN Tree(t) :
           Visited(t, q)' <=> Visited(t, q) \/ (t = s /\ q = p),
         \A k \in 0..(Len(p) - 1) : Piece("parts", s, Up(p, k)) \in heap
  PROVE  IInv'
  <1>1. /\ pc = "prepare" /\ pc' = "prepare" /\ request' = request /\ heap' = heap
        /\ side' = s /\ path' = p /\ stage' = "before" /\ made' = 0
        /\ misused' = misused
        /\ args' = [args EXCEPT ![s][p] = "user"]
    BY DEF all_made, Prepare
  <1>2. \A t : Tree(t)' = Tree(t)
    BY <1>1 DEF Tree
  <1>3. DOMAIN args = Sides /\ \A t \in Sides : DOMAIN args[t] = DOMAIN Tree(t)
    BY DEF IInv, TypeControl
  <1>4. /\ DOMAIN args' = Sides /\ \A t \in Sides : DOMAIN args'[t] = DOMAIN Tree(t)
        /\ args'[s][p] = "user"
        /\ \A t \in Sides : \A q \in DOMAIN Tree(t) :
             ~(t = s /\ q = p) => args'[t][q] = args[t][q]
    BY <1>1, <1>3
  <1>5. args[s][p] = "unset"
    BY <1>1 DEF IInv, Order
  <1>6. TypeControl'
    <2>1. Len(steps') \in Nat
      <3>1. Tree(s)[p] \in Node(Kinds(s))
        BY PartIs DEF IInv, TypeControl
      <3>2. CASE s = "write"
        <4>1. steps' = write_steps(request.write[p]) /\ request.write[p] \in Node(WriteKinds)
          BY <1>1, <3>1, <3>2 DEF steps, Tree, Kinds
        <4> QED
          BY <4>1, WriteSteps DEF Orderly
      <3>3. CASE s = "read"
        <4>1. steps' = read_steps(request.read[p]) /\ request.read[p] \in Node(ReadKinds)
          BY <1>1, <3>1, <3>3 DEF steps, Tree, Kinds
        <4> QED
          BY <4>1, ReadSteps DEF Orderly
      <3> QED
        BY <3>2, <3>3 DEF Sides
    <2>2. made' \in 0..Len(steps')
      BY <1>1, <2>1
    <2>3. s # "request"
      BY DEF Sides
    <2> QED
      BY <1>1, <1>2, <1>4, <2>2, <2>3 DEF IInv, TypeControl
  <1>7. Order'
    <2>1. ASSUME NEW t \in Sides, NEW q \in DOMAIN Tree(t)
          PROVE  args'[t][q] # "unset" <=> Visited(t, q)'
      <3>1. args[t][q] # "unset" <=> Visited(t, q)
        BY <1>1 DEF IInv, Order
      <3> QED
        BY <1>4, <3>1
    <2> QED
      BY <1>1, <1>2, <2>1 DEF Order
  <1>8. Arguments' /\ Structures' /\ Pieced'
    <2>1. Settled
      BY AllMade
    <2>2. ASSUME NEW t \in Sides, NEW q \in DOMAIN Tree(t)
          PROVE  \/ args'[t][q] = args[t][q] /\ ~Current(t, q)'
                 \/ /\ args[t][q] = "unset" /\ args'[t][q] = "user"
                    /\ Current(t, q)' /\ made' = 0
      BY <1>1, <1>4, <1>5 DEF Current
    <2>3. pc # "done" /\ pc' \in {"prepare", "run", "cleanup"}
      BY <1>1
    <2> QED
      BY <1>1, <2>1, <2>2, <2>3, KeepSettled
  <1>9. Above'
    <2>1. ASSUME NEW t \in Sides, NEW q \in DOMAIN Tree(t), args'[t][q] # "unset",
                 NEW k \in 0..(Len(q) - 1)
          PROVE  Piece("parts", t, Up(q, k)) \in heap
      <3>1. CASE t = s /\ q = p
        BY <3>1
      <3>2. CASE ~(t = s /\ q = p)
        BY <1>1, <1>4, <2>1, <3>2 DEF IInv, Above
      <3> QED
        BY <3>1, <3>2
    <2> QED
      BY <1>1, <1>2, <2>1 DEF Above, Up, Piece
  <1> QED
    BY <1>1, <1>6, <1>7, <1>8, <1>9 DEF IInv

\* The parts that have been come to, as Order has them, where the preparation is
LEMMA VisitedIs ==
  ASSUME IInv, pc = "prepare", side \in Sides
  PROVE  /\ path \in DOMAIN Tree(side) /\ request \in Requests
         /\ path \in Seq(Nat) /\ Len(path) \in Nat
         /\ args[side][path] # "unset"
         /\ \A k \in 0..(Len(path) - 1) : Piece("parts", side, Up(path, k)) \in heap
  <1>1. path \in DOMAIN Tree(side) /\ request \in Requests
    BY DEF IInv, TypeControl, Sides
  <1>2. path \in Seq(Nat) /\ Len(path) \in Nat
    BY <1>1, PartIs
  <1>3. Visited(side, path)
    BY <1>2 DEF Visited, Passed, PassedAt, Under
  <1>4. args[side][path] # "unset"
    BY <1>1, <1>3 DEF IInv, Order
  <1> QED
    BY <1>1, <1>2, <1>4 DEF IInv, Above

LEMMA FirstPartStep == ASSUME IInv, FirstPart PROVE IInv'
  <1> DEFINE c == Append(path, 1)
  <1>1. /\ all_made /\ side \in Sides /\ stage = "before" /\ parts(side, path) > 0
        /\ Prepare(side, c) /\ pc = "prepare"
    BY DEF FirstPart, all_made
  <1>2. /\ path \in DOMAIN Tree(side) /\ request \in Requests
        /\ path \in Seq(Nat) /\ Len(path) \in Nat
        /\ args[side][path] # "unset"
        /\ \A k \in 0..(Len(path) - 1) : Piece("parts", side, Up(path, k)) \in heap
    BY <1>1, VisitedIs
  <1>3. IsTree(Tree(side), Kinds(side))
    BY <1>1, <1>2, TreeIs
  <1>4. c \in DOMAIN Tree(side)
    <2>1. 1 \in 1..parts(side, path) /\ parts(side, path) = Tree(side)[path].parts
      BY <1>1, <1>2, PartIs DEF parts
    <2> QED
      BY <1>2, <1>3, <2>1, TreeFacts
  <1>5. Piece("parts", side, path) \in heap
    <2>1. kind(side, path) = "multipart"
      BY <1>1, <1>2, PartIs
    <2> QED
      BY <1>1, <1>2, <2>1, AllMade DEF Settled, SettledPart
  <1>6. /\ Len(c) = Len(path) + 1 /\ c \in Seq(Nat)
        /\ \A k \in 0..Len(path) : Up(c, k) = Up(path, k)
    BY <1>2, Child
  <1>7. ASSUME NEW k \in 0..(Len(c) - 1) PROVE Piece("parts", side, Up(c, k)) \in heap
    <2>1. CASE k = Len(path)
      <3>1. Up(path, Len(path)) = path
        BY <1>2, SubSeqFull DEF Up
      <3> QED
        BY <1>2, <1>5, <1>6, <2>1, <3>1
    <2>2. CASE k # Len(path)
      <3>1. k \in 0..(Len(path) - 1) /\ k \in 0..Len(path)
        BY <1>2, <1>6, <2>2
      <3> QED
        BY <1>2, <1>6, <3>1
    <2> QED
      BY <2>1, <2>2
  <1>8. ~Visited(side, c)
    <2>1. ~PassedAt(c, path, FALSE)
      BY <1>2, NewChild
    <2>2. side # "request" /\ ~(side = "write" /\ side = "read") /\ (stage = "after" <=> FALSE)
      BY <1>1 DEF Sides
    <2> QED
      BY <2>1, <2>2 DEF Visited, Passed, PassedAt
  <1>9. ASSUME NEW t \in Sides, NEW q \in DOMAIN Tree(t)
        PROVE  Visited(t, q)' <=> Visited(t, q) \/ (t = side /\ q = c)
    <2>1. side' = side /\ path' = c /\ stage' = "before"
      BY <1>1 DEF Prepare
    <2>2. CASE t # side
      BY <2>1, <2>2 DEF Visited
    <2>3. CASE t = side
      <3>1. q \in Seq(Nat) /\ \A k \in 1..Len(q) : q[k] \in Nat /\ q[k] >= 1
        BY <1>3, <2>3, TreeFacts
      <3>2. PassedAt(q, c, FALSE) <=> PassedAt(q, path, FALSE) \/ q = c
        BY <1>2, <3>1, PassDown
      <3>3. (Passed(q)' <=> PassedAt(q, c, FALSE)) /\ (Passed(q) <=> PassedAt(q, path, FALSE))
        BY <1>1, <2>1 DEF Passed, PassedAt, Under, Earlier
      <3> QED
        BY <1>1, <2>1, <2>3, <3>2, <3>3 DEF Visited, Sides
    <2> QED
      BY <2>2, <2>3
  <1> HIDE DEF c
  <1> QED
    BY <1>1, <1>4, <1>7, <1>8, <1>9, PrepareStep

\* A part of a message, seen from its message
LEMMA OfMessage ==
  ASSUME IInv, pc = "prepare", side \in Sides, path # <<>>
  PROVE  /\ Front(path) \in DOMAIN Tree(side) /\ Front(path) \in Seq(Nat)
         /\ Last(path) \in Nat /\ path = Append(Front(path), Last(path))
         /\ Last(path) \in 1..parts(side, Front(path))
         /\ parts(side, Front(path)) \in Nat
         /\ parts(side, Front(path)) = Tree(side)[Front(path)].parts
  <1>1. path \in DOMAIN Tree(side) /\ request \in Requests /\ path \in Seq(Nat)
    BY VisitedIs
  <1>2. /\ Front(path) \in Seq(Nat) /\ Last(path) \in Nat /\ Len(path) \in Nat \ {0}
        /\ path = Append(Front(path), Last(path))
        /\ Front(path) = Up(path, Len(path) - 1) /\ Last(path) = path[Len(path)]
    BY <1>1, Parent
  <1>3. IsTree(Tree(side), Kinds(side))
    BY <1>1, TreeIs
  <1>4. Len(path) - 1 \in 0..(Len(path) - 1) /\ (Len(path) - 1) + 1 = Len(path)
    BY <1>2
  <1>5. /\ Up(path, Len(path) - 1) \in DOMAIN Tree(side)
        /\ path[(Len(path) - 1) + 1] \in 1..Tree(side)[Up(path, Len(path) - 1)].parts
    BY <1>1, <1>3, <1>4, TreeFacts
  <1>6. /\ Front(path) \in DOMAIN Tree(side)
        /\ Last(path) \in 1..Tree(side)[Front(path)].parts
    BY <1>2, <1>4, <1>5
  <1> QED
    BY <1>1, <1>2, <1>6, PartIs DEF parts

LEMMA NextPartStep == ASSUME IInv, NextPart PROVE IInv'
  <1> DEFINE q == Front(path)
             i == Last(path)
             c == Append(q, i + 1)
  <1>1. /\ all_made /\ side \in Sides /\ stage = "after" /\ path # <<>> /\ i < parts(side, q)
        /\ Prepare(side, c) /\ pc = "prepare"
    BY DEF NextPart, all_made, another
  <1>2. /\ request \in Requests
        /\ \A k \in 0..(Len(path) - 1) : Piece("parts", side, Up(path, k)) \in heap
    BY <1>1, VisitedIs
  <1>3. /\ q \in DOMAIN Tree(side) /\ q \in Seq(Nat)
        /\ i \in Nat /\ path = Append(q, i)
        /\ i \in 1..parts(side, q) /\ parts(side, q) \in Nat
        /\ parts(side, q) = Tree(side)[q].parts
    BY <1>1, OfMessage
  <1>4. IsTree(Tree(side), Kinds(side))
    BY <1>1, <1>2, TreeIs
  <1> HIDE DEF q, i
  <1>5. c \in DOMAIN Tree(side)
    <2>1. i + 1 \in 1..Tree(side)[q].parts
      BY <1>1, <1>3
    <2> QED
      BY <1>3, <1>4, <2>1, TreeFacts
  <1>6. ASSUME NEW k \in 0..(Len(c) - 1) PROVE Piece("parts", side, Up(c, k)) \in heap
    <2>1. i + 1 \in Nat
      BY <1>3
    <2>2. /\ Len(q) \in Nat /\ Len(c) = Len(q) + 1 /\ Len(path) = Len(q) + 1
          /\ \A l \in 0..Len(q) : Up(c, l) = Up(q, l) /\ Up(path, l) = Up(q, l)
      BY <1>3, <2>1, Child
    <2>3. k \in 0..Len(q) /\ k \in 0..(Len(path) - 1)
      BY <2>2
    <2> HIDE DEF c
    <2> QED
      BY <1>2, <2>2, <2>3
  <1>7. ~Visited(side, c)
    <2>1. ~PassedAt(c, path, TRUE)
      BY <1>3, NewChild
    <2>2. side # "request" /\ ~(side = "write" /\ side = "read") /\ (stage = "after" <=> TRUE)
      BY <1>1 DEF Sides
    <2> QED
      BY <2>1, <2>2 DEF Visited, Passed, PassedAt
  <1>8. ASSUME NEW t \in Sides, NEW p \in DOMAIN Tree(t)
        PROVE  Visited(t, p)' <=> Visited(t, p) \/ (t = side /\ p = c)
    <2>1. side' = side /\ path' = c /\ stage' = "before"
      BY <1>1 DEF Prepare
    <2>2. CASE t # side
      BY <2>1, <2>2 DEF Visited
    <2>3. CASE t = side
      <3>1. p \in Seq(Nat)
        BY <1>4, <2>3, TreeFacts
      <3>2. PassedAt(p, c, FALSE) <=> PassedAt(p, path, TRUE) \/ p = c
        BY <1>3, <3>1, PassAcross
      <3>3. (Passed(p)' <=> PassedAt(p, c, FALSE)) /\ (Passed(p) <=> PassedAt(p, path, TRUE))
        BY <1>1, <2>1 DEF Passed, PassedAt, Under, Earlier
      <3> QED
        BY <1>1, <2>1, <2>3, <3>2, <3>3 DEF Visited, Sides
    <2> QED
      BY <2>2, <2>3
  <1> HIDE DEF c
  <1> QED
    BY <1>1, <1>5, <1>6, <1>7, <1>8, PrepareStep

LEMMA AfterPartsStep == ASSUME IInv, AfterParts PROVE IInv'
  <1>1. /\ all_made /\ side \in Sides /\ pc = "prepare" /\ stage' = "after" /\ made' = 0
        /\ UNCHANGED <<request, pc, side, heap, args, misused>>
        /\ \/ stage = "before" /\ parts(side, path) = 0 /\ path' = path
           \/ stage = "after" /\ path # <<>> /\ ~another /\ path' = Front(path)
    BY DEF AfterParts, all_made
  <1>2. path \in DOMAIN Tree(side) /\ request \in Requests
    BY <1>1, VisitedIs
  <1>3. IsTree(Tree(side), Kinds(side))
    BY <1>1, <1>2, TreeIs
  <1>4. \A t : Tree(t)' = Tree(t)
    BY <1>1 DEF Tree
  <1>5. /\ path' \in DOMAIN Tree(side)
        /\ \A p \in DOMAIN Tree(side) : Passed(p)' <=> Passed(p)
    <2>1. CASE stage = "before" /\ parts(side, path) = 0 /\ path' = path
      <3>1. ASSUME NEW p \in DOMAIN Tree(side) PROVE Passed(p)' <=> Passed(p)
        <4>1. Tree(side)[path].parts = 0
          BY <2>1 DEF parts
        <4>2. PassedAt(p, path, TRUE) <=> PassedAt(p, path, FALSE)
          BY <1>2, <1>3, <4>1, PassLeaf
        <4>3. /\ Passed(p)' <=> PassedAt(p, path, TRUE)
              /\ Passed(p) <=> PassedAt(p, path, FALSE)
          BY <1>1, <2>1 DEF Passed, PassedAt, Under, Earlier
        <4> QED
          BY <4>2, <4>3
      <3> QED
        BY <1>2, <2>1, <3>1
    <2>2. CASE stage = "after" /\ path # <<>> /\ ~another /\ path' = Front(path)
      <3> DEFINE q == Front(path)
                 i == Last(path)
      <3>1. /\ q \in DOMAIN Tree(side) /\ q \in Seq(Nat) /\ i \in Nat
            /\ path = Append(q, i) /\ parts(side, q) = Tree(side)[q].parts
        BY <1>1, <2>2, OfMessage
      <3>2. ~(i < Tree(side)[q].parts)
        BY <2>2, <3>1 DEF another
      <3>3. stage' = "after" /\ path' = q
        BY <1>1, <2>2
      <3> HIDE DEF q, i
      <3>4. ASSUME NEW p \in DOMAIN Tree(side) PROVE Passed(p)' <=> Passed(p)
        <4>1. PassedAt(p, q, TRUE) <=> PassedAt(p, path, TRUE) \/ p = q
          BY <1>3, <3>1, <3>2, PassUp
        <4>2. p = q => PassedAt(p, path, TRUE)
          BY <3>1, UnderChild, LenProperties DEF PassedAt, Under
        <4>3. /\ Passed(p)' <=> PassedAt(p, q, TRUE)
              /\ Passed(p) <=> PassedAt(p, path, TRUE)
          BY <2>2, <3>3 DEF Passed, PassedAt, Under, Earlier
        <4> QED
          BY <4>1, <4>2, <4>3
      <3> QED
        BY <3>1, <3>3, <3>4
    <2> QED
      BY <1>1, <2>1, <2>2
  <1>6. TypeControl'
    <2>1. Len(steps') \in Nat
      <3>1. steps' = write_last(request.write[path']) \/ steps' = <<>>
        BY <1>1 DEF steps, Sides
      <3>2. steps' = <<"current_boundary">> \/ steps' = <<>>
        BY <3>1 DEF write_last
      <3> QED
        BY <3>2
    <2>2. made' \in 0..Len(steps')
      BY <1>1, <2>1
    <2> QED
      BY <1>1, <1>4, <1>5, <2>2 DEF IInv, TypeControl, Sides
  <1>7. Order'
    <2>1. ASSUME NEW t \in Sides, NEW p \in DOMAIN Tree(t)
          PROVE  args[t][p] # "unset" <=> Visited(t, p)'
      <3>1. Visited(t, p)' <=> Visited(t, p)
        BY <1>1, <1>5 DEF Visited
      <3> QED
        BY <1>1, <3>1 DEF IInv, Order
    <2> QED
      BY <1>1, <1>4, <2>1 DEF Order
  <1>8. Arguments' /\ Structures' /\ Pieced'
    <2>1. Settled
      BY <1>1, AllMade
    <2>2. \A t \in Sides : \A p \in DOMAIN Tree(t) :
            args'[t][p] = args[t][p] /\ ~Current(t, p)'
      BY <1>1 DEF Current
    <2> QED
      BY <1>1, <2>1, <2>2, KeepSettled
  <1>9. Above'
    BY <1>1, <1>4 DEF IInv, Above, Up, Piece
  <1> QED
    BY <1>1, <1>6, <1>7, <1>8, <1>9 DEF IInv

\* With the last of its parts, all of a message has been come to
LEMMA AllPassed ==
  ASSUME IInv, pc = "prepare", side \in Sides, stage = "after", path = <<>>
  PROVE  \A p \in DOMAIN Tree(side) : Passed(p)
  <1> SUFFICES ASSUME NEW p \in DOMAIN Tree(side) PROVE Passed(p)
    OBVIOUS
  <1>1. p \in Seq(Nat)
    BY VisitedIs, PartIs
  <1>2. PassedAt(p, <<>>, TRUE)
    BY <1>1, PassRoot
  <1> QED
    BY <1>2 DEF Passed, PassedAt

LEMMA StartReadStep == ASSUME IInv, StartRead PROVE IInv'
  <1>1. /\ all_made /\ pc = "prepare" /\ side = "write" /\ stage = "after" /\ path = <<>>
        /\ Prepare("read", <<>>)
    BY DEF StartRead, all_made
  <1>2. "read" \in Sides /\ "write" \in Sides /\ request \in Requests
    BY DEF Sides, IInv, TypeControl
  <1>3. <<>> \in DOMAIN Tree("read")
    BY <1>2, TreeIs DEF IsTree
  <1>4. \A p \in DOMAIN Tree("write") : Passed(p)
    BY <1>1, <1>2, AllPassed
  <1>5. ~Visited("read", <<>>)
    BY <1>1 DEF Visited
  <1>6. ASSUME NEW t \in Sides, NEW q \in DOMAIN Tree(t)
        PROVE  Visited(t, q)' <=> Visited(t, q) \/ (t = "read" /\ q = <<>>)
    <2>1. side' = "read" /\ path' = <<>> /\ stage' = "before"
      BY <1>1 DEF Prepare
    <2>2. CASE t = "write"
      BY <1>1, <1>4, <2>1, <2>2 DEF Visited
    <2>3. CASE t = "read"
      <3>1. q \in Seq(Nat)
        BY <1>2, PartIs
      <3>2. PassedAt(q, <<>>, FALSE) <=> q = <<>>
        BY <3>1, PassRoot
      <3>3. Passed(q)' <=> PassedAt(q, <<>>, FALSE)
        BY <2>1 DEF Passed, PassedAt, Under, Earlier
      <3> QED
        BY <1>1, <2>1, <2>3, <3>2, <3>3 DEF Visited
    <2> QED
      BY <2>2, <2>3 DEF Sides
  <1>7. \A k \in 0..(Len(<<>>) - 1) : Piece("parts", "read", Up(<<>>, k)) \in heap
    <2>1. Len(<<>>) = 0
      OBVIOUS
    <2>2. 0..(0 - 1) = {}
      OBVIOUS
    <2> QED
      BY <2>1, <2>2
  <1> QED
    BY <1>1, <1>2, <1>3, <1>5, <1>6, <1>7, PrepareStep

LEMMA StartRequestStep == ASSUME IInv, StartRequest PROVE IInv'
  <1>1. /\ all_made /\ pc = "prepare" /\ side = "read" /\ stage = "after" /\ path = <<>>
        /\ side' = "request" /\ made' = 0
        /\ UNCHANGED <<request, pc, path, stage, heap, args, misused>>
    BY DEF StartRequest, all_made
  <1>2. "read" \in Sides /\ side \in Sides /\ request \in Requests
    BY <1>1 DEF Sides, IInv, TypeControl
  <1>3. \A t : Tree(t)' = Tree(t)
    BY <1>1 DEF Tree
  <1>4. TypeControl'
    <2>1. Len(request_steps) = 5
      BY DEF request_steps
    <2>2. steps' = request_steps
      BY <1>1 DEF steps
    <2>3. made' \in 0..Len(steps')
      BY <1>1, <2>1, <2>2
    <2> QED
      BY <1>1, <1>3, <2>3 DEF IInv, TypeControl
  <1>5. Order'
    <2>1. \A p \in DOMAIN Tree("read") : Passed(p)
      BY <1>1, <1>2, AllPassed
    <2>2. ASSUME NEW t \in Sides, NEW p \in DOMAIN Tree(t)
          PROVE  args[t][p] # "unset" <=> Visited(t, p)'
      <3>1. Visited(t, p)
        BY <1>1, <2>1 DEF Visited, Sides
      <3>2. Visited(t, p)'
        BY <1>1 DEF Visited
      <3> QED
        BY <1>1, <3>1, <3>2 DEF IInv, Order
    <2> QED
      BY <1>1, <1>3, <2>2 DEF Order
  <1>6. Arguments' /\ Structures' /\ Pieced'
    <2>1. Settled
      BY <1>1, AllMade
    <2>2. \A t \in Sides : \A p \in DOMAIN Tree(t) :
            args'[t][p] = args[t][p] /\ ~Current(t, p)'
      BY <1>1 DEF Current, Sides
    <2> QED
      BY <1>1, <2>1, <2>2, KeepSettled
  <1>7. Above'
    BY <1>1, <1>3 DEF IInv, Above, Up, Piece
  <1> QED
    BY <1>1, <1>4, <1>5, <1>6, <1>7 DEF IInv

LEMMA RunStep == ASSUME IInv, Run PROVE IInv'
  <1>1. /\ all_made /\ pc = "prepare" /\ side = "request" /\ pc' = "run"
        /\ UNCHANGED <<request, side, path, stage, made, heap, args, misused>>
    BY DEF Run, all_made, place
  <1>2. (\A t : Tree(t)' = Tree(t)) /\ steps' = steps
    BY <1>1 DEF Tree, steps
  <1>3. TypeControl'
    BY <1>1, <1>2 DEF IInv, TypeControl
  <1>4. Order'
    <2>1. ASSUME NEW t \in Sides, NEW p \in DOMAIN Tree(t) PROVE args[t][p] # "unset"
      BY <1>1 DEF IInv, Order, Visited
    <2> QED
      BY <1>1, <1>2, <2>1 DEF Order
  <1>5. Arguments' /\ Structures' /\ Pieced'
    <2>1. Settled
      BY <1>1, AllMade
    <2>2. \A t \in Sides : \A p \in DOMAIN Tree(t) :
            args'[t][p] = args[t][p] /\ ~Current(t, p)'
      BY <1>1 DEF Current
    <2> QED
      BY <1>1, <2>1, <2>2, KeepSettled
  <1>6. Above'
    BY <1>1, <1>2 DEF IInv, Above, Up, Piece
  <1> QED
    BY <1>1, <1>3, <1>4, <1>5, <1>6 DEF IInv

----------------------------------------------------------------------------
\* A step of the preparation that succeeds
LEMMA StepGoesOn ==
  ASSUME IInv, StepSucceeds
  PROVE  /\ pc = "prepare" /\ pc' = "prepare" /\ request' = request
         /\ side' = side /\ path' = path /\ stage' = stage /\ misused' = misused
         /\ made \in Nat /\ made' = made + 1 /\ made + 1 \in 1..Len(steps)
         /\ steps' = steps /\ step = steps[made + 1]
         /\ heap' = heap \cup allocated
         /\ \A t : Tree(t)' = Tree(t)
         /\ \A t, q : kind(t, q)' = kind(t, q)
         /\ \A t, q : Current(t, q)' <=> Current(t, q)
         /\ \A t, q : Visited(t, q)' <=> Visited(t, q)
         /\ \A w : Made(w)' <=> Made(w) \/ w = step
  <1>1. /\ pc = "prepare" /\ pc' = "prepare" /\ request' = request
        /\ side' = side /\ path' = path /\ stage' = stage /\ misused' = misused
        /\ made < Len(steps) /\ made' = made + 1
        /\ heap' = heap \cup allocated
    BY DEF StepSucceeds, preparing
  <1>2. made \in Nat /\ Len(steps) \in Nat /\ made + 1 \in 1..Len(steps)
    BY <1>1, StepsLength DEF IInv
  <1>3. steps' = steps
    BY <1>1 DEF steps
  <1>4. (\A t : Tree(t)' = Tree(t)) /\ \A t, q : kind(t, q)' = kind(t, q)
    BY <1>1 DEF Tree, kind
  <1>5. \A t, q : (Current(t, q)' <=> Current(t, q)) /\ (Visited(t, q)' <=> Visited(t, q))
    BY <1>1 DEF Current, Visited, Passed, PassedAt, Under, Earlier
  <1>6. ASSUME NEW w PROVE Made(w)' <=> Made(w) \/ w = step
    <2>1. Made(w)' <=> \E j \in 1..(made + 1) : steps[j] = w
      BY <1>1, <1>3 DEF Made
    <2>2. \A j : j \in 1..(made + 1) <=> j \in 1..made \/ j = made + 1
      BY <1>2
    <2> QED
      BY <2>1, <2>2 DEF Made, step
  <1> QED
    BY <1>1, <1>2, <1>3, <1>4, <1>5, <1>6 DEF step

\* What a step does to the argument of its part, to the structures and to the heap
LEMMA StepMakes ==
  ASSUME IInv, StepSucceeds,
         DOMAIN args' = Sides /\ \A s \in Sides : DOMAIN args'[s] = DOMAIN Tree(s),
         \A s \in Sides : \A p \in DOMAIN Tree(s) :
           /\ args'[s][p] = "unset" <=> args[s][p] = "unset"
           /\ args[s][p] = "own" => args'[s][p] = "own"
           /\ Argument(s, p)' /\ Structure(s, p)',
         \A x \in allocated : \E w, s, p : x = Piece(w, s, p) /\ Accounted(w, s, p)'
  PROVE  IInv'
  <1>1. /\ pc = "prepare" /\ pc' = "prepare" /\ request' = request
        /\ side' = side /\ path' = path /\ stage' = stage /\ misused' = misused
        /\ made \in Nat /\ made' = made + 1 /\ made + 1 \in 1..Len(steps)
        /\ steps' = steps
        /\ heap' = heap \cup allocated
        /\ \A t : Tree(t)' = Tree(t)
        /\ \A t, q : kind(t, q)' = kind(t, q)
        /\ \A t, q : Current(t, q)' <=> Current(t, q)
        /\ \A t, q : Visited(t, q)' <=> Visited(t, q)
        /\ \A w : Made(w)' <=> Made(w) \/ w = step
    BY StepGoesOn
  <1>2. TypeControl'
    <2>1. made' \in 0..Len(steps')
      BY <1>1, StepsLength DEF IInv
    <2> QED
      BY <1>1, <2>1 DEF IInv, TypeControl
  <1>3. Order'
    BY <1>1 DEF IInv, Order
  <1>4. Arguments' /\ Structures'
    BY <1>1 DEF Arguments, Structures
  <1>5. Pieced'
    <2>1. ASSUME NEW w, NEW s, NEW p, Accounted(w, s, p) PROVE Accounted(w, s, p)'
      BY <1>1, <2>1 DEF Accounted
    <2>2. ASSUME NEW x \in heap'
          PROVE  \E w, s, p : x = Piece(w, s, p) /\ Accounted(w, s, p)'
      <3>1. CASE x \in allocated
        BY <3>1
      <3>2. CASE x \in heap
        <4>1. PICK w, s, p : x = Piece(w, s, p) /\ Accounted(w, s, p)
          BY <3>2 DEF IInv, Pieced
        <4> QED
          BY <2>1, <4>1
      <3> QED
        BY <1>1, <3>1, <3>2
    <2> QED
      BY <2>2 DEF Pieced, Piece
  <1>6. Above'
    BY <1>1 DEF IInv, Above, Up, Piece
  <1> QED
    BY <1>1, <1>2, <1>3, <1>4, <1>5, <1>6 DEF IInv

\* A part whose steps are not being made has all it is to have
LEMMA OthersSettled ==
  ASSUME IInv, pc \in {"prepare", "run"},
         NEW s \in Sides, NEW p \in DOMAIN Tree(s), ~Current(s, p)
  PROVE  SettledPart(s, p)
  <1> SUFFICES ASSUME args[s][p] # "unset" PROVE SettledPart(s, p)
    BY DEF SettledPart
  <1> DEFINE k == kind(s, p)
  <1>1. Argument(s, p) /\ Structure(s, p)
    BY DEF IInv, Arguments, Structures
  <1>2. args[s][p] = IF Library(k) THEN "own" ELSE "user"
    BY <1>1 DEF Argument
  <1>3. Owned(s, k) # {} => Library(k)
    BY DEF Owned, owned_by_write, owned_by_read, Library
  <1>4. args[s][p] = "own" => Piece("arg", s, p) \in heap
    BY <1>1 DEF Structure
  <1>5. k = "multipart" => Piece("parts", s, p) \in heap
    BY <1>1 DEF Structure
  <1> QED
    BY <1>2, <1>3, <1>4, <1>5 DEF SettledPart

LEMMA StepOfRequestSucceeds == ASSUME IInv, StepSucceeds, side = "request" PROVE IInv'
  <1>1. \A t, q : (kind(t, q)' = kind(t, q)) /\ (Current(t, q)' <=> Current(t, q))
    BY StepGoesOn
  <1>2. args' = args /\ pc = "prepare" /\ pc' = "prepare" /\ heap' = heap \cup allocated
    BY StepGoesOn DEF StepSucceeds
  <1>3. \A t \in Sides : \A q : ~Current(t, q)
    BY DEF Current, Sides
  <1>4. ASSUME NEW s \in Sides, NEW p \in DOMAIN Tree(s)
        PROVE  Argument(s, p)' /\ Structure(s, p)'
    <2>1. Argument(s, p) /\ Structure(s, p)
      BY <1>2 DEF IInv, Arguments, Structures
    <2>2. Argument(s, p)'
      BY <1>1, <1>2, <1>3, <2>1 DEF Argument
    <2>3. Structure(s, p)'
      BY <1>1, <1>2, <1>3, <2>1 DEF Structure, Piece
    <2> QED
      BY <2>2, <2>3
  <1>5. ASSUME NEW x \in allocated
        PROVE  \E w, s, p : x = Piece(w, s, p) /\ Accounted(w, s, p)'
    <2>1. step \in OfRequest \cup {"method", "thread"}
      BY StepsOfRequest DEF IInv, StepSucceeds, preparing
    <2>2. path = <<>>
      BY DEF IInv, TypeControl
    <2> PICK w : w = step
      OBVIOUS
    <2>3. w \in OfRequest /\ x = Piece(w, "request", <<>>)
      BY <2>1, <2>2 DEF allocated, OfRequest
    <2>4. Accounted(w, "request", <<>>)'
      BY <2>3 DEF Accounted
    <2> QED
      BY <2>3, <2>4
  <1> QED
    BY <1>2, <1>4, <1>5, StepMakes DEF IInv, TypeControl

LEMMA LastStepSucceeds ==
  ASSUME IInv, StepSucceeds, side \in Sides, stage = "after"
  PROVE  IInv'
  <1>1. side = "write" /\ kind(side, path) = "multipart" /\ step = "current_boundary"
    BY StepsAfter DEF IInv, StepSucceeds, preparing
  <1>2. /\ pc = "prepare" /\ pc' = "prepare" /\ heap' = heap \cup allocated
        /\ request' = request
        /\ \A t : Tree(t)' = Tree(t)
        /\ \A t, q : (kind(t, q)' = kind(t, q)) /\ (Current(t, q)' <=> Current(t, q))
    BY StepGoesOn
  <1>3. path \in DOMAIN Tree(side) /\ args[side][path] # "unset"
    BY <1>2, VisitedIs
  <1>4. DOMAIN args = Sides /\ \A t \in Sides : DOMAIN args[t] = DOMAIN Tree(t)
    BY DEF IInv, TypeControl
  <1>5. /\ DOMAIN args' = Sides /\ \A t \in Sides : DOMAIN args'[t] = DOMAIN Tree(t)
        /\ \A t \in Sides : \A q \in DOMAIN Tree(t) : args'[t][q] = args[t][q]
    <2>1. arg_after = args[side][path]
      BY <1>1 DEF arg_after, assigned
    <2>2. args' = [args EXCEPT ![side][path] = args[side][path]]
      BY <1>1, <2>1 DEF StepSucceeds
    <2> QED
      BY <1>4, <2>2
  <1>6. \A t, q : ~Current(t, q)
    BY DEF Current
  <1>7. ASSUME NEW s \in Sides, NEW p \in DOMAIN Tree(s)
        PROVE  Argument(s, p)' /\ Structure(s, p)'
    <2>1. Argument(s, p) /\ Structure(s, p)
      BY <1>2 DEF IInv, Arguments, Structures
    <2>2. Argument(s, p)'
      BY <1>2, <1>5, <1>6, <2>1 DEF Argument
    <2>3. Structure(s, p)'
      BY <1>2, <1>5, <1>6, <2>1 DEF Structure, Piece
    <2> QED
      BY <2>2, <2>3
  <1>8. ASSUME NEW x \in allocated
        PROVE  \E w, s, p : x = Piece(w, s, p) /\ Accounted(w, s, p)'
    <2> PICK p : p = path
      OBVIOUS
    <2>1. x = Piece("current_boundary", "write", p)
      BY <1>1 DEF allocated
    <2>2. args["write"][p] = "own"
      <3>1. SettledPart(side, path)
        BY <1>2, <1>3, <1>6, OthersSettled
      <3> QED
        BY <1>1, <1>3, <3>1 DEF SettledPart, Library
    <2>3. "current_boundary" \in Owned("write", kind("write", p))
      BY <1>1 DEF Owned, owned_by_write
    <2>4. Accounted("current_boundary", "write", p)'
      BY <1>1, <1>2, <1>3, <1>5, <2>2, <2>3 DEF Accounted, Sides
    <2> QED
      BY <2>1, <2>4
  <1> QED
    BY <1>5, <1>7, <1>8, StepMakes

LEMMA FirstStepsSucceed ==
  ASSUME IInv, StepSucceeds, NEW s \in Sides, NEW p, side = s, path = p, stage = "before"
  PROVE  IInv'
  <1> DEFINE k == kind(s, p)
  <1>1. /\ pc = "prepare" /\ pc' = "prepare" /\ heap' = heap \cup allocated
        /\ request' = request
        /\ made \in Nat /\ made + 1 \in 1..Len(steps) /\ step = steps[made + 1]
        /\ \A t : Tree(t)' = Tree(t)
        /\ \A t, q : kind(t, q)' = kind(t, q)
        /\ \A t, q : Current(t, q)' <=> Current(t, q)
        /\ \A w : Made(w)' <=> Made(w) \/ w = step
    BY StepGoesOn
  <1>2. p \in DOMAIN Tree(s) /\ args[s][p] # "unset"
    BY <1>1, VisitedIs
  <1>3. DOMAIN args = Sides /\ \A t \in Sides : DOMAIN args[t] = DOMAIN Tree(t)
    BY DEF IInv, TypeControl
  <1>4. \A t, q : Current(t, q) <=> t = s /\ q = p
    BY <1>1 DEF Current
  <1>5. /\ step \in {"headers", "added"} \cup Owned(s, k)
        /\ s = "read" => step \in Owned(s, k)
        /\ step = AssignedBy(k) => Library(k)
        /\ step = "mutex" => Made("arg")
    <2>1. Orderly(s, k, steps)
      BY StepsBefore DEF IInv
    <2>2. step = "mutex" => \E i \in 1..((made + 1) - 1) : steps[i] = "arg"
      BY <1>1, <2>1 DEF Orderly
    <2>3. (made + 1) - 1 = made
      BY <1>1
    <2> QED
      BY <1>1, <2>1, <2>2, <2>3 DEF Orderly, Made
  <1>6. /\ DOMAIN args' = Sides /\ \A t \in Sides : DOMAIN args'[t] = DOMAIN Tree(t)
        /\ args'[s][p] = IF step = AssignedBy(k) THEN "own" ELSE args[s][p]
        /\ \A t \in Sides : \A q \in DOMAIN Tree(t) :
             ~(t = s /\ q = p) => args'[t][q] = args[t][q]
    <2>1. side # "request"
      BY DEF Sides
    <2>2. args' = [args EXCEPT ![s][p] = arg_after]
      BY <2>1 DEF StepSucceeds
    <2>3. arg_after = IF step = AssignedBy(k) THEN "own" ELSE args[s][p]
      BY DEF arg_after, assigned, AssignedBy
    <2> QED
      BY <1>2, <1>3, <2>2, <2>3
  <1>7. /\ step # "added" => allocated = {Piece(step, s, p)}
        /\ step = "added" => allocated = Pieces({"added", "headers"}, s, p)
    <2>1. step \notin {"method", "thread"}
      BY <1>5 DEF Owned, owned_by_write, owned_by_read, BufferLists
    <2> QED
      BY <2>1 DEF allocated
  <1>8. Argument(s, p)'
    <2>1. Argument(s, p)
      BY <1>2 DEF IInv, Arguments
    <2>2. CASE step = AssignedBy(k)
      BY <1>1, <1>5, <1>6, <2>2 DEF Argument
    <2>3. CASE step # AssignedBy(k)
      <3>1. args'[s][p] = args[s][p]
        BY <1>6, <2>3
      <3>2. Made(AssignedBy(k))' <=> Made(AssignedBy(k))
        BY <1>1, <2>3
      <3> QED
        BY <1>1, <2>1, <3>1, <3>2 DEF Argument
    <2> QED
      BY <2>2, <2>3
  <1>9. Structure(s, p)'
    <2>1. Structure(s, p)
      BY <1>1, <1>2 DEF IInv, Structures
    <2>2. Current(s, p)
      BY <1>4
    <2>3. step = "arg" => Piece("arg", s, p) \in heap'
      BY <1>1, <1>7
    <2>4. Made("arg") => Piece("arg", s, p) \in heap
      BY <2>1, <2>2 DEF Structure
    <2>5. args'[s][p] = "own" \/ Made("arg")' => Piece("arg", s, p) \in heap'
      <3>1. args'[s][p] = "own" => args[s][p] = "own" \/ step \in {"arg", "mutex"}
        BY <1>6 DEF AssignedBy
      <3>2. args[s][p] = "own" => Piece("arg", s, p) \in heap
        BY <2>1 DEF Structure
      <3>3. heap \subseteq heap'
        BY <1>1
      <3> QED
        BY <1>1, <1>5, <2>3, <2>4, <3>1, <3>2, <3>3
    <2>6. k = "multipart" => Piece("parts", s, p) \in heap' \/ ~Made("parts")'
      <3>1. step = "parts" => Piece("parts", s, p) \in heap'
        BY <1>1, <1>7
      <3>2. k = "multipart" => Piece("parts", s, p) \in heap \/ ~Made("parts")
        BY <1>1, <1>2, <2>1 DEF Structure
      <3> QED
        BY <1>1, <3>1, <3>2
    <2> QED
      BY <1>1, <2>2, <2>5, <2>6 DEF Structure, Piece
  <1>10. ASSUME NEW t \in Sides, NEW q \in DOMAIN Tree(t)
         PROVE  Argument(t, q)' /\ Structure(t, q)'
    <2>1. CASE t = s /\ q = p
      BY <1>8, <1>9, <2>1
    <2>2. CASE ~(t = s /\ q = p)
      <3>1. Argument(t, q) /\ Structure(t, q)
        BY <1>1 DEF IInv, Arguments, Structures
      <3>2. args'[t][q] = args[t][q] /\ ~Current(t, q) /\ ~Current(t, q)'
        BY <1>1, <1>4, <1>6, <2>2
      <3>3. Argument(t, q)'
        BY <1>1, <3>1, <3>2 DEF Argument
      <3>4. Structure(t, q)'
        BY <1>1, <3>1, <3>2 DEF Structure, Piece
      <3> QED
        BY <3>3, <3>4
    <2> QED
      BY <2>1, <2>2
  <1>11. ASSUME NEW t \in Sides, NEW q \in DOMAIN Tree(t)
         PROVE  /\ args'[t][q] = "unset" <=> args[t][q] = "unset"
                /\ args[t][q] = "own" => args'[t][q] = "own"
    BY <1>2, <1>6
  <1>12. ASSUME NEW x \in allocated
         PROVE  \E w, t, q : x = Piece(w, t, q) /\ Accounted(w, t, q)'
    <2>1. PICK w : /\ x = Piece(w, s, p)
                   /\ w = step \/ (step = "added" /\ w \in {"added", "headers"})
      BY <1>7 DEF Piece, Pieces
    <2>2. w \in Loose(s) \/ (w = step /\ w \in Owned(s, k))
      <3>1. CASE s = "write"
        BY <1>5, <2>1, <3>1 DEF Loose
      <3>2. CASE s = "read"
        <4>1. step # "added"
          BY <1>5, <3>2 DEF Owned, owned_by_read, BufferLists
        <4> QED
          BY <1>5, <2>1, <3>2, <4>1
      <3> QED
        BY <3>1, <3>2 DEF Sides
    <2>3. w = step => Made(w)'
      BY <1>1
    <2>4. s # "request" /\ args'[s][p] # "unset" /\ Current(s, p)'
      BY <1>1, <1>2, <1>4, <1>11 DEF Sides
    <2>5. Accounted(w, s, p)'
      BY <1>1, <1>2, <2>2, <2>3, <2>4 DEF Accounted
    <2> QED
      BY <2>1, <2>5
  <1> QED
    BY <1>6, <1>10, <1>11, <1>12, StepMakes

LEMMA StepSucceedsStep == ASSUME IInv, StepSucceeds PROVE IInv'
  <1>1. side \in Sides \cup {"request"} /\ stage \in {"before", "after"}
    BY DEF IInv, TypeControl
  <1> QED
    BY <1>1, StepOfRequestSucceeds, LastStepSucceeds, FirstStepsSucceed

----------------------------------------------------------------------------
\* A step of the preparation that fails
\* What a failure leaves: every part has all it is to have, or it is the JSON response
\* without a structure, or the message to read without an array
LEMMA FailureLeaves ==
  ASSUME IInv, pc = "prepare", pc' = "cleanup", request' = request, UNCHANGED place,
         misused' = misused, heap' \subseteq heap,
         \A s, p : \A w \in {"arg", "parts"} :
           Piece(w, s, p) \in heap => Piece(w, s, p) \in heap',
         DOMAIN args' = Sides /\ \A s \in Sides : DOMAIN args'[s] = DOMAIN Tree(s),
         \A s \in Sides : \A p \in DOMAIN Tree(s) :
           \/ args'[s][p] = args[s][p] /\ SettledPart(s, p)
           \/ /\ args'[s][p] = "null" /\ s = "read" /\ kind(s, p) = "json"
              /\ args[s][p] \notin {"unset", "own"} /\ made = 0
           \/ /\ args'[s][p] = args[s][p] /\ args[s][p] = "own"
              /\ s = "read" /\ kind(s, p) = "multipart" /\ Piece("arg", s, p) \in heap
  PROVE  IInv'
  <1>1. /\ side' = side /\ path' = path /\ stage' = stage /\ made' = made
        /\ \A t : Tree(t)' = Tree(t)
        /\ \A t, q : kind(t, q)' = kind(t, q)
        /\ \A t, q : ~Current(t, q)'
        /\ steps' = steps
    BY DEF place, Tree, kind, Current, steps
  <1>2. TypeControl'
    BY <1>1 DEF IInv, TypeControl
  <1>3. Order'
    BY DEF Order
  <1>4. ASSUME NEW s \in Sides, NEW p \in DOMAIN Tree(s)
        PROVE  Argument(s, p)' /\ Structure(s, p)'
    <2>1. CASE args'[s][p] = args[s][p] /\ SettledPart(s, p)
      <3>1. args[s][p] \in {"unset", "user", "own", "null"}
        BY DEF IInv, Arguments, Argument
      <3>2. Argument(s, p)'
        BY <1>1, <2>1, <3>1 DEF Argument, SettledPart
      <3>3. Structure(s, p)'
        BY <1>1, <2>1 DEF Structure, SettledPart, Piece
      <3> QED
        BY <3>2, <3>3
    <2>2. CASE args'[s][p] = "null" /\ s = "read" /\ kind(s, p) = "json"
      BY <1>1, <2>2 DEF Argument, Structure
    <2>3. CASE /\ args'[s][p] = args[s][p] /\ args[s][p] = "own"
               /\ s = "read" /\ kind(s, p) = "multipart" /\ Piece("arg", s, p) \in heap
      <3>1. Argument(s, p)'
        BY <1>1, <2>3 DEF Argument, Library
      <3>2. Structure(s, p)'
        BY <1>1, <2>3 DEF Structure, Piece
      <3> QED
        BY <3>1, <3>2
    <2> QED
      BY <2>1, <2>2, <2>3
  <1>5. Arguments' /\ Structures'
    BY <1>1, <1>4 DEF Arguments, Structures
  <1>6. Pieced'
    <2>1. ASSUME NEW w, NEW s, NEW p, Accounted(w, s, p) PROVE Accounted(w, s, p)'
      <3>1. CASE s = "request"
        BY <2>1, <3>1 DEF Accounted
      <3>2. CASE s # "request"
        <4>1. /\ s \in Sides /\ p \in DOMAIN Tree(s) /\ args[s][p] # "unset"
              /\ w \in Loose(s) \cup Owned(s, kind(s, p))
              /\ w \in Loose(s) \/ args[s][p] = "own" \/ Made(w)
          BY <2>1, <3>2 DEF Accounted
        <4>2. made = 0 => ~Made(w)
          BY DEF Made
        <4>3. args'[s][p] # "unset"
          BY <4>1
        <4>4. w \in Loose(s) \/ args'[s][p] = "own"
          BY <4>1, <4>2 DEF SettledPart
        <4> QED
          BY <1>1, <3>2, <4>1, <4>3, <4>4 DEF Accounted
      <3> QED
        BY <3>1, <3>2
    <2>2. ASSUME NEW x \in heap'
          PROVE  \E w, s, p : x = Piece(w, s, p) /\ Accounted(w, s, p)'
      BY <2>1 DEF IInv, Pieced
    <2> QED
      BY <2>2 DEF Pieced, Piece
  <1>7. Above'
    <2>1. ASSUME NEW s \in Sides, NEW p \in DOMAIN Tree(s), args'[s][p] # "unset",
                 NEW l \in 0..(Len(p) - 1)
          PROVE  Piece("parts", s, Up(p, l)) \in heap'
      <3>1. args[s][p] # "unset"
        BY <2>1
      <3> QED
        BY <3>1 DEF IInv, Above
    <2> QED
      BY <1>1, <2>1 DEF Above, Up, Piece
  <1> QED
    BY <1>2, <1>3, <1>5, <1>6, <1>7 DEF IInv

\* Where the code recovers from a failure
LEMMA WhereItFails ==
  ASSUME IInv, StepFails, Failures \subseteq Recoverable
  PROVE  \/ side = "request"
         \/ side = "write" /\ stage = "after" /\ step = "current_boundary"
         \/ /\ side = "write" /\ stage = "before" /\ step = "headers"
            /\ kind(side, path) \in {"none", "user"}
         \/ /\ side = "read" /\ stage = "before" /\ step = "arg" /\ made = 0
            /\ kind(side, path) = "json"
         \/ /\ side = "read" /\ stage = "before" /\ step = "parts" /\ Made("arg")
            /\ kind(side, path) = "multipart"
  <1>1. /\ pc = "prepare" /\ made < Len(steps)
        /\ <<side, kind(side, path), step>> \in Recoverable
    BY DEF StepFails, preparing
  <1>2. CASE side = "request"
    BY <1>2
  <1>3. CASE side \in Sides /\ stage = "after"
    BY <1>1, <1>3, StepsAfter DEF IInv
  <1>4. CASE side = "write" /\ stage = "before"
    <2>1. side \in Sides /\ made + 1 \in 1..Len(steps)
      BY <1>1, <1>4, StepsLength DEF IInv, Sides
    <2>2. step # "current_boundary"
      BY <1>4, <2>1, StepsBefore DEF IInv, Orderly, step
    <2> QED
      BY <1>1, <1>4, <2>2 DEF Recoverable
  <1>5. CASE side = "read" /\ stage = "before"
    <2>1. /\ path \in DOMAIN Tree(side) /\ side \in Sides /\ request \in Requests
      BY <1>1, <1>5, VisitedIs DEF Sides
    <2>2. /\ request.read[path] \in Node(ReadKinds)
          /\ kind(side, path) = request.read[path].kind
      BY <1>5, <2>1, PartIs DEF Kinds, Tree
    <2>3. steps = read_steps(request.read[path])
      BY <1>5 DEF steps
    <2>4. /\ kind(side, path) \in {"json", "multipart"} => steps[1] = "arg"
          /\ kind(side, path) = "json" => Len(steps) = 1
          /\ kind(side, path) = "multipart" => Len(steps) = 2
      BY <2>2, <2>3, ReadSteps
    <2>5. made \in Nat /\ Len(steps) \in Nat
      BY StepsLength DEF IInv
    <2>6. \/ kind(side, path) = "json" /\ step = "arg"
          \/ kind(side, path) = "multipart" /\ step = "parts"
      <3>1. ASSUME NEW k, NEW w, <<"read", k, w>> \in Recoverable
            PROVE  (k = "json" /\ w = "arg") \/ (k = "multipart" /\ w = "parts")
        BY <3>1 DEF Recoverable
      <3>2. <<"read", kind(side, path), step>> \in Recoverable
        BY <1>1, <1>5
      <3> QED
        BY <3>1, <3>2
    <2>7. CASE kind(side, path) = "json" /\ step = "arg"
      <3>1. made < 1
        BY <1>1, <2>4, <2>7
      <3>2. made = 0
        BY <2>5, <3>1
      <3> QED
        BY <1>5, <2>7, <3>2
    <2>8. CASE kind(side, path) = "multipart" /\ step = "parts"
      <3>1. made # 0
        BY <2>4, <2>8 DEF step
      <3>2. 1 \in 1..made
        BY <2>5, <3>1
      <3>3. Made("arg")
        BY <2>4, <2>8, <3>2 DEF Made
      <3> QED
        BY <1>5, <2>8, <3>3
    <2> QED
      BY <2>6, <2>7, <2>8
  <1> QED
    BY <1>2, <1>3, <1>4, <1>5 DEF IInv, TypeControl, Sides

LEMMA StepFailsStep ==
  ASSUME IInv, StepFails, Failures \subseteq Recoverable
  PROVE  IInv'
  <1>1. /\ pc = "prepare" /\ pc' = "cleanup" /\ request' = request /\ UNCHANGED place
        /\ misused' = misused
        /\ heap' = (heap \ freed_on_failure) \cup lost_on_failure
        /\ args' = IF side = "request" THEN args
                   ELSE [args EXCEPT ![side][path] = arg_on_failure]
    BY DEF StepFails, preparing
  <1>2. DOMAIN args = Sides /\ \A t \in Sides : DOMAIN args[t] = DOMAIN Tree(t)
    BY DEF IInv, TypeControl
  <1>3. heap' \subseteq heap
    <2>1. step # "added"
      <3>1. side = "request" => step \in OfRequest \cup {"method", "thread"}
        BY StepsOfRequest DEF IInv, StepFails, preparing
      <3> QED
        BY <3>1, WhereItFails DEF OfRequest
    <2> QED
      BY <1>1, <2>1 DEF lost_on_failure
  <1>4. ASSUME NEW t, NEW q, NEW w \in {"arg", "parts"}, Piece(w, t, q) \in heap
        PROVE  Piece(w, t, q) \in heap'
    <2>1. ASSUME Piece(w, t, q) \in freed_on_failure PROVE FALSE
      <3>1. side = "write"
        BY <2>1, WhereItFails DEF freed_on_failure
      <3>2. PICK r \in Prefixes(path) : Piece(w, t, q) \in Pieces({"headers", "boundary"}, "write", r)
        BY <2>1, <3>1 DEF freed_on_failure
      <3> QED
        BY <3>2 DEF Piece, Pieces
    <2> QED
      BY <1>1, <1>4, <2>1
  <1>5. CASE side = "request"
    <2>1. args' = args /\ \A t \in Sides : \A q : ~Current(t, q)
      BY <1>1, <1>5 DEF Current, Sides
    <2>2. \A t \in Sides : \A q \in DOMAIN Tree(t) : SettledPart(t, q)
      BY <1>1, <2>1, OthersSettled
    <2> QED
      BY <1>1, <1>2, <1>3, <1>4, <2>1, <2>2, FailureLeaves
  <1>6. CASE side \in Sides
    <2>1. path \in DOMAIN Tree(side) /\ args[side][path] # "unset"
      BY <1>1, <1>6, VisitedIs
    <2>2. args' = [args EXCEPT ![side][path] = arg_on_failure]
      BY <1>1, <1>6 DEF Sides
    <2>3. /\ DOMAIN args' = Sides /\ \A t \in Sides : DOMAIN args'[t] = DOMAIN Tree(t)
          /\ args'[side][path] = arg_on_failure
          /\ \A t \in Sides : \A q \in DOMAIN Tree(t) :
               ~(t = side /\ q = path) => args'[t][q] = args[t][q]
      BY <1>2, <1>6, <2>1, <2>2
    <2>4. ASSUME NEW t \in Sides, NEW q \in DOMAIN Tree(t), ~(t = side /\ q = path)
          PROVE  SettledPart(t, q)
      <3>1. ~Current(t, q)
        BY <2>4 DEF Current
      <3> QED
        BY <1>1, <3>1, OthersSettled
    <2>5. Argument(side, path) /\ Structure(side, path)
      BY <1>1, <1>6, <2>1 DEF IInv, Arguments, Structures
    <2>6. CASE side = "write" /\ stage = "after" /\ step = "current_boundary"
      <3>1. SettledPart(side, path)
        <4>1. ~Current(side, path)
          BY <2>6 DEF Current
        <4> QED
          BY <1>1, <1>6, <2>1, <4>1, OthersSettled
      <3>2. arg_on_failure = args[side][path]
        BY <2>6 DEF arg_on_failure
      <3> QED
        BY <1>1, <1>3, <1>4, <2>3, <2>4, <3>1, <3>2, FailureLeaves
    <2>7. CASE /\ side = "write" /\ stage = "before" /\ step = "headers"
               /\ kind(side, path) \in {"none", "user"}
      <3>1. args[side][path] = "user"
        BY <1>1, <2>1, <2>5, <2>7 DEF Argument, Library
      <3>2. Owned(side, kind(side, path)) = {}
        BY <2>7 DEF Owned, owned_by_write
      <3>3. SettledPart(side, path)
        BY <2>7, <3>1, <3>2 DEF SettledPart, Library
      <3>4. arg_on_failure = args[side][path]
        BY <2>7 DEF arg_on_failure
      <3> QED
        BY <1>1, <1>3, <1>4, <2>3, <2>4, <3>3, <3>4, FailureLeaves
    <2>8. CASE /\ side = "read" /\ stage = "before" /\ step = "arg" /\ made = 0
               /\ kind(side, path) = "json"
      <3>1. arg_on_failure = "null"
        BY <2>8 DEF arg_on_failure
      <3>2. args[side][path] # "own"
        <4>1. Current(side, path) /\ ~Made(AssignedBy(kind(side, path)))
          BY <1>1, <2>8 DEF Current, Made
        <4> QED
          BY <2>5, <4>1 DEF Argument
      <3> QED
        BY <1>1, <1>3, <1>4, <2>1, <2>3, <2>4, <2>8, <3>1, <3>2, FailureLeaves
    <2>9. CASE /\ side = "read" /\ stage = "before" /\ step = "parts" /\ Made("arg")
               /\ kind(side, path) = "multipart"
      <3>1. arg_on_failure = args[side][path]
        BY <2>9 DEF arg_on_failure
      <3>2. args[side][path] = "own"
        BY <1>1, <2>1, <2>5, <2>9 DEF Argument, AssignedBy, Library
      <3>3. Piece("arg", side, path) \in heap
        BY <2>5, <3>2 DEF Structure
      <3> QED
        BY <1>1, <1>3, <1>4, <2>3, <2>4, <2>9, <3>1, <3>2, <3>3, FailureLeaves
    <2> QED
      BY <1>6, <2>6, <2>7, <2>8, <2>9, WhereItFails DEF Sides
  <1> QED
    BY <1>5, <1>6 DEF IInv, TypeControl

----------------------------------------------------------------------------
\* The transfer
LEMMA RunSettled ==
  ASSUME IInv, pc = "run"
  PROVE  Settled /\ \A s \in Sides : \A p \in DOMAIN Tree(s) : args[s][p] # "unset"
  <1>1. \A s, p : ~Current(s, p)
    BY DEF Current
  <1> QED
    BY <1>1, OthersSettled DEF Settled, IInv, Order

\* The transfer only adds what the cleanup knows, and takes away no structure and no array
LEMMA TransferKeeps ==
  ASSUME IInv, pc = "run", UNCHANGED <<request, pc, place, args, misused>>,
         \A s, p : \A w \in {"arg", "parts"} :
           Piece(w, s, p) \in heap => Piece(w, s, p) \in heap',
         \A x \in heap' \ heap : \E w, s, p : x = Piece(w, s, p) /\ Accounted(w, s, p)
  PROVE  IInv'
  <1>1. /\ request' = request /\ pc' = "run" /\ args' = args /\ misused' = misused
        /\ side' = side /\ path' = path /\ stage' = stage /\ made' = made
        /\ \A t : Tree(t)' = Tree(t)
        /\ \A t, q : kind(t, q)' = kind(t, q)
        /\ \A t, q : ~Current(t, q) /\ ~Current(t, q)'
        /\ steps' = steps
    BY DEF place, Tree, kind, Current, steps
  <1>2. TypeControl' /\ Order'
    BY <1>1 DEF IInv, TypeControl, Order
  <1>3. Arguments'
    <2>1. ASSUME NEW s \in Sides, NEW p \in DOMAIN Tree(s) PROVE Argument(s, p)'
      <3>1. Argument(s, p)
        BY DEF IInv, Arguments
      <3> QED
        BY <1>1, <3>1 DEF Argument
    <2> QED
      BY <1>1, <2>1 DEF Arguments
  <1>4. Structures'
    <2>1. ASSUME NEW s \in Sides, NEW p \in DOMAIN Tree(s) PROVE Structure(s, p)'
      <3>1. Structure(s, p)
        BY DEF IInv, Structures
      <3> QED
        BY <1>1, <3>1 DEF Structure, Piece
    <2> QED
      BY <1>1, <2>1 DEF Structures
  <1>5. Pieced'
    <2>1. ASSUME NEW w, NEW s, NEW p, Accounted(w, s, p) PROVE Accounted(w, s, p)'
      BY <1>1, <2>1 DEF Accounted
    <2>2. ASSUME NEW x \in heap'
          PROVE  \E w, s, p : x = Piece(w, s, p) /\ Accounted(w, s, p)'
      <3>1. \E w, s, p : x = Piece(w, s, p) /\ Accounted(w, s, p)
        BY DEF IInv, Pieced
      <3> QED
        BY <2>1, <3>1
    <2> QED
      BY <2>2 DEF Pieced, Piece
  <1>6. Above'
    BY <1>1 DEF IInv, Above, Up, Piece
  <1> QED
    BY <1>1, <1>2, <1>3, <1>4, <1>5, <1>6 DEF IInv

LEMMA ReceiveStep == ASSUME IInv, Receive PROVE IInv'
  <1>1. pc = "run" /\ UNCHANGED <<request, pc, place, args, misused>>
    BY DEF Receive
  <1> PICK p \in DOMAIN request.read : \E what \in added_by_reading(p) :
          heap' = heap \cup {Piece(what, "read", p)}
    BY DEF Receive
  <1>2. PICK what \in added_by_reading(p) : heap' = heap \cup {Piece(what, "read", p)}
    OBVIOUS
  <1>3. "read" \in Sides /\ p \in DOMAIN Tree("read")
    BY DEF Sides, Tree
  <1>4. what \in Loose("read") \cup Owned("read", kind("read", p))
    BY DEF added_by_reading, Loose, Owned, owned_by_read
  <1>5. Accounted(what, "read", p)
    BY <1>1, <1>3, <1>4, RunSettled DEF Accounted, Settled, SettledPart
  <1> QED
    BY <1>1, <1>2, <1>5, TransferKeeps

LEMMA ContinueStep == ASSUME IInv, Continue PROVE IInv'
  <1>1. /\ pc = "run" /\ UNCHANGED <<request, pc, place, args, misused>>
        /\ heap' = heap \ {Piece("response_headers", "read", <<>>)}
    BY DEF Continue
  <1>2. \A s, p : \A w \in {"arg", "parts"} :
          Piece(w, s, p) # Piece("response_headers", "read", <<>>)
    BY DEF Piece
  <1> QED
    BY <1>1, <1>2, TransferKeeps

LEMMA BoundarySentStep == ASSUME IInv, BoundarySent PROVE IInv'
  <1>1. pc = "run" /\ UNCHANGED <<request, pc, place, args, misused>>
    BY DEF BoundarySent
  <1>2. PICK q \in DOMAIN request.write :
          heap' = heap \ {Piece("current_boundary", "write", q)}
    BY DEF BoundarySent
  <1>3. \A s, p : \A w \in {"arg", "parts"} :
          Piece(w, s, p) # Piece("current_boundary", "write", q)
    BY DEF Piece
  <1> QED
    BY <1>1, <1>2, <1>3, TransferKeeps

LEMMA BoundaryDueStep == ASSUME IInv, BoundaryDue PROVE IInv'
  <1>1. pc = "run" /\ UNCHANGED <<request, pc, place, args, misused>>
    BY DEF BoundaryDue
  <1>2. PICK p \in DOMAIN request.write :
          /\ Piece("boundary", "write", p) \in heap
          /\ heap' = heap \cup {Piece("current_boundary", "write", p)}
    BY DEF BoundaryDue
  <1>3. "write" \in Sides /\ p \in DOMAIN Tree("write")
    BY DEF Sides, Tree
  <1>4. "boundary" \in Loose("write") \cup Owned("write", kind("write", p))
    <2>1. PICK w, s, q : Piece("boundary", "write", p) = Piece(w, s, q) /\ Accounted(w, s, q)
      BY <1>2 DEF IInv, Pieced
    <2>2. w = "boundary" /\ s = "write" /\ q = p
      BY <2>1 DEF Piece
    <2> QED
      BY <2>1, <2>2 DEF Accounted
  <1>5. "current_boundary" \in Owned("write", kind("write", p))
    BY <1>4 DEF Loose, Owned, owned_by_write, BufferLists
  <1>6. Accounted("current_boundary", "write", p)
    BY <1>1, <1>3, <1>5, RunSettled DEF Accounted, Settled, SettledPart
  <1> QED
    BY <1>1, <1>2, <1>6, TransferKeeps

\* A block of a data channel goes from a list to another
LEMMA MoveStep ==
  ASSUME IInv, NEW s \in Sides, NEW p \in channels(s), NEW from \in BufferLists(s) \cup {"new"},
         NEW to \in BufferLists(s), Move(s, p, from, to)
  PROVE  IInv'
  <1>1. /\ pc = "run" /\ pc' = "run" /\ request' = request /\ UNCHANGED place /\ args' = args
        /\ misused' = misused
    BY DEF Move
  <1>2. PICK rest \in taken(s, p, from) : heap' = rest \cup {Piece(to, s, p)}
    BY DEF Move
  <1>3. rest = heap \/ (from # "new" /\ rest = heap \ {Piece(from, s, p)})
    BY <1>2 DEF taken
  <1>4. p \in DOMAIN Tree(s) /\ kind(s, p) = "gridftp" /\ s # "request"
    BY DEF channels, Sides
  <1>5. from \notin {"arg", "parts"}
    BY DEF BufferLists
  <1>6. ASSUME NEW t, NEW q, NEW w \in {"arg", "parts"}, Piece(w, t, q) \in heap
        PROVE  Piece(w, t, q) \in heap'
    <2>1. Piece(w, t, q) # Piece(from, s, p)
      BY <1>5 DEF Piece
    <2> QED
      BY <1>2, <1>3, <1>6, <2>1
  <1>7. Accounted(to, s, p)
    <2>1. to \in Owned(s, kind(s, p))
      BY <1>4 DEF Owned
    <2>2. args[s][p] # "unset" /\ args[s][p] = "own"
      BY <1>1, <1>4, <2>1, RunSettled DEF Settled, SettledPart
    <2> QED
      BY <1>4, <2>1, <2>2 DEF Accounted
  <1>8. \A x \in heap' \ heap : \E w, t, q : x = Piece(w, t, q) /\ Accounted(w, t, q)
    BY <1>2, <1>3, <1>7
  <1> QED
    BY <1>1, <1>6, <1>8, TransferKeeps

LEMMA MovesStep ==
  ASSUME IInv,
         \/ RegisterRead \/ ReadCallback \/ BlockCopied
         \/ BlockBegun \/ BlockEnded \/ RegisterWrite \/ WriteCallback
  PROVE  IInv'
  <1>1. "write" \in Sides /\ "read" \in Sides
    BY DEF Sides
  <1>2. CASE RegisterRead \/ ReadCallback \/ BlockCopied
    <2>1. \E p \in channels("write") :
            \E from \in BufferLists("write") \cup {"new"} : \E to \in BufferLists("write") :
              Move("write", p, from, to)
      BY <1>2 DEF RegisterRead, ReadCallback, BlockCopied, BufferLists
    <2> QED
      BY <1>1, <2>1, MoveStep
  <1>3. CASE BlockBegun \/ BlockEnded \/ RegisterWrite \/ WriteCallback
    <2>1. \E p \in channels("read") :
            \E from \in BufferLists("read") \cup {"new"} : \E to \in BufferLists("read") :
              Move("read", p, from, to)
      BY <1>3 DEF BlockBegun, BlockEnded, RegisterWrite, WriteCallback, BufferLists
    <2> QED
      BY <1>1, <2>1, MoveStep
  <1> QED
    BY <1>2, <1>3

----------------------------------------------------------------------------
\* The cleanup comes to every part for which there is anything
LEMMA Reached ==
  ASSUME IInv, pc # "done", NEW s \in Sides, NEW p \in DOMAIN Tree(s), args[s][p] # "unset"
  PROVE  p \in reached(s)
  <1>1. p \in Seq(Nat) /\ Len(p) \in Nat
    BY PartIs DEF IInv, TypeControl
  <1>2. ASSUME NEW q \in Prefixes(p) \ {p} PROVE Piece("parts", s, q) \in heap
    <2>1. PICK l \in 0..Len(p) : q = SubSeq(p, 1, l)
      BY DEF Prefixes
    <2>2. l # Len(p)
      BY <1>1, <2>1, SubSeqFull
    <2>3. l \in 0..(Len(p) - 1) /\ q = Up(p, l)
      BY <1>1, <2>1, <2>2 DEF Up
    <2> QED
      BY <2>3 DEF IInv, Above
  <1> QED
    BY <1>2 DEF reached

LEMMA CleanupStep == ASSUME IInv, Cleanup PROVE IInv'
  <1>1. /\ pc \in {"run", "cleanup"} /\ pc' = "done"
        /\ misused' = UNION {{s} \X {p \in reached(s) : misuses(s, p)} : s \in Sides}
        /\ heap' = heap \ freed
        /\ request' = request /\ args' = args
        /\ side' = side /\ path' = path /\ stage' = stage /\ made' = made
    BY DEF Cleanup, place
  <1>2. \A t, q : ~Current(t, q) /\ ~Current(t, q)'
    BY <1>1 DEF Current
  <1>3. /\ \A t : Tree(t)' = Tree(t)
        /\ \A t, q : kind(t, q)' = kind(t, q)
        /\ steps' = steps
    BY <1>1 DEF Tree, kind, steps
  <1>4. ASSUME NEW x \in heap, x \notin freed
        PROVE  \E s \in Sides : \E p \in channels(s) : x \in Pieces(not_looked_for(s), s, p)
    <2>1. PICK w, s, p : x = Piece(w, s, p) /\ Accounted(w, s, p)
      BY DEF IInv, Pieced
    <2>2. s # "request"
      BY <1>4, <2>1 DEF Accounted, OfRequest, freed, Piece, Pieces
    <2>3. /\ s \in Sides /\ p \in DOMAIN Tree(s) /\ args[s][p] # "unset"
          /\ w \in Loose(s) \cup Owned(s, kind(s, p))
          /\ w \in Loose(s) \/ args[s][p] = "own"
      BY <1>2, <2>1, <2>2 DEF Accounted
    <2>4. p \in reached(s)
      BY <1>1, <2>3, Reached
    <2>5. CASE s = "write"
      <3>1. w \notin freed_by_write(p)
        <4> SUFFICES ASSUME w \in freed_by_write(p) PROVE FALSE
          OBVIOUS
        <4>1. x \in Pieces(freed_by_write(p), "write", p)
          BY <2>1, <2>5 DEF Piece, Pieces
        <4>2. x \in UNION {Pieces(freed_by_write(q), "write", q) : q \in reached("write")}
          BY <2>4, <2>5, <4>1
        <4> QED
          BY <1>4, <4>2 DEF freed
      <3>2. w \notin Loose(s) /\ w \notin owned_by_write(kind(s, p))
        BY <2>3, <2>5, <3>1 DEF freed_by_write, Loose
      <3>3. kind(s, p) = "gridftp" /\ w \in BufferLists(s)
        BY <2>3, <2>5, <3>2 DEF Owned
      <3>4. w \in not_looked_for(s)
        BY <2>5, <3>2, <3>3 DEF BufferLists, not_looked_for, owned_by_write
      <3> QED
        BY <2>1, <2>3, <3>3, <3>4 DEF channels, Piece, Pieces
    <2>6. CASE s = "read"
      <3>1. w \notin freed_by_read(p)
        <4> SUFFICES ASSUME w \in freed_by_read(p) PROVE FALSE
          OBVIOUS
        <4>1. x \in Pieces(freed_by_read(p), "read", p)
          BY <2>1, <2>6 DEF Piece, Pieces
        <4>2. x \in UNION {Pieces(freed_by_read(q), "read", q) : q \in reached("read")}
          BY <2>4, <2>6, <4>1
        <4> QED
          BY <1>4, <4>2 DEF freed
      <3>2. w \notin Loose(s) /\ w \notin owned_by_read(kind(s, p))
        BY <2>3, <2>6, <3>1 DEF freed_by_read, Loose
      <3>3. kind(s, p) = "gridftp" /\ w \in BufferLists(s)
        BY <2>3, <2>6, <3>2 DEF Owned
      <3>4. w # "registered_buffers"
        BY <2>1, <2>3, <2>4, <2>6, <3>3 DEF Cleanup, writes_over, channels
      <3>5. w \in not_looked_for(s)
        BY <2>6, <3>2, <3>3, <3>4 DEF BufferLists, not_looked_for, owned_by_read
      <3> QED
        BY <2>1, <2>3, <3>3, <3>5 DEF channels, Piece, Pieces
    <2> QED
      BY <2>3, <2>5, <2>6 DEF Sides
  <1>5. misused' = {}
    <2>1. ASSUME NEW s \in Sides, NEW p \in reached(s) PROVE ~misuses(s, p)
      <3>1. p \in DOMAIN Tree(s)
        BY DEF reached
      <3>2. Argument(s, p) /\ Structure(s, p)
        BY <1>1, <3>1 DEF IInv, Arguments, Structures
      <3> QED
        BY <1>2, <3>2 DEF misuses, Argument, Structure, Library
    <2>2. \A s \in Sides : {s} \X {p \in reached(s) : misuses(s, p)} = {}
      BY <2>1
    <2> QED
      BY <1>1, <2>2
  <1>6. TypeControl' /\ Order'
    BY <1>1, <1>3 DEF IInv, TypeControl, Order
  <1>7. Arguments'
    <2>1. ASSUME NEW s \in Sides, NEW p \in DOMAIN Tree(s) PROVE Argument(s, p)'
      <3>1. Argument(s, p)
        BY DEF IInv, Arguments
      <3> QED
        BY <1>1, <1>2, <1>3, <3>1 DEF Argument
    <2> QED
      BY <1>1, <1>3, <2>1 DEF Arguments
  <1>8. Structures' /\ Above'
    BY <1>1 DEF Structures, Above
  <1>9. Pieced'
    <2>1. ASSUME NEW w, NEW s, NEW p, Accounted(w, s, p) PROVE Accounted(w, s, p)'
      BY <1>1, <1>2, <1>3, <2>1 DEF Accounted
    <2>2. heap' \subseteq heap
      BY <1>1
    <2> QED
      BY <2>1, <2>2 DEF IInv, Pieced, Piece
  <1>10. Left'
    <2>1. \A s : (channels(s)' = channels(s)) /\ (not_looked_for(s)' = not_looked_for(s))
      BY <1>3 DEF channels, not_looked_for
    <2>2. \A x \in heap' : x \in heap /\ x \notin freed
      BY <1>1
    <2> QED
      BY <1>4, <2>1, <2>2 DEF Left, Pieces
  <1> QED
    BY <1>1, <1>5, <1>6, <1>7, <1>8, <1>9, <1>10 DEF IInv

----------------------------------------------------------------------------
\* The invariant
LEMMA InitIInv == Init => IInv
  <1> SUFFICES ASSUME Init PROVE IInv
    OBVIOUS
  <1>1. /\ request \in Requests /\ pc = "prepare"
        /\ side = "write" /\ path = <<>> /\ stage = "before" /\ made = 0
        /\ heap = {} /\ misused = {}
        /\ args = [s \in Sides |->
             [p \in DOMAIN Tree(s) |-> IF s = "write" /\ p = <<>> THEN "user" ELSE "unset"]]
    BY DEF Init
  <1>2. "write" \in Sides /\ <<>> \in DOMAIN Tree("write")
    <2>1. "write" \in Sides
      BY DEF Sides
    <2> QED
      BY <1>1, <2>1, TreeIs DEF IsTree
  <1>3. /\ DOMAIN args = Sides /\ \A s \in Sides : DOMAIN args[s] = DOMAIN Tree(s)
        /\ \A s \in Sides : \A p \in DOMAIN Tree(s) :
             args[s][p] = IF s = "write" /\ p = <<>> THEN "user" ELSE "unset"
    BY <1>1
  <1>4. TypeControl
    <2>1. request.write[<<>>] \in Node(WriteKinds)
      BY <1>1, <1>2, PartIs DEF Tree, Kinds
    <2>2. steps = write_steps(request.write[<<>>])
      BY <1>1 DEF steps
    <2>3. Len(steps) \in Nat
      BY <2>1, <2>2, WriteSteps DEF Orderly
    <2> QED
      BY <1>1, <1>2, <1>3, <2>3 DEF TypeControl
  <1>5. Order
    <2>1. ASSUME NEW s \in Sides, NEW p \in DOMAIN Tree(s)
          PROVE  Visited(s, p) <=> s = "write" /\ p = <<>>
      <3>1. p \in Seq(Nat)
        BY <1>1, PartIs
      <3>2. PassedAt(p, <<>>, FALSE) <=> p = <<>>
        BY <3>1, PassRoot
      <3>3. Passed(p) <=> PassedAt(p, <<>>, FALSE)
        BY <1>1 DEF Passed, PassedAt, Under, Earlier
      <3> QED
        BY <1>1, <3>2, <3>3 DEF Visited
    <2> QED
      BY <1>1, <1>3, <2>1 DEF Order
  <1>6. \A w : ~Made(w)
    BY <1>1 DEF Made
  <1>7. Current("write", <<>>)
    BY <1>1 DEF Current
  <1>8. Arguments
    BY <1>3, <1>6, <1>7 DEF Arguments, Argument
  <1>9. Structures
    BY <1>3, <1>6, <1>7 DEF Structures, Structure
  <1>10. Pieced
    BY <1>1 DEF Pieced
  <1>11. Above
    <2>1. ASSUME NEW s \in Sides, NEW p \in DOMAIN Tree(s), args[s][p] # "unset"
          PROVE  0..(Len(p) - 1) = {}
      <3>1. p = <<>>
        BY <1>3, <2>1
      <3>2. Len(p) = 0
        BY <3>1
      <3> QED
        BY <3>2
    <2> QED
      BY <2>1 DEF Above
  <1> QED
    BY <1>1, <1>4, <1>5, <1>8, <1>9, <1>10, <1>11 DEF IInv

LEMMA UnchangedIInv == ASSUME IInv, UNCHANGED vars PROVE IInv'
  <1>1. /\ request' = request /\ pc' = pc /\ side' = side /\ path' = path
        /\ stage' = stage /\ made' = made /\ heap' = heap /\ args' = args
        /\ misused' = misused
    BY DEF vars, place
  <1>2. /\ \A t : Tree(t)' = Tree(t)
        /\ \A t, q : kind(t, q)' = kind(t, q)
        /\ steps' = steps
    BY <1>1 DEF Tree, kind, steps
  <1>3. /\ \A t, q : Current(t, q)' <=> Current(t, q)
        /\ \A t, q : Visited(t, q)' <=> Visited(t, q)
        /\ \A w : Made(w)' <=> Made(w)
    BY <1>1, <1>2 DEF Current, Visited, Passed, PassedAt, Under, Earlier, Made
  <1>4. TypeControl' /\ Order' /\ Above'
    BY <1>1, <1>2, <1>3 DEF IInv, TypeControl, Order, Above, Up, Piece
  <1>5. Arguments'
    <2>1. ASSUME NEW s \in Sides, NEW p \in DOMAIN Tree(s) PROVE Argument(s, p)'
      <3>1. Argument(s, p)
        BY DEF IInv, Arguments
      <3> QED
        BY <1>1, <1>2, <1>3, <3>1 DEF Argument
    <2> QED
      BY <1>2, <2>1 DEF Arguments
  <1>6. Structures'
    <2>1. ASSUME pc # "done", NEW s \in Sides, NEW p \in DOMAIN Tree(s)
          PROVE  Structure(s, p)'
      <3>1. Structure(s, p)
        BY <2>1 DEF IInv, Structures
      <3> QED
        BY <1>1, <1>2, <1>3, <3>1 DEF Structure, Piece
    <2> QED
      BY <1>1, <1>2, <2>1 DEF Structures
  <1>7. Pieced'
    <2>1. ASSUME NEW w, NEW s, NEW p, Accounted(w, s, p) PROVE Accounted(w, s, p)'
      BY <1>1, <1>2, <1>3, <2>1 DEF Accounted
    <2> QED
      BY <1>1, <2>1 DEF IInv, Pieced, Piece
  <1>8. Left <=> Left'
    BY <1>1, <1>2 DEF Left, channels, not_looked_for, Pieces
  <1> QED
    BY <1>1, <1>4, <1>5, <1>6, <1>7, <1>8 DEF IInv

\* Whichever step fails, what holds of it is the invariant, or the preparation is given up
LEMMA OrdinaryStep == ASSUME IInv, [Next]_vars, ~StepFails PROVE IInv'
  <1>1. CASE StepSucceeds
    BY <1>1, StepSucceedsStep
  <1>2. CASE FirstPart
    BY <1>2, FirstPartStep
  <1>3. CASE NextPart
    BY <1>3, NextPartStep
  <1>4. CASE AfterParts
    BY <1>4, AfterPartsStep
  <1>5. CASE StartRead
    BY <1>5, StartReadStep
  <1>6. CASE StartRequest
    BY <1>6, StartRequestStep
  <1>7. CASE Run
    BY <1>7, RunStep
  <1>8. CASE Receive
    BY <1>8, ReceiveStep
  <1>9. CASE Continue
    BY <1>9, ContinueStep
  <1>10. CASE BoundarySent
    BY <1>10, BoundarySentStep
  <1>11. CASE BoundaryDue
    BY <1>11, BoundaryDueStep
  <1>12. CASE \/ RegisterRead \/ ReadCallback \/ BlockCopied
              \/ BlockBegun \/ BlockEnded \/ RegisterWrite \/ WriteCallback
    BY <1>12, MovesStep
  <1>13. CASE Cleanup
    BY <1>13, CleanupStep
  <1>14. CASE UNCHANGED vars
    BY <1>14, UnchangedIInv
  <1>15. CASE Done
    BY <1>15, UnchangedIInv DEF Done
  <1> QED
    BY <1>1, <1>2, <1>3, <1>4, <1>5, <1>6, <1>7, <1>8, <1>9, <1>10, <1>11, <1>12, <1>13,
       <1>14, <1>15 DEF Next

LEMMA IInvTypes == ASSUME IInv PROVE TypeOK
  <1>1. ASSUME NEW s \in Sides, NEW p \in DOMAIN Tree(s)
        PROVE  /\ args[s][p] \in {"unset", "user", "own", "null"}
               /\ args[s][p] = "own" /\ pc # "done" => Piece("arg", s, p) \in heap
    BY DEF IInv, Arguments, Argument, Structures, Structure
  <1> QED
    BY <1>1 DEF IInv, TypeControl, TypeOK

\* Once the preparation is given up
GivenUp == pc \in {"cleanup", "done"} /\ TypeOK

LEMMA GiveUp == ASSUME IInv, StepFails PROVE GivenUp'
  <1>1. /\ pc = "prepare" /\ pc' = "cleanup" /\ request' = request
        /\ side' = side /\ path' = path /\ stage' = stage /\ made' = made
        /\ heap \ freed_on_failure \subseteq heap'
        /\ args' = IF side = "request" THEN args
                   ELSE [args EXCEPT ![side][path] = arg_on_failure]
    BY DEF StepFails, preparing, place
  <1>2. (\A t : Tree(t)' = Tree(t)) /\ steps' = steps
    BY <1>1 DEF Tree, steps
  <1>3. DOMAIN args = Sides /\ \A t \in Sides : DOMAIN args[t] = DOMAIN Tree(t)
    BY DEF IInv, TypeControl
  <1>4. ASSUME NEW s \in Sides, NEW p \in DOMAIN Tree(s)
        PROVE  /\ args'[s][p] \in {"unset", "user", "own", "null"}
               /\ args'[s][p] = "own" => Piece("arg", s, p) \in heap'
    <2>1. /\ args[s][p] \in {"unset", "user", "own", "null"}
          /\ args[s][p] = "own" => Piece("arg", s, p) \in heap
      BY <1>1 DEF IInv, Arguments, Argument, Structures, Structure
    <2>2. \/ args'[s][p] = args[s][p]
          \/ side = s /\ path = p /\ args'[s][p] = arg_on_failure
      BY <1>1, <1>3
    <2>3. args'[s][p] = args[s][p] \/ args'[s][p] = "null"
      BY <2>2 DEF arg_on_failure
    <2>4. ASSUME Piece("arg", s, p) \in freed_on_failure PROVE args'[s][p] = "null"
      <3>1. \A w, r : Piece("arg", s, p) \in Pieces({"headers", "boundary"}, w, r) => FALSE
        BY DEF Piece, Pieces
      <3>2. side # "write"
        BY <2>4, <3>1 DEF freed_on_failure
      <3>3. side = "read" /\ step = "mutex" /\ Piece("arg", s, p) = Piece("arg", side, path)
        BY <2>4, <3>2 DEF freed_on_failure
      <3>4. s = side /\ p = path
        BY <3>3 DEF Piece
      <3>5. args' = [args EXCEPT ![side][path] = "null"]
        BY <1>1, <3>3 DEF arg_on_failure
      <3> QED
        BY <1>3, <3>4, <3>5
    <2> QED
      BY <1>1, <2>1, <2>3, <2>4
  <1>5. TypeOK'
    BY <1>1, <1>2, <1>4 DEF IInv, TypeControl, TypeOK, Piece
  <1> QED
    BY <1>1, <1>5 DEF GivenUp

LEMMA StayGivenUp == ASSUME GivenUp, [Next]_vars PROVE GivenUp'
  <1>1. Cleanup \/ UNCHANGED vars
    BY DEF GivenUp, Next, Done, StepSucceeds, StepFails, preparing, all_made, FirstPart,
       NextPart, AfterParts, StartRead, StartRequest, Run, Receive, Continue, BoundarySent,
       BoundaryDue, RegisterRead, ReadCallback, BlockCopied, BlockBegun, BlockEnded,
       RegisterWrite, WriteCallback, Move
  <1>2. /\ request' = request /\ args' = args
        /\ side' = side /\ path' = path /\ stage' = stage /\ made' = made
        /\ pc' \in {"cleanup", "done"}
        /\ pc' = "done" \/ (pc' = pc /\ heap' = heap)
    BY <1>1 DEF GivenUp, Cleanup, vars, place
  <1>3. (\A t : Tree(t)' = Tree(t)) /\ steps' = steps
    BY <1>2 DEF Tree, steps
  <1>4. TypeOK'
    BY <1>2, <1>3 DEF GivenUp, TypeOK, Piece
  <1> QED
    BY <1>2, <1>4 DEF GivenUp

\* Until a step fails the invariant holds, whichever steps may fail
LEMMA UntilFailure == Spec => [](IInv \/ GivenUp)
  <1>1. ASSUME IInv \/ GivenUp, [Next]_vars PROVE IInv' \/ GivenUp'
    BY <1>1, OrdinaryStep, GiveUp, StayGivenUp
  <1>2. Init => IInv \/ GivenUp
    BY InitIInv
  <1>3. (IInv \/ GivenUp) /\ [Next]_vars => (IInv \/ GivenUp)'
    BY <1>1
  <1> QED
    BY <1>2, <1>3, PTL DEF Spec

\* Where the preparation is, which parts have been come to, and for each of them whose
\* argument it has, what is allocated for it and where the cleanup finds it: this is kept
\* by every step of the preparation, the transfer and the cleanup.
THEOREM RequestMemoryInvariant == Failures \subseteq Recoverable => (Spec => []IInv)
  <1> SUFFICES ASSUME Failures \subseteq Recoverable PROVE Spec => []IInv
    OBVIOUS
  <1>1. IInv /\ [Next]_vars => IInv'
    BY OrdinaryStep, StepFailsStep
  <1> QED
    BY <1>1, InitIInv, PTL DEF Spec

\* Types, for any tree of parts and any failures; a part with an argument of the library's
\* own has its structure (globus_l_dsi_rest_prepare_write_callbacks and its counterpart for
\* reading).
THEOREM RequestMemoryTypes == Spec => []TypeOK
  <1>1. IInv \/ GivenUp => TypeOK
    BY IInvTypes DEF GivenUp
  <1> QED
    BY <1>1, UntilFailure, PTL

\* When the transfer starts every part of every message, however deep, has been prepared,
\* whichever steps may fail: the recursion of request.c leaves none out.
THEOREM AllPreparedHolds == Spec => []AllPrepared
  <1>1. IInv \/ GivenUp => AllPrepared
    <2> SUFFICES ASSUME IInv, pc = "run" PROVE AllPrepared
      BY DEF AllPrepared, GivenUp
    <2>1. ASSUME NEW s \in Sides, NEW p \in DOMAIN Tree(s)
          PROVE  args[s][p] = IF kind(s, p) \in {"none", "user"} THEN "user" ELSE "own"
      BY RunSettled DEF Settled, SettledPart, Library
    <2> QED
      BY <2>1 DEF AllPrepared
  <1> QED
    BY <1>1, UntilFailure, PTL

\* The cleanup touches only structures that the library made, for any tree of parts and
\* after any of the failures that the code recovers from (request_cleanup.c).
THEOREM UsersMemoryKeptHolds == Failures \subseteq Recoverable => (Spec => []UsersMemoryKept)
  <1>1. IInv => UsersMemoryKept
    BY DEF IInv, UsersMemoryKept
  <1> QED
    BY <1>1, RequestMemoryInvariant, PTL

\* ... and frees all that was allocated for the request but the blocks of a data channel
\* that it does not look for, and none of those is one that a download's writes use.
THEOREM OnlyBuffersLeftHolds == Failures \subseteq Recoverable => (Spec => []OnlyBuffersLeft)
  <1>1. IInv => OnlyBuffersLeft
    BY DEF IInv, Left, OnlyBuffersLeft
  <1> QED
    BY <1>1, RequestMemoryInvariant, PTL

=============================================================================
