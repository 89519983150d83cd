-------------------------- MODULE MCRequestMemory ---------------------------
\* RequestMemory with every kind of part, alone and in messages of parts.
EXTENDS RequestMemory

Leaf(k) == [kind |-> k, parts |-> 0, headers |-> FALSE, content_type |-> "none"]
Message(n, type) ==
  [kind |-> "multipart", parts |-> n, headers |-> type # "none", content_type |-> type]
Single(node) == [p \in {<<>>} |-> node]
Pair(root, first, second) ==
  [p \in {<<>>, <<1>>, <<2>>} |->
     CASE p = <<>> -> root [] p = <<1>> -> first [] OTHER -> second]

WithHeaders(k) == [Leaf(k) EXCEPT !.headers = TRUE]

\* A message in a message
Nested(type, inner) ==
  [p \in {<<>>, <<1>>, <<2>>, <<2, 1>>} |->
     CASE p = <<>> -> Message(2, type)
       [] p = <<1>> -> WithHeaders("json")
       [] p = <<2>> -> Message(1, inner)
       [] OTHER -> Leaf("form")]

Leaves == WriteKinds \ {"multipart"}
MCWrites ==
  {Single(Leaf(k)) : k \in Leaves} \cup {Single(WithHeaders(k)) : k \in Leaves}
  \cup {Pair(Message(2, type), Leaf(k), WithHeaders(l)) :
          type \in {"none", "multipart", "other"}, k, l \in Leaves \ {"none", "gridftp"}}
  \cup {Nested(type, inner) : type, inner \in {"none", "multipart", "other"}}

MCReads ==
  {Single(Leaf(k)) : k \in {"none", "user", "json", "gridftp"}}
  \cup {Pair(Message(2, "none"), Leaf("json"), Leaf(k)) : k \in {"user", "json", "gridftp"}}

MCRequests ==
  {[write |-> w, read |-> Single(Leaf("json"))] : w \in MCWrites}
  \cup {[write |-> w, read |-> r] :
          w \in {Single(Leaf("none")), Nested("none", "none")}, r \in MCReads}
=============================================================================
