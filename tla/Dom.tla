-------------------------------- MODULE Dom --------------------------------
(***************************************************************************)
(* The node lists of TinyXML, the library with which the Client builds and *)
(* reads its messages (src/Client/tinyxml.cpp, class TiXmlNode).  A node   *)
(* keeps its parent, its first and its last child, and its two neighbours  *)
(* among its siblings: five raw pointers, updated one by one by every      *)
(* operation.  The nodes live on the heap, so a node is an address of      *)
(* Nodes and an address may be used again once its node was deleted.       *)
(*                                                                         *)
(* DomTree states what the lists are for.                                  *)
(***************************************************************************)
EXTENDS Integers, Sequences, FiniteSets, Functions

CONSTANTS Nodes,   \* the addresses of the heap
          Null     \* the null pointer

ASSUME NullAssumption == Null \notin Nodes
ASSUME HeapIsFinite == IsFiniteSet(Nodes)

VARIABLES kind,         \* what lives at an address, "free" if nothing does
          parent, firstChild, lastChild, prev, next,
          error,        \* the documents whose error is set
          reading       \* the parser's stack: nodes identified, not yet linked

links == <<parent, firstChild, lastChild, prev, next>>
vars == <<kind, parent, firstChild, lastChild, prev, next, error, reading>>

\* A comment, a declaration and an unknown node behave like a text here:
\* nothing is ever linked below them.
Kinds == {"free", "document", "element", "text"}
Pointer == Nodes \cup {Null}

TypeOK ==
    /\ kind \in [Nodes -> Kinds]
    /\ parent \in [Nodes -> Pointer]
    /\ firstChild \in [Nodes -> Pointer]
    /\ lastChild \in [Nodes -> Pointer]
    /\ prev \in [Nodes -> Pointer]
    /\ next \in [Nodes -> Pointer]
    /\ error \subseteq Nodes
    /\ reading \in Seq(Nodes)

Free == {n \in Nodes : kind[n] = "free"}
Live == Nodes \ Free
Holders == {n \in Nodes : kind[n] \in {"document", "element"}}

\* A node that is its parent's child in the list, not only by its parent field.
Linked(n) == parent[n] # Null /\ (prev[n] # Null \/ firstChild[parent[n]] = n)

Below(n) == {c \in Nodes : parent[c] = n}
Closed(S) == \A n \in Nodes : parent[n] \in S => n \in S

\* A node with everything below it: the least closed set that holds it.
Subtree(t) == {n \in Nodes : \A S \in SUBSET Nodes : t \in S /\ Closed(S) => n \in S}

GetDocument(n) ==
    LET above == {d \in Nodes : kind[d] = "document" /\ n \in Subtree(d)}
    IN  IF above = {} THEN Null ELSE CHOOSE d \in above : TRUE

----------------------------------------------------------------------------
(* Pointer updates shared by the operations *)

\* The statement "if ( n ) n->f = v": nothing happens at the null pointer.
Put(f, n, v) == [m \in Nodes |-> IF m = n THEN v ELSE f[m]]

\* Pointer field f after the nodes DOMAIN at were copied to the addresses of at:
\* a pointer within the original becomes one within the copy.
Copied(f, at) ==
    [n \in Nodes |->
        IF \E m \in DOMAIN at : at[m] = n
        THEN LET m == CHOOSE o \in DOMAIN at : at[o] = n
             IN  IF f[m] \in DOMAIN at THEN at[f[m]] ELSE Null
        ELSE f[n]]

CopiedKind(at) ==
    [n \in Nodes |-> IF \E m \in DOMAIN at : at[m] = n
                     THEN kind[CHOOSE o \in DOMAIN at : at[o] = n]
                     ELSE kind[n]]

\* Mutant of Clone: CopyTo forgets the children.
CloneAlone(n) == Injection({n}, Free)

\* The ways to put a copy of n, and of everything below it, at unused addresses.
Clone(n) == Injection(Subtree(n), Free)

\* The destructor deletes the children, and theirs.
Freed(f, S) == [n \in Nodes |-> IF n \in S THEN Null ELSE f[n]]
FreedKind(k, S) == [n \in Nodes |-> IF n \in S THEN "free" ELSE k[n]]

\* Mutant of SpliceLinks: the right neighbour keeps its old prev.
SpliceLinksOneWay(p, l, n, r, at, dead) ==
    /\ parent' = Freed(Put(Copied(parent, at), n, p), dead)
    /\ prev' = Freed(Put(Copied(prev, at), n, l), dead)
    /\ next' = Freed(Put(Put(Copied(next, at), n, r), l, n), dead)
    /\ firstChild' = Freed(Put(Copied(firstChild, at), IF l = Null THEN p ELSE Null, n), dead)
    /\ lastChild' = Freed(Put(Copied(lastChild, at), IF r = Null THEN p ELSE Null, n), dead)

\* Node n becomes a child of p between the siblings l and r, either of which may
\* be null; at tells which nodes were copied first, dead which are deleted last.
SpliceLinks(p, l, n, r, at, dead) ==
    /\ parent' = Freed(Put(Copied(parent, at), n, p), dead)
    /\ prev' = Freed(Put(Put(Copied(prev, at), n, l), r, n), dead)
    /\ next' = Freed(Put(Put(Copied(next, at), n, r), l, n), dead)
    /\ firstChild' = Freed(Put(Copied(firstChild, at), IF l = Null THEN p ELSE Null, n), dead)
    /\ lastChild' = Freed(Put(Copied(lastChild, at), IF r = Null THEN p ELSE Null, n), dead)

Splice(p, l, n, r, at, dead) ==
    /\ SpliceLinks(p, l, n, r, at, dead)
    /\ kind' = FreedKind(CopiedKind(at), dead)

NoCopy == [n \in {} |-> n]

\* Mutant of SetError: no test whether the node is in a document at all.
SetErrorUnchecked(n) == error' = error \cup {GetDocument(n)}

SetError(n) == error' = error \cup {d \in {GetDocument(n)} : d # Null}

\* Node n and everything below it is deleted; nothing outside points to it.
DeleteTree(n) ==
    /\ kind' = FreedKind(kind, Subtree(n))
    /\ parent' = Freed(parent, Subtree(n))
    /\ prev' = Freed(prev, Subtree(n))
    /\ next' = Freed(next, Subtree(n))
    /\ firstChild' = Freed(firstChild, Subtree(n))
    /\ lastChild' = Freed(lastChild, Subtree(n))

----------------------------------------------------------------------------
(* The operations *)

Init ==
    /\ kind = [n \in Nodes |-> "free"]
    /\ parent = [n \in Nodes |-> Null]
    /\ firstChild = [n \in Nodes |-> Null]
    /\ lastChild = [n \in Nodes |-> Null]
    /\ prev = [n \in Nodes |-> Null]
    /\ next = [n \in Nodes |-> Null]
    /\ error = {}
    /\ reading = <<>>

\* The constructors leave all five pointers null.
New(n, k) ==
    /\ kind[n] = "free" /\ k # "free"
    /\ reading = <<>>
    /\ kind' = [kind EXCEPT ![n] = k]
    /\ UNCHANGED <<links, error, reading>>

\* A document cannot be linked: it is deleted and the error of this document set.
\* The caller hands over a node of its own that this is not below.
LinkEndChild(p, n) ==
    /\ reading = <<>>
    /\ p \in Holders /\ n \in Live
    /\ parent[n] = Null
    /\ p \notin Subtree(n)
    /\ IF kind[n] = "document"
       THEN /\ DeleteTree(n)
            /\ error' = (error \ {n}) \cup {d \in {GetDocument(p)} : d # Null}
       ELSE /\ Splice(p, lastChild[p], n, Null, NoCopy, {})
            /\ UNCHANGED error
    /\ UNCHANGED reading

\* The four operations that link a copy of a node leave early for a document.
TopOnly(p, a) ==
    /\ kind[a] = "document"
    /\ SetError(p)
    /\ UNCHANGED <<kind, links, reading>>

\* Mutant of InsertEndChild: the argument is linked, not a copy of it.
InsertEndChildItself(p, a) ==
    /\ reading = <<>>
    /\ p \in Holders /\ a \in Live
    /\ \/ TopOnly(p, a)
       \/ /\ kind[a] # "document"
          /\ Splice(p, lastChild[p], a, Null, NoCopy, {})
          /\ UNCHANGED <<error, reading>>

InsertEndChild(p, a) ==
    /\ reading = <<>>
    /\ p \in Holders /\ a \in Live
    /\ \/ TopOnly(p, a)
       \/ /\ kind[a] # "document"
          /\ \E at \in Clone(a) : Splice(p, lastChild[p], at[a], Null, at, {})
          /\ UNCHANGED <<error, reading>>

\* Nothing happens if beforeThis is no child of this.
InsertBeforeChild(p, b, a) ==
    /\ reading = <<>>
    /\ p \in Holders /\ a \in Live
    /\ parent[b] = p
    /\ \/ TopOnly(p, a)
       \/ /\ kind[a] # "document"
          /\ \E at \in Clone(a) : Splice(p, prev[b], at[a], b, at, {})
          /\ UNCHANGED <<error, reading>>

InsertAfterChild(p, b, a) ==
    /\ reading = <<>>
    /\ p \in Holders /\ a \in Live
    /\ parent[b] = p
    /\ \/ TopOnly(p, a)
       \/ /\ kind[a] # "document"
          /\ \E at \in Clone(a) : Splice(p, b, at[a], next[b], at, {})
          /\ UNCHANGED <<error, reading>>

\* The copy is made before the old child is deleted, so it may come from it.
ReplaceChild(p, r, a) ==
    /\ reading = <<>>
    /\ p \in Holders /\ a \in Live
    /\ parent[r] = p
    /\ \/ TopOnly(p, a)
       \/ /\ kind[a] # "document"
          /\ \E at \in Clone(a) : Splice(p, prev[r], at[a], next[r], at, Subtree(r))
          /\ UNCHANGED <<error, reading>>

\* Mutant of RemoveChild: the last child of p stays what it was.
RemoveChildKeepsLast(p, r) ==
    /\ reading = <<>>
    /\ p \in Holders /\ parent[r] = p
    /\ LET dead == Subtree(r)
       IN  /\ prev' = Freed(Put(prev, next[r], prev[r]), dead)
           /\ next' = Freed(Put(next, prev[r], next[r]), dead)
           /\ lastChild' = Freed(lastChild, dead)
           /\ firstChild' = Freed(IF prev[r] = Null THEN Put(firstChild, p, next[r])
                                  ELSE firstChild, dead)
           /\ parent' = Freed(parent, dead)
           /\ kind' = FreedKind(kind, dead)
    /\ UNCHANGED <<error, reading>>

RemoveChild(p, r) ==
    /\ reading = <<>>
    /\ p \in Holders /\ parent[r] = p
    /\ LET dead == Subtree(r)
       IN  /\ prev' = Freed(Put(prev, next[r], prev[r]), dead)
           /\ next' = Freed(Put(next, prev[r], next[r]), dead)
           /\ lastChild' = Freed(IF next[r] = Null THEN Put(lastChild, p, prev[r])
                                 ELSE lastChild, dead)
           /\ firstChild' = Freed(IF prev[r] = Null THEN Put(firstChild, p, next[r])
                                  ELSE firstChild, dead)
           /\ parent' = Freed(parent, dead)
           /\ kind' = FreedKind(kind, dead)
    /\ UNCHANGED <<error, reading>>

Clear(p) ==
    /\ reading = <<>>
    /\ p \in Holders
    /\ LET dead == Subtree(p) \ {p}
       IN  /\ prev' = Freed(prev, dead)
           /\ next' = Freed(next, dead)
           /\ parent' = Freed(parent, dead)
           /\ lastChild' = Put(Freed(lastChild, dead), p, Null)
           /\ firstChild' = Put(Freed(firstChild, dead), p, Null)
           /\ kind' = FreedKind(kind, dead)
    /\ UNCHANGED <<error, reading>>

\* The owner of a tree deletes its root, as the build functions' local document does.
Delete(n) ==
    /\ reading = <<>>
    /\ n \in Live /\ parent[n] = Null
    /\ DeleteTree(n)
    /\ error' = error \ {n}
    /\ UNCHANGED reading

(***************************************************************************)
(* The parser links a node only after it has parsed it, children and all,  *)
(* but tells it its parent before, "so it can report errors".              *)
(***************************************************************************)

Top == reading[Len(reading)]

\* Document::Parse clears the error and appends to the children that are there.
Parse(d) ==
    /\ reading = <<>>
    /\ kind[d] = "document"
    /\ error' = error \ {d}
    /\ reading' = <<d>>
    /\ UNCHANGED <<kind, links>>

\* What comes next is a node: it is made, and its own Parse begins.
Identify(n, k) ==
    /\ reading # <<>> /\ Top \in Holders
    /\ kind[n] = "free" /\ k \in {"element", "text"}
    /\ kind' = [kind EXCEPT ![n] = k]
    /\ parent' = [parent EXCEPT ![n] = Top]
    /\ reading' = Append(reading, n)
    /\ UNCHANGED <<firstChild, lastChild, prev, next, error>>

\* Its Parse returned, successfully or not: it is linked either way.
LinkParsed(failed) ==
    /\ Len(reading) > 1
    /\ Splice(parent[Top], lastChild[parent[Top]], Top, Null, NoCopy, {})
    /\ reading' = SubSeq(reading, 1, Len(reading) - 1)
    /\ IF failed THEN SetError(Top) ELSE UNCHANGED error

\* A text of ReadValue is not identified: it gets its parent when it is linked.
ReadText(n) ==
    /\ Len(reading) > 1 /\ kind[Top] = "element"
    /\ kind[n] = "free"
    /\ SpliceLinks(Top, lastChild[Top], n, Null, NoCopy, {})
    /\ kind' = [kind EXCEPT ![n] = "text"]
    /\ UNCHANGED <<error, reading>>

\* A document that got no child is an error.
ParseEnds ==
    /\ Len(reading) = 1
    /\ error' = error \cup {d \in {Top} : firstChild[d] = Null}
    /\ reading' = <<>>
    /\ UNCHANGED <<kind, links>>

Next ==
    \/ \E n \in Nodes, k \in Kinds : New(n, k)
    \/ \E p, n \in Nodes : LinkEndChild(p, n)
    \/ \E p, a \in Nodes : InsertEndChild(p, a)
    \/ \E p, b, a \in Nodes : InsertBeforeChild(p, b, a)
    \/ \E p, b, a \in Nodes : InsertAfterChild(p, b, a)
    \/ \E p, r, a \in Nodes : ReplaceChild(p, r, a)
    \/ \E p, r \in Nodes : RemoveChild(p, r)
    \/ \E p \in Nodes : Clear(p)
    \/ \E n \in Nodes : Delete(n)
    \/ \E d \in Nodes : Parse(d)
    \/ \E n \in Nodes, k \in Kinds : Identify(n, k)
    \/ \E failed \in BOOLEAN : LinkParsed(failed)
    \/ \E n \in Nodes : ReadText(n)
    \/ ParseEnds

Spec == Init /\ [][Next]_vars

----------------------------------------------------------------------------
(* What must hold of the pointers *)

\* The children of p, read forward from firstChild along next, and backward from
\* lastChild along prev; a walk that does not end is cut after as many nodes as
\* there are.
Walk(start, step) ==
    LET from[i \in 0..Cardinality(Nodes) + 1] ==
            [n \in Pointer |-> IF i = 0 \/ n = Null THEN <<>>
                               ELSE <<n>> \o from[i - 1][step[n]]]
    IN  from[Cardinality(Nodes) + 1][start]

Kids(p) == Walk(firstChild[p], next)
KidsBack(p) == Walk(lastChild[p], prev)

\* Nodes identified whose own Parse has not returned.
Pending == {reading[i] : i \in 2..Len(reading)}

(* A walk over the children forward and one backward find the same nodes,
   and these are the nodes whose parent field names p and which the parser
   does not still hold.  A single pointer left behind in one of the six
   operations breaks it, one call or several calls later. *)
WalksAgree ==
    \A p \in Nodes :
        /\ Len(KidsBack(p)) = Len(Kids(p))
        /\ \A i \in DOMAIN Kids(p) : Kids(p)[i] = KidsBack(p)[Len(Kids(p)) + 1 - i]
        /\ Len(Kids(p)) = Cardinality(Below(p) \ Pending)
        /\ Range(Kids(p)) = Below(p) \ Pending

(* The local form of it, which is inductive: neighbours know each other and
   share their parent, the first and last child are the ones without a
   neighbour on that side, and what the parser holds is in no list. *)
WellLinked ==
    /\ \A n \in Nodes : next[n] # Null => prev[next[n]] = n /\ parent[next[n]] = parent[n]
    /\ \A n \in Nodes : prev[n] # Null => next[prev[n]] = n /\ parent[prev[n]] = parent[n]
    /\ \A p \in Nodes : firstChild[p] # Null =>
            parent[firstChild[p]] = p /\ prev[firstChild[p]] = Null
    /\ \A p \in Nodes : lastChild[p] # Null =>
            parent[lastChild[p]] = p /\ next[lastChild[p]] = Null
    /\ \A n \in Nodes : parent[n] # Null /\ n \notin Pending =>
            /\ prev[n] = Null => firstChild[parent[n]] = n
            /\ next[n] = Null => lastChild[parent[n]] = n
    /\ \A n \in Pending :
            /\ prev[n] = Null /\ next[n] = Null /\ parent[n] # Null
            /\ firstChild[parent[n]] # n /\ lastChild[parent[n]] # n
    /\ \A n \in Nodes : parent[n] = Null => prev[n] = Null /\ next[n] = Null

(* No pointer of the tree leads to a deleted node, and a deleted node, whose
   address the next new may return, keeps no pointer: a destructor that ran
   over it again would delete somebody else's children. *)
NoDangling ==
    /\ \A n \in Free : /\ parent[n] = Null /\ firstChild[n] = Null /\ lastChild[n] = Null
                       /\ prev[n] = Null /\ next[n] = Null
    /\ \A n \in Live : {parent[n], firstChild[n], lastChild[n], prev[n], next[n]} \cap Free = {}

\* No node is below itself: the destructor, Clone and GetDocument end.
Acyclic == \A n \in Nodes : parent[n] # Null => parent[n] \notin Subtree(n)

\* The promise: ordered trees, edited as a whole.
Tree == INSTANCE DomTree WITH kids <- [n \in Nodes |-> Kids(n)]
ImplementsTree == Tree!Spec
=============================================================================
