------------------------------ MODULE DomProofs ------------------------------
(* Dom for every heap: the types of its pointers, and what the node lists     *)
(* spell however nodes are linked, copied, replaced, deleted and parsed.      *)
EXTENDS Dom, FiniteSetTheorems, WellFoundedInduction, TLAPS

-----------------------------------------------------------------------------
(* Subtrees.                                                                  *)

LEMMA SubtreeFacts ==
  ASSUME NEW t \in Nodes
  PROVE  /\ Subtree(t) \subseteq Nodes /\ t \in Subtree(t)
         /\ \A n \in Nodes : parent[n] \in Subtree(t) => n \in Subtree(t)
         /\ \A n \in Subtree(t) : n = t \/ parent[n] \in Subtree(t)
<1>1. Subtree(t) \subseteq Nodes /\ t \in Subtree(t)
  BY DEF Subtree
<1>2. ASSUME NEW n \in Nodes, parent[n] \in Subtree(t)
      PROVE  n \in Subtree(t)
  BY <1>2 DEF Subtree, Closed
<1>3. ASSUME NEW n \in Subtree(t), n # t, parent[n] \notin Subtree(t)
      PROVE  FALSE
  <2> DEFINE S == Subtree(t) \ {n}
  <2>1. S \in SUBSET Nodes /\ t \in S /\ Closed(S)
    BY <1>1, <1>2, <1>3 DEF Closed
  <2> QED BY <1>3, <2>1 DEF Subtree
<1> QED BY <1>1, <1>2, <1>3

LEMMA SubtreeLeast ==
  ASSUME NEW t \in Nodes, NEW S \in SUBSET Nodes, t \in S, Closed(S)
  PROVE  Subtree(t) \subseteq S
BY DEF Subtree

LEMMA DocumentIsNode == \A n : GetDocument(n) \in Pointer
BY DEF GetDocument, Pointer

-----------------------------------------------------------------------------
(* Types.                                                                     *)

LEMMA PutTypes ==
  ASSUME NEW f \in [Nodes -> Pointer], NEW n, NEW v \in Pointer
  PROVE  Put(f, n, v) \in [Nodes -> Pointer]
BY DEF Put

LEMMA FreedTypes ==
  ASSUME NEW f \in [Nodes -> Pointer], NEW S
  PROVE  Freed(f, S) \in [Nodes -> Pointer]
BY DEF Freed, Pointer

(* What a copy is: a function at from addresses in use to unused ones.        *)
Copies(at) ==
    /\ DOMAIN at \subseteq Nodes /\ \A m \in DOMAIN at : at[m] \in Free
    /\ \A m, o \in DOMAIN at : at[m] = at[o] => m = o

LEMMA CloneCopies ==
  ASSUME NEW t \in Nodes, NEW at \in Clone(t)
  PROVE  Copies(at) /\ DOMAIN at = Subtree(t)
BY SubtreeFacts DEF Clone, Injection, IsInjective, Copies

LEMMA NoCopyCopies == Copies(NoCopy) /\ DOMAIN NoCopy = {}
BY DEF NoCopy, Copies

LEMMA CopiedTypes ==
  ASSUME NEW f \in [Nodes -> Pointer], NEW at, Copies(at)
  PROVE  Copied(f, at) \in [Nodes -> Pointer]
BY DEF Copied, Copies, Free, Pointer

LEMMA CopiedKindTypes ==
  ASSUME TypeOK, NEW at, Copies(at)
  PROVE  CopiedKind(at) \in [Nodes -> Kinds]
BY DEF CopiedKind, Copies, TypeOK

LEMMA FreedKindTypes ==
  ASSUME NEW k \in [Nodes -> Kinds], NEW S
  PROVE  FreedKind(k, S) \in [Nodes -> Kinds]
BY DEF FreedKind, Kinds

LinksOK ==
    /\ parent \in [Nodes -> Pointer]
    /\ firstChild \in [Nodes -> Pointer] /\ lastChild \in [Nodes -> Pointer]
    /\ prev \in [Nodes -> Pointer] /\ next \in [Nodes -> Pointer]

LEMMA SpliceLinksTypes ==
  ASSUME TypeOK, NEW p \in Pointer, NEW l \in Pointer, NEW n \in Nodes,
         NEW r \in Pointer, NEW at, Copies(at), NEW dead,
         SpliceLinks(p, l, n, r, at, dead)
  PROVE  LinksOK'
<1>1. n \in Pointer
  BY DEF Pointer
<1> QED BY <1>1, CopiedTypes, PutTypes, FreedTypes DEF SpliceLinks, TypeOK, LinksOK

LEMMA SpliceTypes ==
  ASSUME TypeOK, NEW p \in Pointer, NEW l \in Pointer, NEW n \in Nodes,
         NEW r \in Pointer, NEW at, Copies(at), NEW dead,
         Splice(p, l, n, r, at, dead)
  PROVE  LinksOK' /\ kind' \in [Nodes -> Kinds]
BY SpliceLinksTypes, CopiedKindTypes, FreedKindTypes DEF Splice

LEMMA DeleteTreeTypes ==
  ASSUME TypeOK, NEW n, DeleteTree(n)
  PROVE  LinksOK' /\ kind' \in [Nodes -> Kinds]
BY FreedTypes, FreedKindTypes DEF DeleteTree, TypeOK, LinksOK

LEMMA SetErrorTypes ==
  ASSUME TypeOK, NEW n, SetError(n)
  PROVE  error' \subseteq Nodes
BY DocumentIsNode DEF SetError, TypeOK, Pointer

LEMMA TypesFromParts ==
  ASSUME LinksOK', kind' \in [Nodes -> Kinds], error' \subseteq Nodes,
         reading' \in Seq(Nodes)
  PROVE  TypeOK'
BY DEF TypeOK, LinksOK

(* The operations that link a copy.                                           *)
LEMMA CopyingTypes ==
  ASSUME TypeOK, NEW p \in Nodes, NEW a \in Nodes, NEW l \in Pointer,
         NEW r \in Pointer, NEW dead, UNCHANGED reading,
         \/ TopOnly(p, a)
         \/ \E at \in Clone(a) : Splice(p, l, at[a], r, at, dead) /\ UNCHANGED error
  PROVE  TypeOK'
<1>1. CASE TopOnly(p, a)
  BY <1>1, SetErrorTypes DEF TopOnly, TypeOK, links
<1>2. ASSUME NEW at \in Clone(a), Splice(p, l, at[a], r, at, dead), UNCHANGED error
      PROVE  TypeOK'
  <2>1. Copies(at) /\ at[a] \in Nodes
    BY CloneCopies, SubtreeFacts DEF Copies, Free
  <2>2. p \in Pointer
    BY DEF Pointer
  <2> QED BY <1>2, <2>1, <2>2, SpliceTypes, TypesFromParts DEF TypeOK
<1> QED BY <1>1, <1>2

LEMMA NextKeepsTypes ==
  ASSUME TypeOK, Len(reading) > 1 => parent[Top] \in Nodes, [Next]_vars
  PROVE  TypeOK'
<1> USE DEF links
<1>0. \A m \in Nodes : /\ m \in Pointer /\ parent[m] \in Pointer
                       /\ firstChild[m] \in Pointer /\ lastChild[m] \in Pointer
                       /\ prev[m] \in Pointer /\ next[m] \in Pointer
  BY DEF TypeOK, Pointer
<1>n. Null \in Pointer
  BY DEF Pointer
<1>l. LinksOK
  BY DEF TypeOK, LinksOK
<1>1. ASSUME NEW n \in Nodes, NEW k \in Kinds, New(n, k)
      PROVE  TypeOK'
  BY <1>1 DEF New, TypeOK
<1>2. ASSUME NEW p \in Nodes, NEW n \in Nodes, LinkEndChild(p, n)
      PROVE  TypeOK'
  <2>1. LinksOK' /\ kind' \in [Nodes -> Kinds]
    BY <1>0, <1>n, <1>2, NoCopyCopies, SpliceTypes, DeleteTreeTypes DEF LinkEndChild
  <2>2. error' \subseteq Nodes
    BY <1>2, DocumentIsNode DEF LinkEndChild, TypeOK, Pointer
  <2> QED BY <1>2, <2>1, <2>2, TypesFromParts DEF LinkEndChild, TypeOK
<1>3. ASSUME NEW p \in Nodes, NEW a \in Nodes, InsertEndChild(p, a)
      PROVE  TypeOK'
  <2>1. UNCHANGED reading
    BY <1>3 DEF InsertEndChild, TopOnly
  <2> QED BY <1>0, <1>n, <1>3, <2>1, CopyingTypes DEF InsertEndChild
<1>4. ASSUME NEW p \in Nodes, NEW b \in Nodes, NEW a \in Nodes,
             InsertBeforeChild(p, b, a)
      PROVE  TypeOK'
  <2>1. UNCHANGED reading
    BY <1>4 DEF InsertBeforeChild, TopOnly
  <2> QED BY <1>0, <1>4, <2>1, CopyingTypes DEF InsertBeforeChild
<1>5. ASSUME NEW p \in Nodes, NEW b \in Nodes, NEW a \in Nodes,
             InsertAfterChild(p, b, a)
      PROVE  TypeOK'
  <2>1. UNCHANGED reading
    BY <1>5 DEF InsertAfterChild, TopOnly
  <2> QED BY <1>0, <1>5, <2>1, CopyingTypes DEF InsertAfterChild
<1>6. ASSUME NEW p \in Nodes, NEW r \in Nodes, NEW a \in Nodes, ReplaceChild(p, r, a)
      PROVE  TypeOK'
  <2>1. UNCHANGED reading
    BY <1>6 DEF ReplaceChild, TopOnly
  <2> QED BY <1>0, <1>6, <2>1, CopyingTypes DEF ReplaceChild
<1>7. ASSUME NEW p \in Nodes, NEW r \in Nodes, RemoveChild(p, r)
      PROVE  TypeOK'
  BY <1>0, <1>7, PutTypes, FreedTypes, FreedKindTypes DEF RemoveChild, TypeOK
<1>8. ASSUME NEW p \in Nodes, Clear(p)
      PROVE  TypeOK'
  BY <1>n, <1>8, PutTypes, FreedTypes, FreedKindTypes DEF Clear, TypeOK
<1>9. ASSUME NEW n \in Nodes, Delete(n)
      PROVE  TypeOK'
  BY <1>9, DeleteTreeTypes, TypesFromParts DEF Delete, TypeOK
<1>10. ASSUME NEW d \in Nodes, Parse(d)
       PROVE  TypeOK'
  BY <1>10 DEF Parse, TypeOK
<1>11. ASSUME NEW n \in Nodes, NEW k \in Kinds, Identify(n, k)
       PROVE  TypeOK'
  <2>1. Top \in Nodes
    BY <1>11 DEF Identify, Holders
  <2> QED BY <1>11, <2>1 DEF Identify, TypeOK, Pointer
<1>12. ASSUME NEW failed \in BOOLEAN, LinkParsed(failed)
       PROVE  TypeOK'
  <2>1. Top \in Nodes /\ reading' \in Seq(Nodes)
    BY <1>12 DEF LinkParsed, TypeOK, Top
  <2>2. lastChild[parent[Top]] \in Pointer
    BY <1>0, <1>12 DEF LinkParsed
  <2>3. error' \subseteq Nodes
    BY <1>12, SetErrorTypes DEF LinkParsed, TypeOK
  <2> QED BY <1>0, <1>n, <1>12, <2>1, <2>2, <2>3, NoCopyCopies, SpliceTypes, TypesFromParts
    DEF LinkParsed
<1>13. ASSUME NEW n \in Nodes, ReadText(n)
       PROVE  TypeOK'
  <2>1. Top \in Nodes
    BY <1>13 DEF ReadText, TypeOK, Top
  <2>2. LinksOK'
    BY <1>0, <1>n, <1>13, <2>1, NoCopyCopies, SpliceLinksTypes DEF ReadText
  <2> QED BY <1>13, <2>2, TypesFromParts DEF ReadText, TypeOK, Kinds
<1>14. CASE ParseEnds
  <2>1. Top \in Nodes
    <3>1. reading \in Seq(Nodes) /\ Len(reading) = 1
      BY <1>14 DEF ParseEnds, TypeOK
    <3> QED BY <3>1 DEF Top
  <2> QED BY <1>14, <2>1 DEF ParseEnds, TypeOK
<1>15. CASE UNCHANGED vars
  BY <1>15 DEF vars, TypeOK
<1> QED BY <1>1, <1>2, <1>3, <1>4, <1>5, <1>6, <1>7, <1>8, <1>9, <1>10, <1>11,
           <1>12, <1>13, <1>14, <1>15 DEF Next

-----------------------------------------------------------------------------
(* What the pointers of a heap h spell: k[p] is the list of the children of   *)
(* p.  A heap is a record, so that an operation can be taken apart into steps *)
(* with heaps between them that the program is never in.                      *)

heap == [kind |-> kind, parent |-> parent, firstChild |-> firstChild,
         lastChild |-> lastChild, prev |-> prev, next |-> next, pending |-> Pending]

Lists(h, k) ==
    /\ k \in [Nodes -> Seq(Nodes)]
    /\ \A p \in Nodes : \A i \in 1..Len(k[p]) :
         h.parent[k[p][i]] = p /\ k[p][i] \notin h.pending
    /\ \A p \in Nodes : \A i, j \in 1..Len(k[p]) : k[p][i] = k[p][j] => i = j
    /\ \A n \in Nodes : h.parent[n] # Null /\ n \notin h.pending =>
         /\ h.parent[n] \in Nodes
         /\ \E i \in 1..Len(k[h.parent[n]]) : k[h.parent[n]][i] = n

Ends(h, k) ==
    \A p \in Nodes :
      /\ h.firstChild[p] = IF Len(k[p]) = 0 THEN Null ELSE k[p][1]
      /\ h.lastChild[p] = IF Len(k[p]) = 0 THEN Null ELSE k[p][Len(k[p])]

Neighbours(h, k) ==
    /\ \A p \in Nodes : \A i \in 1..Len(k[p]) :
         /\ h.prev[k[p][i]] = IF i = 1 THEN Null ELSE k[p][i - 1]
         /\ h.next[k[p][i]] = IF i = Len(k[p]) THEN Null ELSE k[p][i + 1]
    /\ \A n \in Nodes : h.parent[n] = Null \/ n \in h.pending =>
         h.prev[n] = Null /\ h.next[n] = Null

Vacant(h, k) ==
    /\ \A n \in Nodes : h.kind[n] = "free" => h.parent[n] = Null /\ Len(k[n]) = 0
    /\ \A n \in h.pending :
         n \in Nodes /\ h.parent[n] \in Nodes /\ h.kind[h.parent[n]] # "free"

(* Whoever climbs from parent to parent leaves every set of nodes.            *)
NoCycle(h) == \A C \in SUBSET Nodes : C # {} => \E n \in C : h.parent[n] \notin C

Spells(h, k) ==
    Lists(h, k) /\ Ends(h, k) /\ Neighbours(h, k) /\ Vacant(h, k) /\ NoCycle(h)

-----------------------------------------------------------------------------
(* A node is linked at position i of the children of p.                       *)

Inserted(s, i, n) ==
    [j \in 1..(Len(s) + 1) |-> IF j < i THEN s[j] ELSE IF j = i THEN n ELSE s[j - 1]]

LEMMA InsertedFacts ==
  ASSUME NEW s \in Seq(Nodes), NEW i \in 1..(Len(s) + 1), NEW n \in Nodes
  PROVE  /\ Inserted(s, i, n) \in Seq(Nodes)
         /\ Len(Inserted(s, i, n)) = Len(s) + 1
         /\ \A j \in 1..(Len(s) + 1) : Inserted(s, i, n)[j]
              = IF j < i THEN s[j] ELSE IF j = i THEN n ELSE s[j - 1]
<1> DEFINE t == [j \in 1..(Len(s) + 1) |->
                   IF j < i THEN s[j] ELSE IF j = i THEN n ELSE s[j - 1]]
<1>1. \A j \in 1..(Len(s) + 1) :
        (IF j < i THEN s[j] ELSE IF j = i THEN n ELSE s[j - 1]) \in Nodes
  OBVIOUS
<1>2. t \in [1..(Len(s) + 1) -> Nodes]
  BY <1>1
<1>3. t \in Seq(Nodes) /\ Len(t) = Len(s) + 1
  BY <1>2
<1> QED BY <1>3 DEF Inserted

(* h and g before and after; the list of p in h is s.                         *)
LinksAt(h, g, p, s, i, n) ==
    LET l == IF i = 1 THEN Null ELSE s[i - 1]
        r == IF i = Len(s) + 1 THEN Null ELSE s[i]
    IN  /\ g.pending = h.pending \ {n}
        /\ \A m \in Nodes :
             /\ g.kind[m] = "free" => h.kind[m] = "free" /\ m # n
             /\ g.parent[m] = IF m = n THEN p ELSE h.parent[m]
             /\ g.prev[m] = IF m = r THEN n ELSE IF m = n THEN l ELSE h.prev[m]
             /\ g.next[m] = IF m = l THEN n ELSE IF m = n THEN r ELSE h.next[m]
             /\ g.firstChild[m] = IF m = p /\ l = Null THEN n ELSE h.firstChild[m]
             /\ g.lastChild[m] = IF m = p /\ r = Null THEN n ELSE h.lastChild[m]

LEMMA LinkSpells ==
  ASSUME NEW h, NEW g, NEW k, Spells(h, k), NEW p \in Nodes, NEW n \in Nodes,
         NEW i \in 1..(Len(k[p]) + 1), LinksAt(h, g, p, k[p], i, n),
         h.kind[p] # "free", h.parent[n] = Null \/ n \in h.pending, NoCycle(g)
  PROVE  Spells(g, [k EXCEPT ![p] = Inserted(k[p], i, n)])
<1> DEFINE s == k[p]
           t == Inserted(s, i, n)
           kk == [k EXCEPT ![p] = t]
           l == IF i = 1 THEN Null ELSE s[i - 1]
           r == IF i = Len(s) + 1 THEN Null ELSE s[i]
<1>0. k \in [Nodes -> Seq(Nodes)] /\ s \in Seq(Nodes)
  BY DEF Spells, Lists
<1>1. /\ t \in Seq(Nodes) /\ Len(t) = Len(s) + 1
      /\ \A j \in 1..(Len(s) + 1) : t[j]
           = IF j < i THEN s[j] ELSE IF j = i THEN n ELSE s[j - 1]
  BY <1>0, InsertedFacts
<1>2. kk \in [Nodes -> Seq(Nodes)] /\ kk[p] = t /\ \A q \in Nodes : q # p => kk[q] = k[q]
  BY <1>0, <1>1
<1>3. \A q \in Nodes : \A j \in 1..Len(k[q]) : k[q][j] # n
  BY NullAssumption DEF Spells, Lists
<1>4. /\ g.pending = h.pending \ {n}
      /\ \A m \in Nodes :
             /\ g.kind[m] = "free" => h.kind[m] = "free" /\ m # n
             /\ g.parent[m] = IF m = n THEN p ELSE h.parent[m]
             /\ g.prev[m] = IF m = r THEN n ELSE IF m = n THEN l ELSE h.prev[m]
             /\ g.next[m] = IF m = l THEN n ELSE IF m = n THEN r ELSE h.next[m]
             /\ g.firstChild[m] = IF m = p /\ l = Null THEN n ELSE h.firstChild[m]
             /\ g.lastChild[m] = IF m = p /\ r = Null THEN n ELSE h.lastChild[m]
  BY DEF LinksAt
<1>5. /\ \A q \in Nodes : \A j \in 1..Len(k[q]) :
           h.parent[k[q][j]] = q /\ k[q][j] \notin h.pending /\ k[q][j] \in Nodes
      /\ \A q \in Nodes : \A j, m \in 1..Len(k[q]) : k[q][j] = k[q][m] => j = m
      /\ \A m \in Nodes : h.parent[m] # Null /\ m \notin h.pending =>
           /\ h.parent[m] \in Nodes
           /\ \E j \in 1..Len(k[h.parent[m]]) : k[h.parent[m]][j] = m
  <2>1. \A q \in Nodes : \A j \in 1..Len(k[q]) : k[q][j] \in Nodes
    BY <1>0
  <2>2. Lists(h, k)
    BY DEF Spells
  <2> QED BY <2>1, <2>2 DEF Lists
<1>a. \A j \in 1..Len(s) : /\ s[j] \in Nodes /\ s[j] # n
                           /\ h.parent[s[j]] = p /\ s[j] \notin h.pending
  BY <1>3, <1>5
<1>6. (l = Null <=> i = 1) /\ (r = Null <=> i = Len(s) + 1)
      /\ (i # 1 => l = s[i - 1]) /\ (i # Len(s) + 1 => r = s[i])
  BY <1>5, NullAssumption
<1>k. i \in Nat /\ i >= 1 /\ i <= Len(s) + 1 /\ Len(s) \in Nat
  BY <1>0
<1> HIDE DEF kk, t, l, r, s
<1>7. Lists(g, kk)
  <2>1. ASSUME NEW q \in Nodes, NEW j \in 1..Len(kk[q])
        PROVE  g.parent[kk[q][j]] = q /\ kk[q][j] \notin g.pending
    <3>1. CASE q = p
      <4>1. j \in 1..(Len(s) + 1) /\ kk[q][j] = t[j]
        BY <1>1, <1>2, <2>1, <3>1
      <4>2. t[j] = n \/ \E m \in 1..Len(s) : t[j] = s[m]
        <5>1. CASE j < i
          BY <1>1, <1>k, <4>1, <5>1
        <5>2. CASE j = i
          BY <1>1, <1>k, <4>1, <5>2
        <5>3. CASE j > i
          <6>1. j - 1 \in 1..Len(s) /\ t[j] = s[j - 1]
            BY <1>1, <1>k, <4>1, <5>3
          <6> QED BY <6>1
        <5> QED BY <1>k, <4>1, <5>1, <5>2, <5>3
      <4>3. CASE t[j] = n
        BY <1>4, <3>1, <4>1, <4>3
      <4>4. ASSUME NEW m \in 1..Len(s), t[j] = s[m]
            PROVE  g.parent[kk[q][j]] = q /\ kk[q][j] \notin g.pending
        BY <1>4, <1>a, <3>1, <4>1, <4>4
      <4> QED BY <4>2, <4>3, <4>4
    <3>2. CASE q # p
      <4>1. kk[q] = k[q]
        BY <1>2, <3>2
      <4>2. /\ k[q][j] \in Nodes /\ k[q][j] # n
            /\ h.parent[k[q][j]] = q /\ k[q][j] \notin h.pending
        BY <1>3, <1>5, <2>1, <4>1
      <4> QED BY <1>4, <4>1, <4>2
    <3> QED BY <3>1, <3>2
  <2>2. ASSUME NEW q \in Nodes, NEW j \in 1..Len(kk[q]), NEW m \in 1..Len(kk[q]),
               kk[q][j] = kk[q][m]
        PROVE  j = m
    <3>1. CASE q = p
      <4>1. j \in 1..(Len(s) + 1) /\ m \in 1..(Len(s) + 1) /\ t[j] = t[m]
        BY <1>1, <1>2, <2>2, <3>1
      <4>2. \A o, u \in 1..Len(s) : s[o] = s[u] => o = u
        BY <1>5 DEF s
      <4>3. ASSUME NEW o \in 1..(Len(s) + 1)
            PROVE  \/ o < i /\ o \in 1..Len(s) /\ t[o] = s[o]
                   \/ o = i /\ t[o] = n
                   \/ o > i /\ o - 1 \in 1..Len(s) /\ t[o] = s[o - 1]
        BY <1>1, <1>k, <4>3
      <4>4. (t[j] = n <=> j = i) /\ (t[m] = n <=> m = i)
        BY <1>a, <1>k, <4>1, <4>3
      <4> QED BY <1>k, <4>1, <4>2, <4>3, <4>4
    <3>2. CASE q # p
      BY <1>2, <1>5, <2>2, <3>2
    <3> QED BY <3>1, <3>2
  <2>3. ASSUME NEW m \in Nodes, g.parent[m] # Null, m \notin g.pending
        PROVE  /\ g.parent[m] \in Nodes
               /\ \E j \in 1..Len(kk[g.parent[m]]) : kk[g.parent[m]][j] = m
    <3>1. CASE m = n
      <4>1. g.parent[m] = p /\ i \in 1..Len(t) /\ t[i] = n
        BY <1>1, <1>4, <1>k, <3>1
      <4> QED BY <1>2, <3>1, <4>1
    <3>2. CASE m # n
      <4>1. g.parent[m] = h.parent[m] /\ m \notin h.pending
        BY <1>4, <2>3, <3>2
      <4>2. h.parent[m] \in Nodes
        BY <1>5, <2>3, <4>1
      <4>3. PICK j \in 1..Len(k[h.parent[m]]) : k[h.parent[m]][j] = m
        BY <1>5, <2>3, <4>1
      <4>4. CASE h.parent[m] = p
        <5>1. j \in 1..Len(s) /\ s[j] = m
          BY <4>3, <4>4 DEF s
        <5>2. (j < i => j \in 1..Len(t) /\ t[j] = m)
              /\ (j >= i => j + 1 \in 1..Len(t) /\ t[j + 1] = m)
          BY <1>1, <1>k, <5>1
        <5>3. \E jj \in 1..Len(t) : t[jj] = m
          BY <1>k, <5>1, <5>2
        <5> QED BY <1>2, <4>1, <4>2, <4>4, <5>3
      <4>5. CASE h.parent[m] # p
        BY <1>2, <4>1, <4>2, <4>3, <4>5
      <4> QED BY <4>4, <4>5
    <3> QED BY <3>1, <3>2
  <2> QED BY <1>2, <2>1, <2>2, <2>3 DEF Lists
<1>8. Ends(g, kk)
  <2> SUFFICES ASSUME NEW q \in Nodes
               PROVE  /\ g.firstChild[q] = IF Len(kk[q]) = 0 THEN Null ELSE kk[q][1]
                      /\ g.lastChild[q] = IF Len(kk[q]) = 0 THEN Null
                                          ELSE kk[q][Len(kk[q])]
    BY DEF Ends
  <2>1. /\ h.firstChild[q] = IF Len(k[q]) = 0 THEN Null ELSE k[q][1]
        /\ h.lastChild[q] = IF Len(k[q]) = 0 THEN Null ELSE k[q][Len(k[q])]
    BY DEF Spells, Ends
  <2>2. CASE q = p
    <3>1. /\ kk[q] = t /\ Len(t) = Len(s) + 1 /\ Len(t) # 0
          /\ t[1] = IF i = 1 THEN n ELSE s[1]
          /\ t[Len(s) + 1] = IF i = Len(s) + 1 THEN n ELSE s[Len(s)]
      BY <1>1, <1>2, <1>k, <2>2
    <3>2. /\ g.firstChild[q] = IF i = 1 THEN n ELSE h.firstChild[q]
          /\ g.lastChild[q] = IF i = Len(s) + 1 THEN n ELSE h.lastChild[q]
      BY <1>4, <1>6, <2>2
    <3>3. /\ i # 1 => h.firstChild[q] = s[1]
          /\ i # Len(s) + 1 => h.lastChild[q] = s[Len(s)]
      BY <1>k, <2>1, <2>2 DEF s
    <3> QED BY <3>1, <3>2, <3>3
  <2>3. CASE q # p
    BY <1>2, <1>4, <2>1, <2>3
  <2> QED BY <2>2, <2>3
<1>9. Neighbours(g, kk)
  <2>0. /\ \A q \in Nodes : \A j \in 1..Len(k[q]) :
             /\ h.prev[k[q][j]] = IF j = 1 THEN Null ELSE k[q][j - 1]
             /\ h.next[k[q][j]] = IF j = Len(k[q]) THEN Null ELSE k[q][j + 1]
        /\ \A m \in Nodes : h.parent[m] = Null \/ m \in h.pending =>
             h.prev[m] = Null /\ h.next[m] = Null
    BY DEF Spells, Neighbours
  <2>1. ASSUME NEW q \in Nodes, NEW j \in 1..Len(kk[q])
        PROVE  /\ g.prev[kk[q][j]] = IF j = 1 THEN Null ELSE kk[q][j - 1]
               /\ g.next[kk[q][j]] = IF j = Len(kk[q]) THEN Null ELSE kk[q][j + 1]
    <3>1. CASE q = p
      <4>0. j \in 1..(Len(s) + 1) /\ kk[q] = t /\ Len(kk[q]) = Len(s) + 1
        BY <1>1, <1>2, <2>1, <3>1
      <4>s. /\ \A m \in 1..Len(s) : s[m] \in Nodes /\ s[m] # n
            /\ \A m \in 1..Len(s) :
                 /\ h.prev[s[m]] = IF m = 1 THEN Null ELSE s[m - 1]
                 /\ h.next[s[m]] = IF m = Len(s) THEN Null ELSE s[m + 1]
            /\ \A m, o \in 1..Len(s) : s[m] = s[o] => m = o
        BY <1>3, <1>5, <2>0 DEF s
      <4>1. CASE j = i
        BY <1>1, <1>4, <1>6, <1>k, <4>0, <4>1, <4>s, NullAssumption
      <4>2. CASE j < i
        <5>1. j \in 1..Len(s) /\ t[j] = s[j]
          BY <1>1, <1>k, <4>0, <4>2
        <5>2. g.prev[s[j]] = h.prev[s[j]]
          <6>1. s[j] # r
            <7>1. CASE i = Len(s) + 1
              BY <1>6, <4>s, <5>1, <7>1, NullAssumption
            <7>2. CASE i # Len(s) + 1
              <8>1. i \in 1..Len(s) /\ i # j
                BY <1>k, <4>2, <7>2
              <8> QED BY <1>6, <4>s, <5>1, <7>2, <8>1
            <7> QED BY <7>1, <7>2
          <6> QED BY <1>4, <4>s, <5>1, <6>1
        <5>3. g.next[s[j]] = IF j = i - 1 THEN n ELSE h.next[s[j]]
          BY <1>4, <1>6, <1>k, <4>2, <4>s, <5>1
        <5>4. (j # 1 => t[j - 1] = s[j - 1])
              /\ t[j + 1] = IF j = i - 1 THEN n ELSE s[j + 1]
          BY <1>1, <1>k, <4>0, <4>2
        <5> QED BY <1>k, <4>0, <4>2, <4>s, <5>1, <5>2, <5>3, <5>4
      <4>3. CASE j > i
        <5>1. j - 1 \in 1..Len(s) /\ t[j] = s[j - 1]
          BY <1>1, <1>k, <4>0, <4>3
        <5>2. g.prev[s[j - 1]] = IF j = i + 1 THEN n ELSE h.prev[s[j - 1]]
          BY <1>4, <1>6, <1>k, <4>3, <4>s, <5>1
        <5>3. g.next[s[j - 1]] = h.next[s[j - 1]]
          <6>1. s[j - 1] # l
            <7>1. CASE i = 1
              BY <1>6, <4>s, <5>1, <7>1, NullAssumption
            <7>2. CASE i # 1
              BY <1>6, <1>k, <4>3, <4>s, <5>1, <7>2
            <7> QED BY <7>1, <7>2
          <6> QED BY <1>4, <4>s, <5>1, <6>1
        <5>4. (j # Len(s) + 1 => t[j + 1] = s[j])
              /\ t[j - 1] = IF j = i + 1 THEN n ELSE s[j - 2]
          <6>1. j # Len(s) + 1 => t[j + 1] = s[j]
            <7>1. j # Len(s) + 1 => /\ j + 1 \in 1..(Len(s) + 1) /\ ~(j + 1 < i)
                                    /\ j + 1 # i /\ (j + 1) - 1 = j
              BY <1>k, <4>0, <4>3
            <7> QED BY <1>1, <7>1
          <6>2. CASE j = i + 1
            <7>1. j - 1 = i /\ i \in 1..(Len(s) + 1) /\ ~(i < i)
              BY <1>k, <6>2
            <7> QED BY <1>1, <6>1, <6>2, <7>1
          <6>3. CASE j # i + 1
            <7>1. /\ j - 1 \in 1..(Len(s) + 1) /\ ~(j - 1 < i)
                  /\ j - 1 # i /\ (j - 1) - 1 = j - 2
              BY <1>k, <4>0, <4>3, <6>3
            <7> QED BY <1>1, <6>1, <6>3, <7>1
          <6> QED BY <6>2, <6>3
        <5> QED BY <1>k, <4>0, <4>3, <4>s, <5>1, <5>2, <5>3, <5>4
      <4> QED BY <1>k, <4>0, <4>1, <4>2, <4>3
    <3>2. CASE q # p
      <4>1. kk[q] = k[q] /\ k[q][j] \in Nodes /\ k[q][j] # n /\ h.parent[k[q][j]] = q
        BY <1>2, <1>3, <1>5, <2>1, <3>2
      <4>2. (i # 1 => h.parent[l] = p) /\ (i # Len(s) + 1 => h.parent[r] = p)
        <5>1. i # 1 => i - 1 \in 1..Len(s)
          BY <1>k
        <5>2. i # Len(s) + 1 => i \in 1..Len(s)
          BY <1>k
        <5> QED BY <1>6, <1>a, <5>1, <5>2
      <4>3. k[q][j] # l /\ k[q][j] # r
        BY <1>6, <3>2, <4>1, <4>2, NullAssumption
      <4>4. g.prev[k[q][j]] = h.prev[k[q][j]] /\ g.next[k[q][j]] = h.next[k[q][j]]
        BY <1>4, <4>1, <4>3
      <4>5. j \in 1..Len(k[q])
        BY <2>1, <4>1
      <4> QED BY <2>0, <4>1, <4>4, <4>5
    <3> QED BY <3>1, <3>2
  <2>2. ASSUME NEW m \in Nodes, g.parent[m] = Null \/ m \in g.pending
        PROVE  g.prev[m] = Null /\ g.next[m] = Null
    <3>1. m # n /\ (h.parent[m] = Null \/ m \in h.pending)
      BY <1>4, <2>2, NullAssumption
    <3>2. \A j \in 1..Len(s) : s[j] # m
      BY <1>5, <3>1, NullAssumption DEF s
    <3>3. m # l /\ m # r
      BY <1>6, <1>k, <3>2, NullAssumption
    <3> QED BY <1>4, <2>0, <3>1, <3>3
  <2> QED BY <2>1, <2>2 DEF Neighbours
<1>10. Vacant(g, kk)
  <2>1. /\ \A m \in Nodes : h.kind[m] = "free" => h.parent[m] = Null /\ Len(k[m]) = 0
        /\ \A m \in h.pending :
             m \in Nodes /\ h.parent[m] \in Nodes /\ h.kind[h.parent[m]] # "free"
    BY DEF Spells, Vacant
  <2>2. ASSUME NEW m \in Nodes, g.kind[m] = "free"
        PROVE  g.parent[m] = Null /\ Len(kk[m]) = 0
    <3>1. h.kind[m] = "free" /\ m # n /\ g.parent[m] = h.parent[m]
      BY <1>4, <2>2
    <3>2. m # p /\ kk[m] = k[m]
      BY <1>2, <3>1
    <3> QED BY <2>1, <3>1, <3>2
  <2>3. \A m \in g.pending :
          m \in Nodes /\ g.parent[m] \in Nodes /\ g.kind[g.parent[m]] # "free"
    BY <1>4, <2>1
  <2> QED BY <2>2, <2>3 DEF Vacant
<1> QED BY <1>7, <1>8, <1>9, <1>10 DEF Spells, kk, t, s

-----------------------------------------------------------------------------
(* The child of p at position i is taken out of the list.                     *)

LEMMA FewerParents ==
  ASSUME NEW h, NEW g, NoCycle(h),
         \A m \in Nodes : g.parent[m] \in {h.parent[m], Null}
  PROVE  NoCycle(g)
BY NullAssumption DEF NoCycle

Dropped(s, i) == [j \in 1..(Len(s) - 1) |-> IF j < i THEN s[j] ELSE s[j + 1]]

LEMMA DroppedFacts ==
  ASSUME NEW s \in Seq(Nodes), NEW i \in 1..Len(s)
  PROVE  /\ Dropped(s, i) \in Seq(Nodes)
         /\ Len(Dropped(s, i)) = Len(s) - 1
         /\ \A j \in 1..(Len(s) - 1) :
              Dropped(s, i)[j] = IF j < i THEN s[j] ELSE s[j + 1]
<1> DEFINE t == [j \in 1..(Len(s) - 1) |-> IF j < i THEN s[j] ELSE s[j + 1]]
<1>1. \A j \in 1..(Len(s) - 1) : (IF j < i THEN s[j] ELSE s[j + 1]) \in Nodes
  OBVIOUS
<1>2. t \in [1..(Len(s) - 1) -> Nodes] /\ Len(s) - 1 \in Nat
  BY <1>1
<1>3. t \in Seq(Nodes) /\ Len(t) = Len(s) - 1
  BY <1>2
<1> QED BY <1>3 DEF Dropped

UnlinksAt(h, g, p, s, i) ==
    LET n == s[i]
        l == IF i = 1 THEN Null ELSE s[i - 1]
        r == IF i = Len(s) THEN Null ELSE s[i + 1]
    IN  /\ g.pending = h.pending
        /\ \A m \in Nodes :
             /\ g.kind[m] = h.kind[m]
             /\ g.parent[m] = IF m = n THEN Null ELSE h.parent[m]
             /\ g.prev[m] = IF m = n THEN Null ELSE IF m = r THEN l ELSE h.prev[m]
             /\ g.next[m] = IF m = n THEN Null ELSE IF m = l THEN r ELSE h.next[m]
             /\ g.firstChild[m] = IF m = p /\ l = Null THEN r ELSE h.firstChild[m]
             /\ g.lastChild[m] = IF m = p /\ r = Null THEN l ELSE h.lastChild[m]

LEMMA UnlinkSpells ==
  ASSUME NEW h, NEW g, NEW k, Spells(h, k), NEW p \in Nodes,
         NEW i \in 1..Len(k[p]), UnlinksAt(h, g, p, k[p], i)
  PROVE  Spells(g, [k EXCEPT ![p] = Dropped(k[p], i)])
<1> DEFINE s == k[p]
           n == s[i]
           t == Dropped(s, i)
           kk == [k EXCEPT ![p] = t]
           l == IF i = 1 THEN Null ELSE s[i - 1]
           r == IF i = Len(s) THEN Null ELSE s[i + 1]
<1>0. k \in [Nodes -> Seq(Nodes)] /\ s \in Seq(Nodes) /\ Lists(h, k)
  BY DEF Spells, Lists
<1>1. /\ t \in Seq(Nodes) /\ Len(t) = Len(s) - 1
      /\ \A j \in 1..(Len(s) - 1) : t[j] = IF j < i THEN s[j] ELSE s[j + 1]
  BY <1>0, DroppedFacts
<1>2. kk \in [Nodes -> Seq(Nodes)] /\ kk[p] = t /\ \A q \in Nodes : q # p => kk[q] = k[q]
  BY <1>0, <1>1
<1>4. /\ g.pending = h.pending
      /\ \A m \in Nodes :
             /\ g.kind[m] = h.kind[m]
             /\ g.parent[m] = IF m = n THEN Null ELSE h.parent[m]
             /\ g.prev[m] = IF m = n THEN Null ELSE IF m = r THEN l ELSE h.prev[m]
             /\ g.next[m] = IF m = n THEN Null ELSE IF m = l THEN r ELSE h.next[m]
             /\ g.firstChild[m] = IF m = p /\ l = Null THEN r ELSE h.firstChild[m]
             /\ g.lastChild[m] = IF m = p /\ r = Null THEN l ELSE h.lastChild[m]
  BY DEF UnlinksAt
<1>5. /\ \A q \in Nodes : \A j \in 1..Len(k[q]) :
           h.parent[k[q][j]] = q /\ k[q][j] \notin h.pending /\ k[q][j] \in Nodes
      /\ \A q \in Nodes : \A j, m \in 1..Len(k[q]) : k[q][j] = k[q][m] => j = m
      /\ \A m \in Nodes : h.parent[m] # Null /\ m \notin h.pending =>
           /\ h.parent[m] \in Nodes
           /\ \E j \in 1..Len(k[h.parent[m]]) : k[h.parent[m]][j] = m
  <2>1. \A q \in Nodes : \A j \in 1..Len(k[q]) : k[q][j] \in Nodes
    BY <1>0
  <2> QED BY <1>0, <2>1 DEF Lists
<1>k. i \in Nat /\ i >= 1 /\ i <= Len(s) /\ Len(s) \in Nat
  BY <1>0
<1>a. /\ \A j \in 1..Len(s) : s[j] \in Nodes /\ h.parent[s[j]] = p /\ s[j] \notin h.pending
      /\ \A j, m \in 1..Len(s) : s[j] = s[m] => j = m
  BY <1>5
<1>n. n \in Nodes /\ h.parent[n] = p /\ n \notin h.pending
      /\ \A j \in 1..Len(s) : s[j] = n <=> j = i
  BY <1>a
<1>l. /\ i = 1 => l = Null
      /\ i # 1 => l = s[i - 1] /\ i - 1 \in 1..Len(s) /\ l \in Nodes /\ h.parent[l] = p
                  /\ l \notin h.pending
  BY <1>a, <1>k
<1>r. /\ i = Len(s) => r = Null
      /\ i # Len(s) => r = s[i + 1] /\ i + 1 \in 1..Len(s) /\ r \in Nodes
                       /\ h.parent[r] = p /\ r \notin h.pending
  BY <1>a, <1>k
<1>t. ASSUME NEW j \in 1..Len(t)
      PROVE  \/ j < i /\ j \in 1..Len(s) /\ t[j] = s[j]
             \/ j >= i /\ j + 1 \in 1..Len(s) /\ t[j] = s[j + 1]
  BY <1>1, <1>k, <1>t
<1>p. p # Null
  BY NullAssumption
<1> HIDE DEF kk, t, l, r, n, s
<1>7. Lists(g, kk)
  <2>1. ASSUME NEW q \in Nodes, NEW j \in 1..Len(kk[q])
        PROVE  g.parent[kk[q][j]] = q /\ kk[q][j] \notin g.pending
    <3>1. CASE q = p
      <4>1. PICK m \in 1..Len(s) : kk[q][j] = s[m] /\ m # i
        <5>1. j \in 1..Len(t) /\ kk[q][j] = t[j]
          BY <1>2, <2>1, <3>1
        <5>2. CASE j < i /\ j \in 1..Len(s) /\ t[j] = s[j]
          BY <1>k, <5>1, <5>2
        <5>3. CASE j >= i /\ j + 1 \in 1..Len(s) /\ t[j] = s[j + 1]
          <6>1. j + 1 # i
            BY <1>k, <5>1, <5>3
          <6> QED BY <5>1, <5>3, <6>1
        <5> QED BY <1>t, <5>1, <5>2, <5>3
      <4> QED BY <1>4, <1>a, <1>n, <3>1, <4>1
    <3>2. CASE q # p
      <4>1. kk[q] = k[q]
        BY <1>2, <3>2
      <4>2. /\ k[q][j] \in Nodes /\ k[q][j] # n
            /\ h.parent[k[q][j]] = q /\ k[q][j] \notin h.pending
        BY <1>5, <1>n, <2>1, <3>2, <4>1
      <4> QED BY <1>4, <4>1, <4>2
    <3> QED BY <3>1, <3>2
  <2>2. ASSUME NEW q \in Nodes, NEW j \in 1..Len(kk[q]), NEW m \in 1..Len(kk[q]),
               kk[q][j] = kk[q][m]
        PROVE  j = m
    <3>1. CASE q = p
      <4>1. j \in 1..Len(t) /\ m \in 1..Len(t) /\ t[j] = t[m]
        BY <1>2, <2>2, <3>1
      <4> QED BY <1>a, <1>k, <1>t, <4>1
    <3>2. CASE q # p
      BY <1>2, <1>5, <2>2, <3>2
    <3> QED BY <3>1, <3>2
  <2>3. ASSUME NEW m \in Nodes, g.parent[m] # Null, m \notin g.pending
        PROVE  /\ g.parent[m] \in Nodes
               /\ \E j \in 1..Len(kk[g.parent[m]]) : kk[g.parent[m]][j] = m
    <3>1. m # n /\ g.parent[m] = h.parent[m] /\ m \notin h.pending
      BY <1>4, <2>3
    <3>2. h.parent[m] \in Nodes
      BY <1>5, <2>3, <3>1
    <3>3. PICK j \in 1..Len(k[h.parent[m]]) : k[h.parent[m]][j] = m
      BY <1>5, <2>3, <3>1
    <3>4. CASE h.parent[m] = p
      <4>1. j \in 1..Len(s) /\ s[j] = m /\ j # i
        BY <1>n, <3>1, <3>3, <3>4 DEF s
      <4>2. (j < i => j \in 1..Len(t) /\ t[j] = m)
            /\ (j > i => j - 1 \in 1..Len(t) /\ t[j - 1] = m)
        BY <1>1, <1>k, <4>1
      <4>3. \E jj \in 1..Len(t) : t[jj] = m
        BY <1>k, <4>1, <4>2
      <4> QED BY <1>2, <3>1, <3>2, <3>4, <4>3
    <3>5. CASE h.parent[m] # p
      BY <1>2, <3>1, <3>2, <3>3, <3>5
    <3> QED BY <3>4, <3>5
  <2> QED BY <1>2, <2>1, <2>2, <2>3 DEF Lists
<1>8. Ends(g, kk)
  <2> SUFFICES ASSUME NEW q \in Nodes
               PROVE  /\ g.firstChild[q] = IF Len(kk[q]) = 0 THEN Null ELSE kk[q][1]
                      /\ g.lastChild[q] = IF Len(kk[q]) = 0 THEN Null
                                          ELSE kk[q][Len(kk[q])]
    BY DEF Ends
  <2>1. /\ h.firstChild[q] = IF Len(k[q]) = 0 THEN Null ELSE k[q][1]
        /\ h.lastChild[q] = IF Len(k[q]) = 0 THEN Null ELSE k[q][Len(k[q])]
    BY DEF Spells, Ends
  <2>2. CASE q = p
    <3>1. kk[q] = t /\ Len(t) = Len(s) - 1
      BY <1>1, <1>2, <2>2
    <3>2. Len(s) > 1 =>
            /\ t[1] = IF i = 1 THEN s[2] ELSE s[1]
            /\ t[Len(s) - 1] = IF i = Len(s) THEN s[Len(s) - 1] ELSE s[Len(s)]
      <4> SUFFICES ASSUME Len(s) > 1
                   PROVE  /\ t[1] = IF i = 1 THEN s[2] ELSE s[1]
                          /\ t[Len(s) - 1] = IF i = Len(s) THEN s[Len(s) - 1]
                                             ELSE s[Len(s)]
        OBVIOUS
      <4>1. 1 \in 1..(Len(s) - 1) /\ Len(s) - 1 \in 1..(Len(s) - 1)
        BY <1>k
      <4>2. 1 + 1 = 2 /\ (Len(s) - 1) + 1 = Len(s)
        BY <1>k
      <4>3. (1 < i <=> i # 1) /\ (Len(s) - 1 < i <=> i = Len(s))
        BY <1>k
      <4>4. t[1] = IF 1 < i THEN s[1] ELSE s[1 + 1]
        BY <1>1, <4>1
      <4>5. t[Len(s) - 1] = IF Len(s) - 1 < i THEN s[Len(s) - 1]
                            ELSE s[(Len(s) - 1) + 1]
        BY <1>1, <4>1
      <4> QED BY <4>2, <4>3, <4>4, <4>5
    <3>3. h.firstChild[q] = s[1] /\ h.lastChild[q] = s[Len(s)]
      BY <1>k, <2>1, <2>2 DEF s
    <3>4. /\ g.firstChild[q] = IF i = 1 THEN r ELSE s[1]
          /\ g.lastChild[q] = IF i = Len(s) THEN l ELSE s[Len(s)]
      BY <1>4, <1>l, <1>r, <2>2, <3>3, NullAssumption
    <3>5. CASE Len(s) = 1
      <4>1. i = 1
        BY <1>k, <3>5
      <4> QED BY <1>l, <1>r, <3>1, <3>4, <3>5, <4>1
    <3>6. CASE Len(s) > 1
      <4>1. /\ i = 1 => r = s[2] /\ 1 # Len(s)
            /\ i = Len(s) => l = s[Len(s) - 1] /\ i # 1
        <5>1. CASE i = 1
          BY <1>r, <3>6, <5>1
        <5>2. CASE i = Len(s)
          BY <1>l, <3>6, <5>2
        <5> QED BY <3>6, <5>1, <5>2
      <4>2. Len(t) # 0
        BY <1>k, <3>1, <3>6
      <4> QED BY <3>1, <3>2, <3>4, <3>6, <4>1, <4>2
    <3>7. \A m \in Nat : 1 <= i /\ i <= m => m = 1 \/ m > 1
      BY <1>k
    <3> QED BY <1>k, <3>5, <3>6, <3>7
  <2>3. CASE q # p
    BY <1>2, <1>4, <2>1, <2>3
  <2> QED BY <2>2, <2>3
<1>9. Neighbours(g, kk)
  <2>0. /\ \A q \in Nodes : \A j \in 1..Len(k[q]) :
             /\ h.prev[k[q][j]] = IF j = 1 THEN Null ELSE k[q][j - 1]
             /\ h.next[k[q][j]] = IF j = Len(k[q]) THEN Null ELSE k[q][j + 1]
        /\ \A m \in Nodes : h.parent[m] = Null \/ m \in h.pending =>
             h.prev[m] = Null /\ h.next[m] = Null
    BY DEF Spells, Neighbours
  <2>1. ASSUME NEW q \in Nodes, NEW j \in 1..Len(kk[q])
        PROVE  /\ g.prev[kk[q][j]] = IF j = 1 THEN Null ELSE kk[q][j - 1]
               /\ g.next[kk[q][j]] = IF j = Len(kk[q]) THEN Null ELSE kk[q][j + 1]
    <3>1. CASE q = p
      <4>0. j \in 1..(Len(s) - 1) /\ kk[q] = t /\ Len(kk[q]) = Len(s) - 1
        BY <1>1, <1>2, <2>1, <3>1
      <4>s. \A m \in 1..Len(s) :
                 /\ h.prev[s[m]] = IF m = 1 THEN Null ELSE s[m - 1]
                 /\ h.next[s[m]] = IF m = Len(s) THEN Null ELSE s[m + 1]
        BY <2>0 DEF s
      <4>1. CASE j < i
        <5>1. j \in 1..Len(s) /\ t[j] = s[j] /\ s[j] # n /\ s[j] \in Nodes
          BY <1>1, <1>a, <1>k, <1>n, <4>0, <4>1
        <5>2. s[j] # r /\ (s[j] = l <=> j = i - 1)
          BY <1>a, <1>k, <1>l, <1>r, <4>1, <5>1, NullAssumption
        <5>3. g.prev[s[j]] = h.prev[s[j]] /\ g.next[s[j]] = IF j = i - 1 THEN r
                                                            ELSE h.next[s[j]]
          BY <1>4, <5>1, <5>2
        <5>4. (j # 1 => t[j - 1] = s[j - 1])
              /\ (j # Len(s) - 1 => t[j + 1] = IF j = i - 1 THEN s[j + 2] ELSE s[j + 1])
          <6>1. j # 1 => j - 1 \in 1..(Len(s) - 1) /\ j - 1 < i
            BY <1>k, <4>0, <4>1
          <6>2. j # Len(s) - 1 => j + 1 \in 1..(Len(s) - 1)
            BY <1>k, <4>0
          <6>3. (j + 1 < i <=> j # i - 1) /\ (j + 1) + 1 = j + 2
            BY <1>k, <4>0, <4>1
          <6>4. j # 1 => t[j - 1] = s[j - 1]
            BY <1>1, <6>1
          <6>5. j # Len(s) - 1 => t[j + 1] = IF j + 1 < i THEN s[j + 1]
                                             ELSE s[(j + 1) + 1]
            BY <1>1, <6>2
          <6> QED BY <6>3, <6>4, <6>5
        <5>5. g.prev[kk[q][j]] = IF j = 1 THEN Null ELSE kk[q][j - 1]
          BY <4>0, <4>s, <5>1, <5>3, <5>4
        <5>6. g.next[kk[q][j]] = IF j = Len(kk[q]) THEN Null ELSE kk[q][j + 1]
          <6>1. CASE j = i - 1
            <7>1. g.next[kk[q][j]] = r
              BY <4>0, <5>1, <5>3, <6>1
            <7>2. j = Len(s) - 1 <=> i = Len(s)
              BY <1>k, <6>1
            <7>3. i + 1 = j + 2
              BY <1>k, <6>1
            <7> QED BY <1>r, <4>0, <5>4, <6>1, <7>1, <7>2, <7>3
          <6>2. CASE j # i - 1
            BY <1>k, <4>0, <4>1, <4>s, <5>1, <5>3, <5>4, <6>2
          <6> QED BY <6>1, <6>2
        <5> QED BY <5>5, <5>6
      <4>2. CASE j >= i
        <5>1. j + 1 \in 1..Len(s) /\ t[j] = s[j + 1] /\ s[j + 1] # n /\ s[j + 1] \in Nodes
          BY <1>1, <1>a, <1>k, <1>n, <4>0, <4>2
        <5>2. s[j + 1] # l /\ (s[j + 1] = r <=> j = i)
          BY <1>a, <1>k, <1>l, <1>r, <4>2, <5>1, NullAssumption
        <5>3. g.next[s[j + 1]] = h.next[s[j + 1]]
              /\ g.prev[s[j + 1]] = IF j = i THEN l ELSE h.prev[s[j + 1]]
          BY <1>4, <5>1, <5>2
        <5>4. (j # Len(s) - 1 => t[j + 1] = s[j + 2])
              /\ (j # 1 => t[j - 1] = IF j = i THEN s[j - 1] ELSE s[j])
          BY <1>1, <1>k, <4>0, <4>2
        <5>5. g.next[kk[q][j]] = IF j = Len(kk[q]) THEN Null ELSE kk[q][j + 1]
          <6>1. h.next[s[j + 1]] = IF j + 1 = Len(s) THEN Null ELSE s[(j + 1) + 1]
            BY <4>s, <5>1
          <6>2. (j + 1) + 1 = j + 2 /\ (j + 1 = Len(s) <=> j = Len(s) - 1)
            BY <1>k, <4>0
          <6> QED BY <4>0, <5>1, <5>3, <5>4, <6>1, <6>2
        <5>6. g.prev[kk[q][j]] = IF j = 1 THEN Null ELSE kk[q][j - 1]
          <6>1. CASE j = i
            BY <1>l, <4>0, <5>1, <5>3, <5>4, <6>1
          <6>2. CASE j # i
            <7>1. h.prev[s[j + 1]] = s[j] /\ j # 1
              BY <1>k, <4>0, <4>2, <4>s, <5>1, <6>2
            <7> QED BY <4>0, <5>1, <5>3, <5>4, <6>2, <7>1
          <6> QED BY <6>1, <6>2
        <5> QED BY <5>5, <5>6
      <4> QED BY <1>k, <4>0, <4>1, <4>2
    <3>2. CASE q # p
      <4>1. kk[q] = k[q] /\ j \in 1..Len(k[q])
        BY <1>2, <2>1, <3>2
      <4>2. k[q][j] \in Nodes /\ h.parent[k[q][j]] = q
        BY <1>5, <4>1
      <4>3. k[q][j] # l /\ k[q][j] # r /\ k[q][j] # n
        BY <1>l, <1>n, <1>r, <3>2, <4>2, NullAssumption
      <4>4. g.prev[k[q][j]] = h.prev[k[q][j]] /\ g.next[k[q][j]] = h.next[k[q][j]]
        BY <1>4, <4>2, <4>3
      <4> QED BY <2>0, <4>1, <4>4
    <3> QED BY <3>1, <3>2
  <2>2. ASSUME NEW m \in Nodes, g.parent[m] = Null \/ m \in g.pending
        PROVE  g.prev[m] = Null /\ g.next[m] = Null
    <3>1. CASE m = n
      BY <1>4, <3>1
    <3>2. CASE m # n
      <4>1. h.parent[m] = Null \/ m \in h.pending
        BY <1>4, <2>2, <3>2
      <4>2. m # l /\ m # r
        BY <1>l, <1>p, <1>r, <4>1, NullAssumption
      <4> QED BY <1>4, <2>0, <3>2, <4>1, <4>2
    <3> QED BY <3>1, <3>2
  <2> QED BY <2>1, <2>2 DEF Neighbours
<1>10. Vacant(g, kk)
  <2>1. /\ \A m \in Nodes : h.kind[m] = "free" => h.parent[m] = Null /\ Len(k[m]) = 0
        /\ \A m \in h.pending :
             m \in Nodes /\ h.parent[m] \in Nodes /\ h.kind[h.parent[m]] # "free"
    BY DEF Spells, Vacant
  <2>2. Len(k[p]) # 0
    BY <1>k DEF s
  <2>3. \A m \in Nodes : g.kind[m] = "free" => g.parent[m] = Null /\ Len(kk[m]) = 0
    BY <1>2, <1>4, <2>1, <2>2
  <2>4. \A m \in g.pending :
          m \in Nodes /\ g.parent[m] \in Nodes /\ g.kind[g.parent[m]] # "free"
    BY <1>4, <1>n, <2>1
  <2> QED BY <2>3, <2>4 DEF Vacant
<1>11. NoCycle(g)
  BY <1>4, FewerParents DEF Spells
<1> QED BY <1>7, <1>8, <1>9, <1>10, <1>11 DEF Spells, kk, t, s

-----------------------------------------------------------------------------
(* All children of p are taken out at once; a closed set D of nodes is        *)
(* deleted; nodes are copied.                                                 *)

Empties(h, g, p) ==
    /\ g.pending = h.pending
    /\ \A m \in Nodes :
         /\ g.kind[m] = h.kind[m]
         /\ g.parent[m] = IF h.parent[m] = p THEN Null ELSE h.parent[m]
         /\ g.prev[m] = IF h.parent[m] = p THEN Null ELSE h.prev[m]
         /\ g.next[m] = IF h.parent[m] = p THEN Null ELSE h.next[m]
         /\ g.firstChild[m] = IF m = p THEN Null ELSE h.firstChild[m]
         /\ g.lastChild[m] = IF m = p THEN Null ELSE h.lastChild[m]

LEMMA EmptySpells ==
  ASSUME NEW h, NEW g, NEW k, Spells(h, k), NEW p \in Nodes, Empties(h, g, p),
         h.pending = {}
  PROVE  Spells(g, [k EXCEPT ![p] = <<>>])
<1> DEFINE kk == [k EXCEPT ![p] = <<>>]
<1>0. k \in [Nodes -> Seq(Nodes)] /\ Lists(h, k)
  BY DEF Spells, Lists
<1>1. /\ kk \in [Nodes -> Seq(Nodes)] /\ kk[p] = <<>> /\ Len(kk[p]) = 0
      /\ \A q \in Nodes : q # p => kk[q] = k[q]
      /\ p # Null
  BY <1>0, NullAssumption
<1>2. \A q \in Nodes : \A j \in 1..Len(k[q]) : k[q][j] \in Nodes /\ h.parent[k[q][j]] = q
  <2>1. \A q \in Nodes : \A j \in 1..Len(k[q]) : k[q][j] \in Nodes
    BY <1>0
  <2> QED BY <1>0, <2>1 DEF Lists
<1>3. \A q \in Nodes : \A j \in 1..Len(kk[q]) : q # p /\ kk[q] = k[q]
  BY <1>1
<1> HIDE DEF kk
<1>4. Lists(g, kk)
  <2>1. ASSUME NEW q \in Nodes, NEW j \in 1..Len(kk[q])
        PROVE  g.parent[kk[q][j]] = q /\ kk[q][j] \notin g.pending
    <3>1. q # p /\ k[q][j] \in Nodes /\ h.parent[k[q][j]] = q /\ kk[q] = k[q]
      BY <1>2, <1>3, <2>1
    <3> QED BY <3>1 DEF Empties
  <2>2. ASSUME NEW q \in Nodes, NEW i \in 1..Len(kk[q]), NEW j \in 1..Len(kk[q]),
               kk[q][i] = kk[q][j]
        PROVE  i = j
    BY <1>0, <1>3, <2>2 DEF Lists
  <2>3. ASSUME NEW m \in Nodes, g.parent[m] # Null
        PROVE  /\ g.parent[m] \in Nodes
               /\ \E j \in 1..Len(kk[g.parent[m]]) : kk[g.parent[m]][j] = m
    <3>1. g.parent[m] = h.parent[m] /\ h.parent[m] # p
      BY <2>3 DEF Empties
    <3>2. /\ h.parent[m] \in Nodes
          /\ \E j \in 1..Len(k[h.parent[m]]) : k[h.parent[m]][j] = m
      BY <1>0, <2>3, <3>1 DEF Lists
    <3> QED BY <1>1, <3>1, <3>2
  <2> QED BY <1>1, <2>1, <2>2, <2>3 DEF Lists
<1>5. Ends(g, kk)
  BY <1>1 DEF Spells, Ends, Empties
<1>6. Neighbours(g, kk)
  <2>1. ASSUME NEW q \in Nodes, NEW j \in 1..Len(kk[q])
        PROVE  /\ g.prev[kk[q][j]] = IF j = 1 THEN Null ELSE kk[q][j - 1]
               /\ g.next[kk[q][j]] = IF j = Len(kk[q]) THEN Null ELSE kk[q][j + 1]
    <3>1. kk[q] = k[q] /\ j \in 1..Len(k[q])
      BY <1>3, <2>1
    <3>2. k[q][j] \in Nodes /\ h.parent[k[q][j]] = q
      BY <1>2, <3>1
    <3>3. g.prev[k[q][j]] = h.prev[k[q][j]] /\ g.next[k[q][j]] = h.next[k[q][j]]
      BY <1>3, <2>1, <3>1, <3>2 DEF Empties
    <3>4. /\ h.prev[k[q][j]] = IF j = 1 THEN Null ELSE k[q][j - 1]
          /\ h.next[k[q][j]] = IF j = Len(k[q]) THEN Null ELSE k[q][j + 1]
      BY <3>1 DEF Spells, Neighbours
    <3> QED BY <3>1, <3>3, <3>4
  <2>2. ASSUME NEW m \in Nodes, g.parent[m] = Null \/ m \in g.pending
        PROVE  g.prev[m] = Null /\ g.next[m] = Null
    BY <1>1, <2>2 DEF Spells, Neighbours, Empties
  <2> QED BY <2>1, <2>2 DEF Neighbours
<1>7. Vacant(g, kk)
  <2>1. \A m \in Nodes : g.kind[m] = "free" => g.parent[m] = Null /\ Len(kk[m]) = 0
    <3>1. \A m \in Nodes : h.kind[m] = "free" => h.parent[m] = Null /\ Len(k[m]) = 0
      BY DEF Spells, Vacant
    <3> QED BY <1>1, <3>1 DEF Empties
  <2>2. g.pending = {}
    BY DEF Empties
  <2> QED BY <2>1, <2>2 DEF Vacant
<1>8. NoCycle(g)
  BY FewerParents DEF Spells, Empties
<1> QED BY <1>4, <1>5, <1>6, <1>7, <1>8 DEF Spells, kk

Frees(h, g, D) ==
    /\ g.pending = h.pending
    /\ \A m \in Nodes :
         /\ g.kind[m] = IF m \in D THEN "free" ELSE h.kind[m]
         /\ g.parent[m] = IF m \in D THEN Null ELSE h.parent[m]
         /\ g.prev[m] = IF m \in D THEN Null ELSE h.prev[m]
         /\ g.next[m] = IF m \in D THEN Null ELSE h.next[m]
         /\ g.firstChild[m] = IF m \in D THEN Null ELSE h.firstChild[m]
         /\ g.lastChild[m] = IF m \in D THEN Null ELSE h.lastChild[m]

LEMMA FreeSpells ==
  ASSUME NEW h, NEW g, NEW k, Spells(h, k), NEW D \in SUBSET Nodes, Frees(h, g, D),
         h.pending = {},
         \A m \in Nodes : h.parent[m] \in D => m \in D,
         \A m \in D : h.parent[m] \in D \cup {Null}
  PROVE  Spells(g, [q \in Nodes |-> IF q \in D THEN <<>> ELSE k[q]])
<1> DEFINE kk == [q \in Nodes |-> IF q \in D THEN <<>> ELSE k[q]]
<1>0. k \in [Nodes -> Seq(Nodes)] /\ Lists(h, k)
  BY DEF Spells, Lists
<1>1. /\ kk \in [Nodes -> Seq(Nodes)]
      /\ \A q \in Nodes : IF q \in D THEN kk[q] = <<>> /\ Len(kk[q]) = 0
                                     ELSE kk[q] = k[q]
  BY <1>0
<1>2. \A q \in Nodes : \A j \in 1..Len(k[q]) : k[q][j] \in Nodes /\ h.parent[k[q][j]] = q
  <2>1. \A q \in Nodes : \A j \in 1..Len(k[q]) : k[q][j] \in Nodes
    BY <1>0
  <2> QED BY <1>0, <2>1 DEF Lists
<1>3. \A q \in Nodes : \A j \in 1..Len(kk[q]) :
        q \notin D /\ kk[q] = k[q] /\ kk[q][j] \notin D
  BY <1>1, <1>2, NullAssumption
<1> HIDE DEF kk
<1>4. Lists(g, kk)
  <2>1. ASSUME NEW m \in Nodes, g.parent[m] # Null
        PROVE  /\ g.parent[m] \in Nodes
               /\ \E j \in 1..Len(kk[g.parent[m]]) : kk[g.parent[m]][j] = m
    <3>1. m \notin D /\ g.parent[m] = h.parent[m] /\ h.parent[m] \notin D
      BY <2>1 DEF Frees
    <3>2. /\ h.parent[m] \in Nodes
          /\ \E j \in 1..Len(k[h.parent[m]]) : k[h.parent[m]][j] = m
      BY <1>0, <2>1, <3>1 DEF Lists
    <3> QED BY <1>1, <3>1, <3>2
  <2>2. ASSUME NEW q \in Nodes, NEW j \in 1..Len(kk[q])
        PROVE  g.parent[kk[q][j]] = q /\ kk[q][j] \notin g.pending
    <3>1. /\ k[q][j] \in Nodes /\ h.parent[k[q][j]] = q /\ kk[q] = k[q]
          /\ k[q][j] \notin D
      BY <1>2, <1>3, <2>2
    <3> QED BY <3>1 DEF Frees
  <2>3. ASSUME NEW q \in Nodes, NEW i \in 1..Len(kk[q]), NEW j \in 1..Len(kk[q]),
               kk[q][i] = kk[q][j]
        PROVE  i = j
    BY <1>0, <1>3, <2>3 DEF Lists
  <2> QED BY <1>1, <2>1, <2>2, <2>3 DEF Lists
<1>5. Ends(g, kk)
  BY <1>1 DEF Spells, Ends, Frees
<1>6. Neighbours(g, kk)
  <2>1. ASSUME NEW q \in Nodes, NEW j \in 1..Len(kk[q])
        PROVE  /\ g.prev[kk[q][j]] = IF j = 1 THEN Null ELSE kk[q][j - 1]
               /\ g.next[kk[q][j]] = IF j = Len(kk[q]) THEN Null ELSE kk[q][j + 1]
    <3>1. kk[q] = k[q] /\ j \in 1..Len(k[q])
      BY <1>3, <2>1
    <3>2. k[q][j] \in Nodes /\ h.parent[k[q][j]] = q
      BY <1>2, <3>1
    <3>3. g.prev[k[q][j]] = h.prev[k[q][j]] /\ g.next[k[q][j]] = h.next[k[q][j]]
      BY <1>3, <2>1, <3>1, <3>2 DEF Frees
    <3>4. /\ h.prev[k[q][j]] = IF j = 1 THEN Null ELSE k[q][j - 1]
          /\ h.next[k[q][j]] = IF j = Len(k[q]) THEN Null ELSE k[q][j + 1]
      BY <3>1 DEF Spells, Neighbours
    <3> QED BY <3>1, <3>3, <3>4
  <2>2. ASSUME NEW m \in Nodes, g.parent[m] = Null \/ m \in g.pending
        PROVE  g.prev[m] = Null /\ g.next[m] = Null
    BY <1>1, <2>2 DEF Spells, Neighbours, Frees
  <2> QED BY <2>1, <2>2 DEF Neighbours
<1>7. Vacant(g, kk)
  BY <1>1 DEF Spells, Vacant, Frees
<1>8. NoCycle(g)
  BY FewerParents DEF Spells, Frees
<1> QED BY <1>4, <1>5, <1>6, <1>7, <1>8 DEF Spells, kk

(* The trees below a, copied by at.                                           *)
TreeAt(h, D, a) ==
    /\ D \subseteq Nodes /\ a \in D
    /\ \A m \in Nodes : h.parent[m] \in D => m \in D
    /\ \A m \in D : m = a \/ h.parent[m] \in D
    /\ \A m \in D : h.kind[m] # "free"
    /\ h.parent[a] \notin D

(* at names an unused address for each node of D.                             *)
Fresh(h, D, at) ==
    /\ \A m \in D : at[m] \in Nodes /\ h.kind[at[m]] = "free"
    /\ \A m, o \in D : at[m] = at[o] => m = o

Image(D, at) == {at[m] : m \in D}

(* A pointer within the original becomes one within the copy.                 *)
Within(D, at, x) == IF x \in D THEN at[x] ELSE Null

CopiesTo(h, g, D, at) ==
    /\ g.pending = h.pending
    /\ \A m \in D :
         /\ g.kind[at[m]] = h.kind[m]
         /\ g.parent[at[m]] = Within(D, at, h.parent[m])
         /\ g.prev[at[m]] = Within(D, at, h.prev[m])
         /\ g.next[at[m]] = Within(D, at, h.next[m])
         /\ g.firstChild[at[m]] = Within(D, at, h.firstChild[m])
         /\ g.lastChild[at[m]] = Within(D, at, h.lastChild[m])
    /\ \A n \in Nodes \ Image(D, at) :
         /\ g.kind[n] = h.kind[n]
         /\ g.parent[n] = h.parent[n]
         /\ g.prev[n] = h.prev[n] /\ g.next[n] = h.next[n]
         /\ g.firstChild[n] = h.firstChild[n] /\ g.lastChild[n] = h.lastChild[n]

CopiedKids(k, D, at) ==
    [n \in Nodes |->
       IF n \in Image(D, at)
         THEN LET m == CHOOSE o \in D : at[o] = n
              IN  [i \in 1..Len(k[m]) |-> at[k[m][i]]]
         ELSE k[n]]

LEMMA CopiedKidsFacts ==
  ASSUME NEW h, NEW k, Spells(h, k), NEW D, NEW a, TreeAt(h, D, a),
         NEW at, Fresh(h, D, at)
  PROVE  /\ CopiedKids(k, D, at) \in [Nodes -> Seq(Nodes)]
         /\ \A m \in D : /\ Len(CopiedKids(k, D, at)[at[m]]) = Len(k[m])
                         /\ \A i \in 1..Len(k[m]) :
                              /\ k[m][i] \in D
                              /\ CopiedKids(k, D, at)[at[m]][i] = at[k[m][i]]
         /\ \A n \in Nodes \ Image(D, at) : CopiedKids(k, D, at)[n] = k[n]
<1>0. k \in [Nodes -> Seq(Nodes)] /\ Lists(h, k) /\ D \subseteq Nodes
  BY DEF Spells, Lists, TreeAt
<1> DEFINE seq(m) == [i \in 1..Len(k[m]) |-> at[k[m][i]]]
<1>1. ASSUME NEW m \in D
      PROVE  /\ seq(m) \in Seq(Nodes) /\ Len(seq(m)) = Len(k[m])
             /\ \A i \in 1..Len(k[m]) : k[m][i] \in D /\ seq(m)[i] = at[k[m][i]]
  <2>1. m \in Nodes /\ k[m] \in Seq(Nodes) /\ Len(k[m]) \in Nat
    BY <1>0
  <2>2. \A i \in 1..Len(k[m]) : k[m][i] \in Nodes /\ h.parent[k[m][i]] = m
    BY <1>0, <2>1 DEF Lists
  <2>3. \A i \in 1..Len(k[m]) : k[m][i] \in D
    BY <2>2 DEF TreeAt
  <2>4. \A i \in 1..Len(k[m]) : at[k[m][i]] \in Nodes
    BY <2>3 DEF Fresh
  <2>5. seq(m) \in [1..Len(k[m]) -> Nodes]
    BY <2>4
  <2> QED BY <2>1, <2>3, <2>5
<1> HIDE DEF seq
<1>2. ASSUME NEW m \in D
      PROVE  at[m] \in Image(D, at) /\ at[m] \in Nodes
             /\ (CHOOSE o \in D : at[o] = at[m]) = m
  BY DEF Image, Fresh
<1>3. ASSUME NEW n \in Nodes
      PROVE  CopiedKids(k, D, at)[n] =
               IF n \in Image(D, at) THEN seq(CHOOSE o \in D : at[o] = n) ELSE k[n]
  BY DEF CopiedKids, seq
<1>4. ASSUME NEW n \in Image(D, at)
      PROVE  (CHOOSE o \in D : at[o] = n) \in D
  BY DEF Image
<1>5. CopiedKids(k, D, at) \in [Nodes -> Seq(Nodes)]
  <2>1. ASSUME NEW n \in Nodes
        PROVE  CopiedKids(k, D, at)[n] \in Seq(Nodes)
    <3>1. CASE n \in Image(D, at)
      <4>1. PICK o \in D : CopiedKids(k, D, at)[n] = seq(o)
        BY <1>3, <1>4, <3>1
      <4> QED BY <1>1, <4>1
    <3>2. CASE n \notin Image(D, at)
      BY <1>0, <1>3, <3>2
    <3> QED BY <3>1, <3>2
  <2>2. CopiedKids(k, D, at) = [n \in Nodes |-> CopiedKids(k, D, at)[n]]
    BY DEF CopiedKids
  <2> QED BY <2>1, <2>2
<1>6. \A m \in D : CopiedKids(k, D, at)[at[m]] = seq(m)
  BY <1>2, <1>3
<1>7. \A n \in Nodes \ Image(D, at) : CopiedKids(k, D, at)[n] = k[n]
  BY <1>3
<1> QED BY <1>1, <1>5, <1>6, <1>7

LEMMA CopySpells ==
  ASSUME NEW h, NEW g, NEW k, Spells(h, k), NEW D, NEW a, TreeAt(h, D, a),
         NEW at, Fresh(h, D, at), CopiesTo(h, g, D, at), h.pending = {}
  PROVE  Spells(g, CopiedKids(k, D, at))
<1> DEFINE kk == CopiedKids(k, D, at)
           I == Image(D, at)
<1>0. k \in [Nodes -> Seq(Nodes)] /\ Lists(h, k) /\ D \subseteq Nodes /\ Null \notin D
  BY NullAssumption DEF Spells, Lists, TreeAt
<1>1. /\ kk \in [Nodes -> Seq(Nodes)]
      /\ \A m \in D : /\ Len(kk[at[m]]) = Len(k[m])
                      /\ \A i \in 1..Len(k[m]) :
                           k[m][i] \in D /\ kk[at[m]][i] = at[k[m][i]]
      /\ \A n \in Nodes : n \notin I => kk[n] = k[n]
  BY CopiedKidsFacts
<1>2. \A q \in Nodes : \A j \in 1..Len(k[q]) : k[q][j] \in Nodes /\ h.parent[k[q][j]] = q
  <2>1. \A q \in Nodes : \A j \in 1..Len(k[q]) : k[q][j] \in Nodes
    BY <1>0
  <2> QED BY <1>0, <2>1 DEF Lists
<1>3. /\ \A n \in I : \E m \in D : n = at[m]
      /\ \A m \in D : at[m] \in I /\ at[m] \in Nodes
      /\ \A n \in I : n \in Nodes /\ h.parent[n] = Null /\ Len(k[n]) = 0
      /\ \A m, o \in D : at[m] = at[o] => m = o
  BY DEF Image, Fresh, Spells, Vacant
<1>4. \A q \in Nodes : \A j \in 1..Len(k[q]) : k[q][j] \notin I /\ q \notin I
  <2> SUFFICES ASSUME NEW q \in Nodes, NEW j \in 1..Len(k[q])
               PROVE  k[q][j] \notin I /\ q \notin I
    OBVIOUS
  <2>1. h.parent[k[q][j]] # Null /\ Len(k[q]) # 0
    BY <1>0, <1>2, NullAssumption
  <2> QED BY <1>3, <2>1
<1>g. /\ g.pending = {}
      /\ \A m \in D :
         /\ g.kind[at[m]] = h.kind[m]
         /\ g.parent[at[m]] = Within(D, at, h.parent[m])
         /\ g.prev[at[m]] = Within(D, at, h.prev[m])
         /\ g.next[at[m]] = Within(D, at, h.next[m])
         /\ g.firstChild[at[m]] = Within(D, at, h.firstChild[m])
         /\ g.lastChild[at[m]] = Within(D, at, h.lastChild[m])
      /\ \A n \in Nodes : n \notin I =>
         /\ g.kind[n] = h.kind[n]
         /\ g.parent[n] = h.parent[n]
         /\ g.prev[n] = h.prev[n] /\ g.next[n] = h.next[n]
         /\ g.firstChild[n] = h.firstChild[n] /\ g.lastChild[n] = h.lastChild[n]
  BY DEF CopiesTo
<1>t. /\ \A m \in D : m = a \/ h.parent[m] \in D
      /\ \A m \in D : h.kind[m] # "free"
      /\ a \in D /\ h.parent[a] \notin D
  BY DEF TreeAt
<1> HIDE DEF kk, I
<1>5. Lists(g, kk)
  <2>1. ASSUME NEW q \in Nodes, NEW j \in 1..Len(kk[q])
        PROVE  g.parent[kk[q][j]] = q
    <3>1. ASSUME NEW m \in D, q = at[m]
          PROVE  g.parent[kk[q][j]] = q
      <4>0. m \in Nodes /\ j \in 1..Len(k[m])
        BY <1>0, <1>1, <2>1, <3>1
      <4>1. k[m][j] \in D /\ kk[q][j] = at[k[m][j]] /\ h.parent[k[m][j]] = m
        BY <1>1, <1>2, <3>1, <4>0
      <4> QED BY <1>g, <3>1, <4>1 DEF Within
    <3>2. CASE q \notin I
      <4>1. kk[q] = k[q] /\ k[q][j] \in Nodes /\ h.parent[k[q][j]] = q /\ k[q][j] \notin I
        BY <1>1, <1>2, <1>4, <2>1, <3>2
      <4> QED BY <1>g, <4>1
    <3> QED BY <1>3, <3>1, <3>2
  <2>2. ASSUME NEW q \in Nodes, NEW i \in 1..Len(kk[q]), NEW j \in 1..Len(kk[q]),
               kk[q][i] = kk[q][j]
        PROVE  i = j
    <3>1. ASSUME NEW m \in D, q = at[m]
          PROVE  i = j
      <4>1. /\ i \in 1..Len(k[m]) /\ k[m][i] \in D /\ kk[q][i] = at[k[m][i]]
            /\ j \in 1..Len(k[m]) /\ k[m][j] \in D /\ kk[q][j] = at[k[m][j]]
        BY <1>1, <2>2, <3>1
      <4>2. k[m][i] = k[m][j]
        BY <1>3, <2>2, <4>1
      <4> QED BY <1>0, <4>1, <4>2 DEF Lists
    <3>2. CASE q \notin I
      BY <1>0, <1>1, <2>2, <3>2 DEF Lists
    <3> QED BY <1>3, <3>1, <3>2
  <2>3. ASSUME NEW n \in Nodes, g.parent[n] # Null
        PROVE  /\ g.parent[n] \in Nodes
               /\ \E j \in 1..Len(kk[g.parent[n]]) : kk[g.parent[n]][j] = n
    <3>0. \A o \in Nodes : h.parent[o] # Null =>
            /\ h.parent[o] \in Nodes
            /\ \E i \in 1..Len(k[h.parent[o]]) : k[h.parent[o]][i] = o
      BY <1>0 DEF Lists
    <3>1. ASSUME NEW m \in D, n = at[m]
          PROVE  /\ g.parent[n] \in Nodes
                 /\ \E j \in 1..Len(kk[g.parent[n]]) : kk[g.parent[n]][j] = n
      <4>1. h.parent[m] \in D /\ g.parent[n] = at[h.parent[m]]
        BY <1>g, <2>3, <3>1 DEF Within
      <4>2. PICK j \in 1..Len(k[h.parent[m]]) : k[h.parent[m]][j] = m
        BY <1>0, <3>0, <4>1
      <4>3. j \in 1..Len(kk[g.parent[n]]) /\ kk[g.parent[n]][j] = n
        BY <1>1, <3>1, <4>1, <4>2
      <4> QED BY <1>3, <4>1, <4>3
    <3>2. CASE n \notin I
      <4>1. g.parent[n] = h.parent[n] /\ h.parent[n] \in Nodes
        BY <1>g, <2>3, <3>0, <3>2
      <4>2. PICK j \in 1..Len(k[h.parent[n]]) : k[h.parent[n]][j] = n
        BY <2>3, <3>0, <4>1
      <4>3. h.parent[n] \notin I
        BY <1>4, <4>1, <4>2
      <4> QED BY <1>1, <4>1, <4>2, <4>3
    <3> QED BY <1>3, <3>1, <3>2
  <2> QED BY <1>1, <1>g, <2>1, <2>2, <2>3 DEF Lists
<1>6. Ends(g, kk)
  <2> SUFFICES ASSUME NEW q \in Nodes
               PROVE  /\ g.firstChild[q] = IF Len(kk[q]) = 0 THEN Null ELSE kk[q][1]
                      /\ g.lastChild[q] = IF Len(kk[q]) = 0 THEN Null
                                          ELSE kk[q][Len(kk[q])]
    BY DEF Ends
  <2>0. \A o \in Nodes :
          /\ h.firstChild[o] = IF Len(k[o]) = 0 THEN Null ELSE k[o][1]
          /\ h.lastChild[o] = IF Len(k[o]) = 0 THEN Null ELSE k[o][Len(k[o])]
    BY DEF Spells, Ends
  <2>1. ASSUME NEW m \in D, q = at[m]
        PROVE  /\ g.firstChild[q] = IF Len(kk[q]) = 0 THEN Null ELSE kk[q][1]
               /\ g.lastChild[q] = IF Len(kk[q]) = 0 THEN Null ELSE kk[q][Len(kk[q])]
    <3>1. /\ g.firstChild[q] = Within(D, at, h.firstChild[m])
          /\ g.lastChild[q] = Within(D, at, h.lastChild[m])
          /\ Len(kk[q]) = Len(k[m]) /\ m \in Nodes /\ k[m] \in Seq(Nodes)
      BY <1>0, <1>1, <1>g, <2>1
    <3>2. CASE Len(k[m]) = 0
      BY <1>0, <2>0, <3>1, <3>2 DEF Within
    <3>3. CASE Len(k[m]) # 0
      <4>1. 1 \in 1..Len(k[m]) /\ Len(k[m]) \in 1..Len(k[m])
        BY <3>1, <3>3
      <4>2. /\ k[m][1] \in D /\ kk[q][1] = at[k[m][1]]
            /\ k[m][Len(k[m])] \in D /\ kk[q][Len(k[m])] = at[k[m][Len(k[m])]]
        BY <1>1, <2>1, <4>1
      <4> QED BY <2>0, <3>1, <3>3, <4>2 DEF Within
    <3> QED BY <3>2, <3>3
  <2>2. CASE q \notin I
    BY <1>1, <1>g, <2>0, <2>2
  <2> QED BY <1>3, <2>1, <2>2
<1>7. Neighbours(g, kk)
  <2>0. /\ \A q \in Nodes : \A j \in 1..Len(k[q]) :
             /\ h.prev[k[q][j]] = IF j = 1 THEN Null ELSE k[q][j - 1]
             /\ h.next[k[q][j]] = IF j = Len(k[q]) THEN Null ELSE k[q][j + 1]
        /\ \A n \in Nodes : h.parent[n] = Null => h.prev[n] = Null /\ h.next[n] = Null
    BY DEF Spells, Neighbours
  <2>1. ASSUME NEW q \in Nodes, NEW j \in 1..Len(kk[q])
        PROVE  /\ g.prev[kk[q][j]] = IF j = 1 THEN Null ELSE kk[q][j - 1]
               /\ g.next[kk[q][j]] = IF j = Len(kk[q]) THEN Null ELSE kk[q][j + 1]
    <3>1. ASSUME NEW m \in D, q = at[m]
          PROVE  /\ g.prev[kk[q][j]] = IF j = 1 THEN Null ELSE kk[q][j - 1]
                 /\ g.next[kk[q][j]] = IF j = Len(kk[q]) THEN Null ELSE kk[q][j + 1]
      <4>0. m \in Nodes /\ k[m] \in Seq(Nodes) /\ Len(k[m]) \in Nat
        BY <1>0
      <4>k. Len(kk[q]) = Len(k[m]) /\ j \in 1..Len(k[m])
        BY <1>1, <2>1, <3>1
      <4>1. k[m][j] \in D /\ kk[q][j] = at[k[m][j]]
        BY <1>1, <3>1, <4>k
      <4>2. /\ g.prev[kk[q][j]] = Within(D, at, h.prev[k[m][j]])
            /\ g.next[kk[q][j]] = Within(D, at, h.next[k[m][j]])
        BY <1>g, <4>1
      <4>3. /\ h.prev[k[m][j]] = IF j = 1 THEN Null ELSE k[m][j - 1]
            /\ h.next[k[m][j]] = IF j = Len(k[m]) THEN Null ELSE k[m][j + 1]
        BY <2>0, <4>0, <4>k
      <4>4. /\ j # 1 => j - 1 \in 1..Len(k[m])
            /\ j # Len(k[m]) => j + 1 \in 1..Len(k[m])
        BY <4>0, <4>k
      <4>5. /\ j # 1 => k[m][j - 1] \in D /\ kk[q][j - 1] = at[k[m][j - 1]]
            /\ j # Len(k[m]) => k[m][j + 1] \in D /\ kk[q][j + 1] = at[k[m][j + 1]]
        BY <1>1, <3>1, <4>4
      <4> QED BY <1>0, <4>1, <4>2, <4>3, <4>5, <4>k DEF Within
    <3>2. CASE q \notin I
      <4>1. kk[q] = k[q] /\ j \in 1..Len(k[q]) /\ k[q][j] \in Nodes /\ k[q][j] \notin I
        BY <1>1, <1>2, <1>4, <2>1, <3>2
      <4>2. g.prev[k[q][j]] = h.prev[k[q][j]] /\ g.next[k[q][j]] = h.next[k[q][j]]
        BY <1>g, <4>1
      <4> QED BY <2>0, <4>1, <4>2
    <3> QED BY <1>3, <3>1, <3>2
  <2>2. ASSUME NEW n \in Nodes, g.parent[n] = Null
        PROVE  g.prev[n] = Null /\ g.next[n] = Null
    <3>1. ASSUME NEW m \in D, n = at[m]
          PROVE  g.prev[n] = Null /\ g.next[n] = Null
      <4>1. h.parent[m] \notin D
        BY <1>3, <1>g, <2>2, <3>1, NullAssumption DEF Within
      <4>2. m = a /\ m \in Nodes
        BY <1>0, <1>t, <4>1
      <4>3. h.prev[m] \notin D /\ h.next[m] \notin D
        <5>1. CASE h.parent[m] = Null
          BY <1>0, <2>0, <4>2, <5>1
        <5>2. CASE h.parent[m] # Null
          <6> DEFINE u == h.parent[m]
          <6>1. u \in Nodes
            BY <1>0, <4>2, <5>2 DEF Lists, Spells
          <6>2. PICK j \in 1..Len(k[u]) : k[u][j] = m
            BY <1>0, <4>2, <5>2 DEF Lists
          <6>3. \A i \in 1..Len(k[u]) : i # j => k[u][i] \notin D
            <7>1. \A i \in 1..Len(k[u]) : k[u][i] \in D => k[u][i] = a
              BY <1>2, <1>t, <4>1, <6>1
            <7> QED BY <1>0, <4>2, <6>1, <6>2, <7>1 DEF Lists
          <6>4. k[u] \in Seq(Nodes)
            BY <1>0, <6>1
          <6>5. /\ h.prev[m] = IF j = 1 THEN Null ELSE k[u][j - 1]
                /\ h.next[m] = IF j = Len(k[u]) THEN Null ELSE k[u][j + 1]
            BY <2>0, <6>1, <6>2
          <6>6. /\ j # 1 => j - 1 \in 1..Len(k[u]) /\ j - 1 # j
                /\ j # Len(k[u]) => j + 1 \in 1..Len(k[u]) /\ j + 1 # j
            BY <6>4
          <6> QED BY <1>0, <6>3, <6>5, <6>6
        <5> QED BY <5>1, <5>2
      <4> QED BY <1>g, <3>1, <4>3 DEF Within
    <3>2. CASE n \notin I
      BY <1>g, <2>0, <2>2, <3>2
    <3> QED BY <1>3, <3>1, <3>2
  <2> QED BY <1>g, <2>1, <2>2 DEF Neighbours
<1>8. Vacant(g, kk)
  <2>1. \A m \in Nodes : h.kind[m] = "free" => h.parent[m] = Null /\ Len(k[m]) = 0
    BY DEF Spells, Vacant
  <2>2. ASSUME NEW n \in Nodes, g.kind[n] = "free"
        PROVE  g.parent[n] = Null /\ Len(kk[n]) = 0
    <3>1. n \notin I
      BY <1>3, <1>g, <1>t, <2>2
    <3> QED BY <1>1, <1>g, <2>1, <2>2, <3>1
  <2> QED BY <1>g, <2>2 DEF Vacant
<1>9. NoCycle(g)
  <2> SUFFICES ASSUME NEW C \in SUBSET Nodes, C # {}
               PROVE  \E n \in C : g.parent[n] \notin C
    BY DEF NoCycle
  <2>0. Null \notin C
    BY NullAssumption
  <2> DEFINE B == {m \in D : at[m] \in C}
  <2>1. CASE B # {}
    <3>1. PICK m \in B : h.parent[m] \notin B
      BY <1>0, <2>1 DEF Spells, NoCycle
    <3>2. g.parent[at[m]] = Within(D, at, h.parent[m])
      BY <1>g, <3>1
    <3>3. g.parent[at[m]] \notin C
      BY <2>0, <3>1, <3>2 DEF Within
    <3> QED BY <3>1, <3>3
  <2>2. CASE B = {}
    <3>1. \A n \in C : n \notin I
      BY <1>3, <2>2
    <3>2. PICK n \in C : h.parent[n] \notin C
      BY DEF Spells, NoCycle
    <3> QED BY <1>g, <3>1, <3>2
  <2> QED BY <2>1, <2>2
<1> QED BY <1>5, <1>6, <1>7, <1>8, <1>9 DEF Spells, kk

-----------------------------------------------------------------------------
(* The states of the program: what the parser holds, and what a heap that     *)
(* spells lists says of the nodes in use.                                     *)

ReadingOK ==
    /\ \A i \in 1..Len(reading) : reading[i] \in Nodes /\ kind[reading[i]] # "free"
    /\ \A i, j \in 1..Len(reading) : reading[i] = reading[j] => i = j
    /\ \A i \in 2..Len(reading) : parent[reading[i]] = reading[i - 1]

HeapInv == TypeOK /\ ReadingOK /\ \E k : Spells(heap, k)

LEMMA HeapFields ==
    /\ heap.kind = kind /\ heap.parent = parent
    /\ heap.firstChild = firstChild /\ heap.lastChild = lastChild
    /\ heap.prev = prev /\ heap.next = next /\ heap.pending = Pending
BY DEF heap

LEMMA NoPending == reading = <<>> => Pending = {} /\ ReadingOK
BY DEF Pending, ReadingOK

LEMMA ParentsLive ==
  ASSUME NEW k, Spells(heap, k), NEW n \in Nodes, parent[n] # Null
  PROVE  parent[n] \in Live /\ n \in Live
<1>1. /\ \A m \in Nodes : kind[m] = "free" => parent[m] = Null /\ Len(k[m]) = 0
      /\ \A m \in Pending : parent[m] \in Nodes /\ kind[parent[m]] # "free"
      /\ n \notin Pending => /\ parent[n] \in Nodes
                             /\ \E i \in 1..Len(k[parent[n]]) : k[parent[n]][i] = n
      /\ k \in [Nodes -> Seq(Nodes)]
  BY HeapFields DEF Spells, Lists, Vacant
<1>2. kind[n] # "free"
  BY <1>1
<1>3. ASSUME n \notin Pending
      PROVE  parent[n] \in Nodes /\ kind[parent[n]] # "free"
  BY <1>1, <1>3
<1> QED BY <1>1, <1>2, <1>3 DEF Live, Free

LEMMA SubtreeLive ==
  ASSUME NEW k, Spells(heap, k), NEW t \in Live
  PROVE  Subtree(t) \subseteq Live
<1>1. Closed(Live)
  BY ParentsLive, NullAssumption DEF Closed, Live
<1> QED BY <1>1, SubtreeLeast DEF Live

LEMMA SubtreeRoot ==
  ASSUME NEW k, Spells(heap, k), NEW t \in Nodes
  PROVE  parent[t] \notin Subtree(t)
<1>1. Subtree(t) \in SUBSET Nodes /\ Subtree(t) # {}
  BY SubtreeFacts
<1>2. PICK n \in Subtree(t) : parent[n] \notin Subtree(t)
  BY <1>1, HeapFields DEF Spells, NoCycle
<1> QED BY <1>2, SubtreeFacts

(* Whatever hangs together with n is linked below a node outside of it.       *)
LEMMA LinkNoCycle ==
  ASSUME NEW h, NEW g, NoCycle(h), NEW T \in SUBSET Nodes, NEW n \in T,
         NEW p, p \notin T, \A m \in Nodes : h.parent[m] \in T => m \in T,
         \A m \in Nodes : g.parent[m] = IF m = n THEN p ELSE h.parent[m]
  PROVE  NoCycle(g)
<1> SUFFICES ASSUME NEW C \in SUBSET Nodes, C # {}
             PROVE  \E m \in C : g.parent[m] \notin C
  BY DEF NoCycle
<1>1. CASE C \subseteq T
  <2>1. PICK m \in C : h.parent[m] \notin C
    BY DEF NoCycle
  <2> QED BY <1>1, <2>1
<1>2. CASE ~(C \subseteq T)
  <2>1. C \ T \in SUBSET Nodes /\ C \ T # {}
    BY <1>2
  <2>2. PICK m \in C \ T : h.parent[m] \notin C \ T
    BY <2>1 DEF NoCycle
  <2> QED BY <2>2
<1> QED BY <1>1, <1>2

Same(h, g) ==
    /\ g.pending = h.pending
    /\ \A m \in Nodes :
         /\ g.kind[m] = h.kind[m] /\ g.parent[m] = h.parent[m]
         /\ g.prev[m] = h.prev[m] /\ g.next[m] = h.next[m]
         /\ g.firstChild[m] = h.firstChild[m] /\ g.lastChild[m] = h.lastChild[m]

LEMMA SameSpells ==
  ASSUME NEW h, NEW g, NEW k, Spells(h, k), Same(h, g)
  PROVE  Spells(g, k)
<1>0. k \in [Nodes -> Seq(Nodes)] /\ Lists(h, k)
  BY DEF Spells, Lists
<1>1. \A q \in Nodes : \A j \in 1..Len(k[q]) : k[q][j] \in Nodes
  <2> TAKE q \in Nodes
  <2>1. k[q] \in Seq(Nodes)
    BY <1>0
  <2> QED BY <2>1
<1>2. Lists(g, k)
  <2>1. /\ g.pending = h.pending
        /\ \A m \in Nodes : g.parent[m] = h.parent[m]
    BY DEF Same
  <2>2. \A q \in Nodes : \A j \in 1..Len(k[q]) :
          g.parent[k[q][j]] = q /\ k[q][j] \notin g.pending
    BY <1>0, <1>1, <2>1 DEF Lists
  <2>3. ASSUME NEW m \in Nodes, g.parent[m] # Null, m \notin g.pending
        PROVE  /\ g.parent[m] \in Nodes
               /\ \E j \in 1..Len(k[g.parent[m]]) : k[g.parent[m]][j] = m
    <3>1. g.parent[m] = h.parent[m] /\ h.parent[m] # Null /\ m \notin h.pending
      BY <2>1, <2>3
    <3>2. /\ h.parent[m] \in Nodes
          /\ \E j \in 1..Len(k[h.parent[m]]) : k[h.parent[m]][j] = m
      BY <1>0, <3>1 DEF Lists
    <3> QED BY <3>1, <3>2
  <2> QED BY <1>0, <2>2, <2>3 DEF Lists
<1>3. Ends(g, k)
  BY DEF Spells, Ends, Same
<1>4. Neighbours(g, k)
  BY <1>1 DEF Spells, Neighbours, Same
<1>5. Vacant(g, k)
  <2>1. /\ \A n \in Nodes : h.kind[n] = "free" => h.parent[n] = Null /\ Len(k[n]) = 0
        /\ \A n \in h.pending :
             n \in Nodes /\ h.parent[n] \in Nodes /\ h.kind[h.parent[n]] # "free"
    BY DEF Spells, Vacant
  <2> QED BY <2>1 DEF Vacant, Same
<1>6. NoCycle(g)
  BY FewerParents DEF Spells, Same
<1> QED BY <1>2, <1>3, <1>4, <1>5, <1>6 DEF Spells

-----------------------------------------------------------------------------
(* The copy of a subtree, and a node linked between two siblings, as heaps.   *)

CopiedHeap(at) ==
    [kind |-> CopiedKind(at), parent |-> Copied(parent, at),
     firstChild |-> Copied(firstChild, at), lastChild |-> Copied(lastChild, at),
     prev |-> Copied(prev, at), next |-> Copied(next, at), pending |-> {}]

LinkedTo(h, p, l, n, r) ==
    [kind |-> h.kind,
     parent |-> [m \in Nodes |-> IF m = n THEN p ELSE h.parent[m]],
     prev |-> [m \in Nodes |-> IF m = r THEN n ELSE IF m = n THEN l ELSE h.prev[m]],
     next |-> [m \in Nodes |-> IF m = l THEN n ELSE IF m = n THEN r ELSE h.next[m]],
     firstChild |-> [m \in Nodes |-> IF m = p /\ l = Null THEN n ELSE h.firstChild[m]],
     lastChild |-> [m \in Nodes |-> IF m = p /\ r = Null THEN n ELSE h.lastChild[m]],
     pending |-> h.pending \ {n}]

(* A copied field, node by node.                                              *)
LEMMA CopiedAt ==
  ASSUME NEW f, NEW at, Copies(at)
  PROVE  /\ \A m \in DOMAIN at : Copied(f, at)[at[m]] = Within(DOMAIN at, at, f[m])
         /\ \A n \in Nodes \ Image(DOMAIN at, at) : Copied(f, at)[n] = f[n]
<1>1. ASSUME NEW m \in DOMAIN at
      PROVE  Copied(f, at)[at[m]] = Within(DOMAIN at, at, f[m])
  <2>1. at[m] \in Nodes /\ (CHOOSE o \in DOMAIN at : at[o] = at[m]) = m
    BY DEF Copies, Free
  <2> QED BY <2>1 DEF Copied, Within
<1>2. ASSUME NEW n \in Nodes \ Image(DOMAIN at, at)
      PROVE  Copied(f, at)[n] = f[n]
  <2>1. ~\E m \in DOMAIN at : at[m] = n
    BY DEF Image
  <2> QED BY <2>1 DEF Copied
<1> QED BY <1>1, <1>2

LEMMA CopiedKindAt ==
  ASSUME NEW at, Copies(at)
  PROVE  /\ \A m \in DOMAIN at : CopiedKind(at)[at[m]] = kind[m]
         /\ \A n \in Nodes \ Image(DOMAIN at, at) : CopiedKind(at)[n] = kind[n]
<1>1. ASSUME NEW m \in DOMAIN at
      PROVE  CopiedKind(at)[at[m]] = kind[m]
  <2>1. at[m] \in Nodes /\ (CHOOSE o \in DOMAIN at : at[o] = at[m]) = m
    BY DEF Copies, Free
  <2> QED BY <2>1 DEF CopiedKind
<1>2. ASSUME NEW n \in Nodes \ Image(DOMAIN at, at)
      PROVE  CopiedKind(at)[n] = kind[n]
  <2>1. ~\E m \in DOMAIN at : at[m] = n
    BY DEF Image
  <2> QED BY <2>1 DEF CopiedKind
<1> QED BY <1>1, <1>2

LEMMA CloneSpells ==
  ASSUME NEW k, Spells(heap, k), Pending = {}, NEW a \in Live, NEW at \in Clone(a)
  PROVE  LET h == CopiedHeap(at)
             kk == CopiedKids(k, Subtree(a), at)
         IN  /\ Spells(h, kk)
             /\ at[a] \in Nodes /\ at[a] \notin Live
             /\ h.parent[at[a]] = Null /\ h.kind[at[a]] # "free"
             /\ \A m \in Live : kk[m] = k[m]
             /\ \A m \in Live : /\ h.kind[m] = kind[m] /\ h.parent[m] = parent[m]
                                /\ h.prev[m] = prev[m] /\ h.next[m] = next[m]
                                /\ h.firstChild[m] = firstChild[m]
                                /\ h.lastChild[m] = lastChild[m]
             /\ \A m \in Nodes \ Live : h.parent[m] \notin Live
<1> DEFINE h == CopiedHeap(at)
           D == Subtree(a)
           kk == CopiedKids(k, D, at)
<1>1. a \in Nodes /\ Copies(at) /\ DOMAIN at = D /\ D \subseteq Live /\ a \in D
  BY CloneCopies, SubtreeLive, SubtreeFacts DEF Live
<1>2. TreeAt(heap, D, a)
  BY <1>1, HeapFields, SubtreeFacts, SubtreeRoot DEF TreeAt, Live, Free
<1>3. Fresh(heap, D, at)
  BY <1>1, HeapFields DEF Fresh, Copies, Free
<1>4. /\ h.kind = CopiedKind(at) /\ h.parent = Copied(parent, at)
      /\ h.firstChild = Copied(firstChild, at) /\ h.lastChild = Copied(lastChild, at)
      /\ h.prev = Copied(prev, at) /\ h.next = Copied(next, at) /\ h.pending = {}
  BY DEF CopiedHeap
<1> HIDE DEF h
<1>5. CopiesTo(heap, h, D, at)
  BY <1>1, <1>4, CopiedAt, CopiedKindAt, HeapFields DEF CopiesTo
<1>6. Spells(h, kk)
  BY <1>2, <1>3, <1>5, CopySpells, HeapFields
<1>7. \A m \in Live : m \in Nodes /\ m \notin Image(D, at)
  BY <1>1 DEF Image, Copies, Live
<1>8. \A m \in Live : kk[m] = k[m]
  BY <1>2, <1>3, <1>7, CopiedKidsFacts
<1>9. at[a] \in Nodes /\ at[a] \notin Live /\ h.kind[at[a]] # "free"
  BY <1>1, <1>4, CopiedKindAt DEF Copies, Live, Free
<1>10. h.parent[at[a]] = Null
  BY <1>1, <1>4, CopiedAt, SubtreeRoot DEF Within
<1>11. ASSUME NEW m \in Nodes \ Live
       PROVE  h.parent[m] \notin Live
  <2>1. CASE m \in Image(D, at)
    <3>1. PICK o \in D : m = at[o]
      BY <2>1 DEF Image
    <3>2. h.parent[m] = Within(D, at, parent[o])
      BY <1>1, <1>4, <3>1, CopiedAt
    <3> QED BY <1>1, <3>2, NullAssumption DEF Within, Copies, Live
  <2>2. CASE m \notin Image(D, at)
    <3>1. h.parent[m] = parent[m]
      BY <1>1, <1>4, <2>2, CopiedAt
    <3> QED BY <3>1, ParentsLive, NullAssumption DEF Live
  <2> QED BY <2>1, <2>2
<1>12. \A m \in Live : /\ h.kind[m] = kind[m] /\ h.parent[m] = parent[m]
                       /\ h.prev[m] = prev[m] /\ h.next[m] = next[m]
                       /\ h.firstChild[m] = firstChild[m]
                       /\ h.lastChild[m] = lastChild[m]
  BY <1>1, <1>4, <1>7, CopiedAt, CopiedKindAt
<1> QED BY <1>6, <1>8, <1>9, <1>10, <1>11, <1>12 DEF h

LEMMA InsertSpells ==
  ASSUME NEW k, Spells(heap, k), Pending = {}, NEW p \in Live, NEW a \in Live,
         NEW at \in Clone(a), NEW i \in 1..(Len(k[p]) + 1),
         NEW l, l = IF i = 1 THEN Null ELSE k[p][i - 1],
         NEW r, r = IF i = Len(k[p]) + 1 THEN Null ELSE k[p][i]
  PROVE  Spells(LinkedTo(CopiedHeap(at), p, l, at[a], r),
                [CopiedKids(k, Subtree(a), at) EXCEPT ![p] = Inserted(k[p], i, at[a])])
<1> DEFINE h == CopiedHeap(at)
           n == at[a]
           g == LinkedTo(h, p, l, n, r)
           kk == CopiedKids(k, Subtree(a), at)
           T == Nodes \ Live
<1>1. /\ Spells(h, kk) /\ n \in T /\ h.parent[n] = Null /\ h.kind[n] # "free"
      /\ kk[p] = k[p] /\ h.kind[p] # "free" /\ p \in Nodes
      /\ \A m \in Nodes : h.parent[m] \in T => m \in T
  <2>1. \A m \in Live : h.parent[m] \notin T
    BY CloneSpells, ParentsLive, NullAssumption DEF Live
  <2> QED BY <2>1, CloneSpells DEF Live, Free
<1>2. /\ g.kind = h.kind /\ g.pending = h.pending \ {n}
      /\ \A m \in Nodes :
           /\ g.parent[m] = IF m = n THEN p ELSE h.parent[m]
           /\ g.prev[m] = IF m = r THEN n ELSE IF m = n THEN l ELSE h.prev[m]
           /\ g.next[m] = IF m = l THEN n ELSE IF m = n THEN r ELSE h.next[m]
           /\ g.firstChild[m] = IF m = p /\ l = Null THEN n ELSE h.firstChild[m]
           /\ g.lastChild[m] = IF m = p /\ r = Null THEN n ELSE h.lastChild[m]
  BY DEF LinkedTo
<1> HIDE DEF g, h, kk
<1>3. LinksAt(h, g, p, kk[p], i, n)
  BY <1>1, <1>2 DEF LinksAt
<1>4. NoCycle(g)
  <2>1. NoCycle(h) /\ T \in SUBSET Nodes /\ p \notin T
    BY <1>1 DEF Spells
  <2>2. \A m \in Nodes : g.parent[m] = IF m = n THEN p ELSE h.parent[m]
    BY <1>2
  <2> HIDE DEF T
  <2> QED BY <1>1, <2>1, <2>2, LinkNoCycle
<1>5. Spells(g, [kk EXCEPT ![p] = Inserted(kk[p], i, n)])
  BY <1>1, <1>3, <1>4, LinkSpells
<1> QED BY <1>1, <1>5 DEF g, h, kk

-----------------------------------------------------------------------------
(* Where siblings stand in the lists.                                         *)

LEMMA LastPlace ==
  ASSUME TypeOK, NEW k, Spells(heap, k), NEW p \in Nodes
  PROVE  /\ Len(k[p]) + 1 \in 1..(Len(k[p]) + 1)
         /\ lastChild[p] = IF Len(k[p]) + 1 = 1 THEN Null
                           ELSE k[p][(Len(k[p]) + 1) - 1]
<1>1. k[p] \in Seq(Nodes) /\ Len(k[p]) \in Nat
  BY DEF Spells, Lists
<1>2. lastChild[p] = IF Len(k[p]) = 0 THEN Null ELSE k[p][Len(k[p])]
  BY HeapFields DEF Spells, Ends
<1>3. (Len(k[p]) + 1) - 1 = Len(k[p]) /\ (Len(k[p]) + 1 = 1 <=> Len(k[p]) = 0)
  BY <1>1
<1> QED BY <1>1, <1>2, <1>3

(* A child that the parser does not hold.                                     *)
LEMMA ChildPlace ==
  ASSUME NEW k, Spells(heap, k), NEW b \in Nodes, parent[b] # Null, b \notin Pending
  PROVE  \E i \in 1..Len(k[parent[b]]) :
            /\ k[parent[b]][i] = b
            /\ prev[b] = IF i = 1 THEN Null ELSE k[parent[b]][i - 1]
            /\ next[b] = IF i = Len(k[parent[b]]) THEN Null ELSE k[parent[b]][i + 1]
            /\ Len(k[parent[b]]) \in Nat
<1>1. /\ parent[b] \in Nodes /\ k[parent[b]] \in Seq(Nodes)
      /\ \E i \in 1..Len(k[parent[b]]) : k[parent[b]][i] = b
  BY HeapFields DEF Spells, Lists
<1>2. PICK i \in 1..Len(k[parent[b]]) : k[parent[b]][i] = b
  BY <1>1
<1>3. /\ prev[b] = IF i = 1 THEN Null ELSE k[parent[b]][i - 1]
      /\ next[b] = IF i = Len(k[parent[b]]) THEN Null ELSE k[parent[b]][i + 1]
  BY <1>1, <1>2, HeapFields DEF Spells, Neighbours
<1> QED BY <1>1, <1>2, <1>3

(* Splice, when nothing is deleted, is a copy and a link.                     *)
LEMMA SpliceLinksHeap ==
  ASSUME NEW p \in Nodes, NEW l \in Pointer, NEW n \in Nodes, NEW r \in Pointer,
         NEW at, SpliceLinks(p, l, n, r, at, {}), NEW h,
         h.parent = Copied(parent, at), h.prev = Copied(prev, at),
         h.next = Copied(next, at), h.firstChild = Copied(firstChild, at),
         h.lastChild = Copied(lastChild, at)
  PROVE  \A m \in Nodes :
           /\ parent'[m] = IF m = n THEN p ELSE h.parent[m]
           /\ prev'[m] = IF m = r THEN n ELSE IF m = n THEN l ELSE h.prev[m]
           /\ next'[m] = IF m = l THEN n ELSE IF m = n THEN r ELSE h.next[m]
           /\ firstChild'[m] = IF m = p /\ l = Null THEN n ELSE h.firstChild[m]
           /\ lastChild'[m] = IF m = p /\ r = Null THEN n ELSE h.lastChild[m]
BY NullAssumption DEF SpliceLinks, Freed, Put

LEMMA SpliceHeap ==
  ASSUME Pending = {}, Pending' = {}, NEW p \in Nodes, NEW l \in Pointer,
         NEW n \in Nodes, NEW r \in Pointer, NEW at, Splice(p, l, n, r, at, {})
  PROVE  Same(LinkedTo(CopiedHeap(at), p, l, n, r), heap')
<1> DEFINE h == CopiedHeap(at)
           g == LinkedTo(h, p, l, n, r)
<1>1. /\ h.kind = CopiedKind(at) /\ h.parent = Copied(parent, at)
      /\ h.firstChild = Copied(firstChild, at) /\ h.lastChild = Copied(lastChild, at)
      /\ h.prev = Copied(prev, at) /\ h.next = Copied(next, at) /\ h.pending = {}
  BY DEF CopiedHeap
<1>2. /\ g.kind = h.kind /\ g.pending = h.pending \ {n}
      /\ \A m \in Nodes :
           /\ g.parent[m] = IF m = n THEN p ELSE h.parent[m]
           /\ g.prev[m] = IF m = r THEN n ELSE IF m = n THEN l ELSE h.prev[m]
           /\ g.next[m] = IF m = l THEN n ELSE IF m = n THEN r ELSE h.next[m]
           /\ g.firstChild[m] = IF m = p /\ l = Null THEN n ELSE h.firstChild[m]
           /\ g.lastChild[m] = IF m = p /\ r = Null THEN n ELSE h.lastChild[m]
  BY DEF LinkedTo
<1>3. /\ heap'.kind = kind' /\ heap'.parent = parent'
      /\ heap'.firstChild = firstChild' /\ heap'.lastChild = lastChild'
      /\ heap'.prev = prev' /\ heap'.next = next' /\ heap'.pending = {}
  BY DEF heap
<1>4. \A m \in Nodes : kind'[m] = h.kind[m]
  BY <1>1 DEF Splice, FreedKind
<1>5. \A m \in Nodes :
           /\ parent'[m] = IF m = n THEN p ELSE h.parent[m]
           /\ prev'[m] = IF m = r THEN n ELSE IF m = n THEN l ELSE h.prev[m]
           /\ next'[m] = IF m = l THEN n ELSE IF m = n THEN r ELSE h.next[m]
           /\ firstChild'[m] = IF m = p /\ l = Null THEN n ELSE h.firstChild[m]
           /\ lastChild'[m] = IF m = p /\ r = Null THEN n ELSE h.lastChild[m]
  BY <1>1, SpliceLinksHeap DEF Splice
<1> HIDE DEF g, h
<1> QED BY <1>1, <1>2, <1>3, <1>4, <1>5 DEF Same, g, h

(* The operations that link a copy, given where.                              *)
LEMMA CopyLinked ==
  ASSUME Pending = {}, Pending' = {}, NEW k, Spells(heap, k), NEW p \in Live,
         NEW a \in Live, NEW at \in Clone(a), NEW i \in 1..(Len(k[p]) + 1),
         NEW l \in Pointer, l = IF i = 1 THEN Null ELSE k[p][i - 1],
         NEW r \in Pointer, r = IF i = Len(k[p]) + 1 THEN Null ELSE k[p][i],
         Splice(p, l, at[a], r, at, {})
  PROVE  Spells(heap',
           [CopiedKids(k, Subtree(a), at) EXCEPT ![p] = Inserted(k[p], i, at[a])])
<1>1. p \in Nodes /\ at[a] \in Nodes
  BY CloneSpells DEF Live
<1> QED BY <1>1, InsertSpells, SpliceHeap, SameSpells

-----------------------------------------------------------------------------
(* Every operation leaves a heap that spells lists.                           *)

LEMMA HeapPrimed ==
    /\ heap'.kind = kind' /\ heap'.parent = parent'
    /\ heap'.firstChild = firstChild' /\ heap'.lastChild = lastChild'
    /\ heap'.prev = prev' /\ heap'.next = next' /\ heap'.pending = Pending'
BY DEF heap

LEMMA HeapUnchanged ==
  ASSUME UNCHANGED <<kind, links>>, Pending' = Pending
  PROVE  heap' = heap
BY DEF heap, links

LEMMA NewSpells ==
  ASSUME NEW k, Spells(heap, k), NEW n \in Nodes, NEW kd \in Kinds, TypeOK, New(n, kd)
  PROVE  Spells(heap', k)
<1>1. Pending' = {} /\ Pending = {}
  BY NoPending DEF New, Pending
<1>2. /\ UNCHANGED <<parent, firstChild, lastChild, prev, next>>
      /\ \A m \in Nodes : kind'[m] = "free" => kind[m] = "free"
  BY DEF New, links, TypeOK
<1>e. /\ heap'.parent = heap.parent /\ heap'.firstChild = heap.firstChild
      /\ heap'.lastChild = heap.lastChild /\ heap'.prev = heap.prev
      /\ heap'.next = heap.next /\ heap'.pending = heap.pending
  BY <1>1, <1>2, HeapFields, HeapPrimed
<1>l. Lists(heap', k)
  BY <1>e DEF Spells, Lists
<1>3. Ends(heap', k) /\ Neighbours(heap', k) /\ NoCycle(heap')
  BY <1>e DEF Spells, Ends, Neighbours, NoCycle
<1>4. Vacant(heap', k)
  BY <1>1, <1>2, HeapFields, HeapPrimed DEF Spells, Vacant
<1> QED BY <1>3, <1>4, <1>l DEF Spells

LEMMA DeleteSpells ==
  ASSUME NEW k, Spells(heap, k), TypeOK, NEW n \in Nodes, parent[n] = Null,
         DeleteTree(n), reading = <<>>, UNCHANGED reading
  PROVE  Spells(heap', [q \in Nodes |-> IF q \in Subtree(n) THEN <<>> ELSE k[q]])
<1>1. Pending' = {} /\ Pending = {}
  BY NoPending DEF Pending
<1>2. Frees(heap, heap', Subtree(n))
  BY <1>1, HeapFields, HeapPrimed DEF DeleteTree, Freed, FreedKind, Frees
<1>3. /\ Subtree(n) \in SUBSET Nodes
      /\ \A m \in Nodes : heap.parent[m] \in Subtree(n) => m \in Subtree(n)
      /\ \A m \in Subtree(n) : heap.parent[m] \in Subtree(n) \cup {Null}
  BY HeapFields, SubtreeFacts
<1> QED BY <1>1, <1>2, <1>3, FreeSpells, HeapFields

LEMMA CopiedNothing ==
  \A f : \A m \in Nodes : Copied(f, NoCopy)[m] = f[m]
BY NoCopyCopies DEF Copied

LEMMA CopiedKindNothing ==
  \A m \in Nodes : CopiedKind(NoCopy)[m] = kind[m]
BY NoCopyCopies DEF CopiedKind

LEMMA SpliceAtEnd ==
  ASSUME NEW k, Spells(heap, k), TypeOK, NEW p \in Nodes, NEW n \in Nodes,
         SpliceLinks(p, lastChild[p], n, Null, NoCopy, {}),
         \A m \in Nodes : kind'[m] = "free" => kind[m] = "free" /\ m # n,
         Pending' = Pending \ {n}
  PROVE  LinksAt(heap, heap', p, k[p], Len(k[p]) + 1, n)
<1> DEFINE h == heap
<1>1. /\ lastChild[p] \in Pointer /\ Null \in Pointer
      /\ parent \in [Nodes -> Pointer] /\ prev \in [Nodes -> Pointer]
      /\ next \in [Nodes -> Pointer] /\ firstChild \in [Nodes -> Pointer]
      /\ lastChild \in [Nodes -> Pointer]
  BY DEF TypeOK, Pointer
<1>2. \A m \in Nodes :
           /\ parent'[m] = IF m = n THEN p ELSE Copied(parent, NoCopy)[m]
           /\ prev'[m] = IF m = Null THEN n ELSE IF m = n THEN lastChild[p]
                         ELSE Copied(prev, NoCopy)[m]
           /\ next'[m] = IF m = lastChild[p] THEN n ELSE IF m = n THEN Null
                         ELSE Copied(next, NoCopy)[m]
           /\ firstChild'[m] = IF m = p /\ lastChild[p] = Null THEN n
                               ELSE Copied(firstChild, NoCopy)[m]
           /\ lastChild'[m] = IF m = p /\ Null = Null THEN n
                              ELSE Copied(lastChild, NoCopy)[m]
  BY <1>1, NullAssumption DEF SpliceLinks, Freed, Put
<1>3. \A m \in Nodes :
           /\ parent'[m] = IF m = n THEN p ELSE parent[m]
           /\ prev'[m] = IF m = Null THEN n ELSE IF m = n THEN lastChild[p] ELSE prev[m]
           /\ next'[m] = IF m = lastChild[p] THEN n ELSE IF m = n THEN Null ELSE next[m]
           /\ firstChild'[m] = IF m = p /\ lastChild[p] = Null THEN n ELSE firstChild[m]
           /\ lastChild'[m] = IF m = p /\ Null = Null THEN n ELSE lastChild[m]
  BY <1>2, CopiedNothing
<1>4. lastChild[p] = IF Len(k[p]) + 1 = 1 THEN Null ELSE k[p][(Len(k[p]) + 1) - 1]
  BY LastPlace
<1> QED BY <1>3, <1>4, HeapFields, HeapPrimed DEF LinksAt

(* The lists after a node was appended, after the nodes of D were deleted, and *)
(* after a tree was copied and the list of p became s.                        *)
Appended(k, p, n) == [k EXCEPT ![p] = Inserted(k[p], Len(k[p]) + 1, n)]
Deleted(k, D) == [q \in Nodes |-> IF q \in D THEN <<>> ELSE k[q]]
Placed(k, a, at, p, s) == [CopiedKids(k, Subtree(a), at) EXCEPT ![p] = s]

LEMMA LinkEndSpells ==
  ASSUME NEW k, Spells(heap, k), TypeOK, NEW p \in Nodes, NEW n \in Nodes,
         LinkEndChild(p, n)
  PROVE  Spells(heap', IF kind[n] = "document" THEN Deleted(k, Subtree(n))
                       ELSE Appended(k, p, n))
<1>1. Pending' = {} /\ Pending = {} /\ parent[n] = Null /\ p \notin Subtree(n)
      /\ n \in Live /\ kind[p] # "free" /\ kind[n] # "free"
  BY NoPending DEF LinkEndChild, Pending, Live, Free, Holders
<1>2. CASE kind[n] = "document"
  BY <1>1, <1>2, DeleteSpells DEF LinkEndChild, Deleted
<1>3. CASE kind[n] # "document"
  <2>1. Splice(p, lastChild[p], n, Null, NoCopy, {})
    BY <1>3 DEF LinkEndChild
  <2>2. \A m \in Nodes : kind'[m] = "free" => kind[m] = "free" /\ m # n
    BY <1>1, <2>1, CopiedKindNothing DEF Splice, FreedKind
  <2>3. LinksAt(heap, heap', p, k[p], Len(k[p]) + 1, n)
    BY <1>1, <2>1, <2>2, SpliceAtEnd DEF Splice
  <2>4. \A m \in Nodes : heap'.parent[m] = IF m = n THEN p ELSE heap.parent[m]
    BY <2>3 DEF LinksAt
  <2>5. NoCycle(heap')
    <3>1. NoCycle(heap) /\ Subtree(n) \in SUBSET Nodes /\ n \in Subtree(n)
          /\ \A m \in Nodes : heap.parent[m] \in Subtree(n) => m \in Subtree(n)
      BY SubtreeFacts, HeapFields DEF Spells
    <3> QED BY <1>1, <2>4, <3>1, LinkNoCycle
  <2>6. heap.kind[p] # "free" /\ heap.parent[n] = Null
        /\ Len(k[p]) + 1 \in 1..(Len(k[p]) + 1)
    BY <1>1, HeapFields, LastPlace
  <2> QED BY <1>3, <2>3, <2>5, <2>6, LinkSpells DEF Appended
<1> QED BY <1>2, <1>3

LEMMA InsertsSpell ==
  ASSUME NEW k, Spells(heap, k), TypeOK, NEW p \in Nodes, NEW b \in Nodes, NEW a \in Nodes,
         \/ InsertEndChild(p, a)
         \/ InsertBeforeChild(p, b, a)
         \/ InsertAfterChild(p, b, a)
  PROVE  \/ heap' = heap
         \/ \E at \in Clone(a), i \in 1..(Len(k[p]) + 1) :
              /\ kind' = FreedKind(CopiedKind(at), {})
              /\ Spells(heap', Placed(k, a, at, p, Inserted(k[p], i, at[a])))
<1>1. Pending' = {} /\ Pending = {} /\ p \in Live /\ a \in Live
      /\ (b \in Nodes => b \notin Pending)
  <2>1. reading = <<>> /\ UNCHANGED reading /\ p \in Live /\ a \in Live
    BY DEF InsertEndChild, InsertBeforeChild, InsertAfterChild, TopOnly, Holders, Live, Free
  <2> QED BY <2>1, NoPending DEF Pending
<1>2. CASE TopOnly(p, a)
  <2>1. heap' = heap
    BY <1>1, <1>2, HeapUnchanged DEF TopOnly
  <2> QED BY <2>1
<1>0. \A m \in Nodes : /\ m \in Pointer /\ prev[m] \in Pointer
                       /\ next[m] \in Pointer /\ lastChild[m] \in Pointer
  BY DEF TypeOK, Pointer
<1>n. Null \in Pointer
  BY DEF Pointer
<1>3. CASE InsertEndChild(p, a) /\ ~TopOnly(p, a)
  <2>1. PICK at \in Clone(a) : Splice(p, lastChild[p], at[a], Null, at, {})
    BY <1>3 DEF InsertEndChild
  <2> DEFINE i == Len(k[p]) + 1
  <2>2. i \in 1..(Len(k[p]) + 1)
        /\ lastChild[p] = IF i = 1 THEN Null ELSE k[p][i - 1]
    BY LastPlace
  <2>3. i = Len(k[p]) + 1
    OBVIOUS
  <2> HIDE DEF i
  <2>4. Null = IF i = Len(k[p]) + 1 THEN Null ELSE k[p][i]
    BY <2>3
  <2>5. lastChild[p] \in Pointer
    BY <1>0
  <2>6. Spells(heap', Placed(k, a, at, p, Inserted(k[p], i, at[a])))
    BY <1>1, <1>n, <2>1, <2>2, <2>4, <2>5, CopyLinked DEF Placed
  <2> QED BY <2>1, <2>2, <2>6 DEF Splice
<1>4. CASE InsertBeforeChild(p, b, a) /\ ~TopOnly(p, a)
  <2>1. PICK at \in Clone(a) : Splice(p, prev[b], at[a], b, at, {})
    BY <1>4 DEF InsertBeforeChild
  <2>2. parent[b] = p /\ p # Null
    BY <1>4, NullAssumption DEF InsertBeforeChild
  <2>3. PICK i \in 1..Len(k[p]) :
            /\ k[p][i] = b /\ prev[b] = IF i = 1 THEN Null ELSE k[p][i - 1]
            /\ Len(k[p]) \in Nat
    BY <1>1, <2>2, ChildPlace
  <2>4. i \in 1..(Len(k[p]) + 1) /\ i # Len(k[p]) + 1
    BY <2>3
  <2>5. b = IF i = Len(k[p]) + 1 THEN Null ELSE k[p][i]
    BY <2>3, <2>4
  <2>6. Spells(heap', Placed(k, a, at, p, Inserted(k[p], i, at[a])))
    BY <1>0, <1>1, <2>1, <2>3, <2>4, <2>5, CopyLinked DEF Placed
  <2> QED BY <2>1, <2>4, <2>6 DEF Splice
<1>5. CASE InsertAfterChild(p, b, a) /\ ~TopOnly(p, a)
  <2>1. PICK at \in Clone(a) : Splice(p, b, at[a], next[b], at, {})
    BY <1>5 DEF InsertAfterChild
  <2>2. parent[b] = p /\ p # Null
    BY <1>5, NullAssumption DEF InsertAfterChild
  <2>3. PICK i \in 1..Len(k[p]) :
            /\ k[p][i] = b /\ next[b] = IF i = Len(k[p]) THEN Null ELSE k[p][i + 1]
            /\ Len(k[p]) \in Nat
    BY <1>1, <2>2, ChildPlace
  <2> DEFINE j == i + 1
  <2>4. j \in 1..(Len(k[p]) + 1) /\ j # 1 /\ (j = Len(k[p]) + 1 <=> i = Len(k[p]))
        /\ j - 1 = i
    BY <2>3
  <2>5. b = IF j = 1 THEN Null ELSE k[p][j - 1]
    BY <2>3, <2>4
  <2>6. next[b] = IF j = Len(k[p]) + 1 THEN Null ELSE k[p][j]
    BY <2>3, <2>4
  <2> HIDE DEF j
  <2>7. Spells(heap', Placed(k, a, at, p, Inserted(k[p], j, at[a])))
    BY <1>0, <1>1, <2>1, <2>4, <2>5, <2>6, CopyLinked DEF Placed
  <2> QED BY <2>1, <2>4, <2>7 DEF Splice
<1> QED BY <1>2, <1>3, <1>4, <1>5

-----------------------------------------------------------------------------
(* A child taken out of its list, and a list emptied, as heaps.               *)

TakenOut(h, p, l, n, r) ==
    [kind |-> h.kind,
     parent |-> [m \in Nodes |-> IF m = n THEN Null ELSE h.parent[m]],
     prev |-> [m \in Nodes |-> IF m = n THEN Null ELSE IF m = r THEN l ELSE h.prev[m]],
     next |-> [m \in Nodes |-> IF m = n THEN Null ELSE IF m = l THEN r ELSE h.next[m]],
     firstChild |-> [m \in Nodes |-> IF m = p /\ l = Null THEN r ELSE h.firstChild[m]],
     lastChild |-> [m \in Nodes |-> IF m = p /\ r = Null THEN l ELSE h.lastChild[m]],
     pending |-> h.pending]

LEMMA TakenOutAt ==
  ASSUME NEW h, NEW p, NEW l, NEW n, NEW r, NEW s, NEW i, n = s[i],
         l = IF i = 1 THEN Null ELSE s[i - 1],
         r = IF i = Len(s) THEN Null ELSE s[i + 1]
  PROVE  UnlinksAt(h, TakenOut(h, p, l, n, r), p, s, i)
BY DEF UnlinksAt, TakenOut

Emptied(h, p) ==
    [kind |-> h.kind,
     parent |-> [m \in Nodes |-> IF h.parent[m] = p THEN Null ELSE h.parent[m]],
     prev |-> [m \in Nodes |-> IF h.parent[m] = p THEN Null ELSE h.prev[m]],
     next |-> [m \in Nodes |-> IF h.parent[m] = p THEN Null ELSE h.next[m]],
     firstChild |-> [m \in Nodes |-> IF m = p THEN Null ELSE h.firstChild[m]],
     lastChild |-> [m \in Nodes |-> IF m = p THEN Null ELSE h.lastChild[m]],
     pending |-> h.pending]

LEMMA EmptiedAt ==
  ASSUME NEW h, NEW p
  PROVE  Empties(h, Emptied(h, p), p)
BY DEF Empties, Emptied

LEMMA RemoveSpells ==
  ASSUME NEW k, Spells(heap, k), TypeOK, NEW p \in Nodes, NEW r \in Nodes,
         RemoveChild(p, r)
  PROVE  \E i \in 1..Len(k[p]) :
            /\ k[p][i] = r
            /\ Spells(heap', Deleted([k EXCEPT ![p] = Dropped(k[p], i)], Subtree(r)))
<1> DEFINE D == Subtree(r)
           h == TakenOut(heap, p, prev[r], r, next[r])
<1>1. /\ Pending' = {} /\ Pending = {} /\ parent[r] = p /\ p # Null
      /\ r \notin Pending
  BY NoPending, NullAssumption DEF RemoveChild, Pending
<1>2. PICK i \in 1..Len(k[p]) :
        /\ k[p][i] = r
        /\ prev[r] = IF i = 1 THEN Null ELSE k[p][i - 1]
        /\ next[r] = IF i = Len(k[p]) THEN Null ELSE k[p][i + 1]
  BY <1>1, ChildPlace
<1>3. Spells(h, [k EXCEPT ![p] = Dropped(k[p], i)])
  BY <1>2, TakenOutAt, UnlinkSpells
<1>4. /\ D \in SUBSET Nodes /\ r \in D
      /\ \A m \in Nodes : parent[m] \in D => m \in D
      /\ \A m \in D : m = r \/ parent[m] \in D
  BY SubtreeFacts
<1>5. /\ h.kind = kind /\ h.pending = {}
      /\ \A m \in Nodes :
           /\ h.parent[m] = IF m = r THEN Null ELSE parent[m]
           /\ h.prev[m] = IF m = r THEN Null ELSE IF m = next[r] THEN prev[r] ELSE prev[m]
           /\ h.next[m] = IF m = r THEN Null ELSE IF m = prev[r] THEN next[r] ELSE next[m]
           /\ h.firstChild[m] = IF m = p /\ prev[r] = Null THEN next[r] ELSE firstChild[m]
           /\ h.lastChild[m] = IF m = p /\ next[r] = Null THEN prev[r] ELSE lastChild[m]
  BY <1>1, HeapFields DEF TakenOut
<1> HIDE DEF h, D
<1>6. /\ \A m \in Nodes :
           /\ kind'[m] = IF m \in D THEN "free" ELSE kind[m]
           /\ parent'[m] = IF m \in D THEN Null ELSE parent[m]
           /\ prev'[m] = IF m \in D THEN Null ELSE IF m = next[r] THEN prev[r] ELSE prev[m]
           /\ next'[m] = IF m \in D THEN Null ELSE IF m = prev[r] THEN next[r] ELSE next[m]
           /\ firstChild'[m] = IF m \in D THEN Null
                               ELSE IF m = p /\ prev[r] = Null THEN next[r] ELSE firstChild[m]
           /\ lastChild'[m] = IF m \in D THEN Null
                              ELSE IF m = p /\ next[r] = Null THEN prev[r] ELSE lastChild[m]
  BY DEF RemoveChild, Freed, FreedKind, Put, D
<1>7. Frees(h, heap', D)
  BY <1>1, <1>4, <1>5, <1>6, HeapPrimed DEF Frees
<1>8. /\ \A m \in Nodes : h.parent[m] \in D => m \in D
      /\ \A m \in D : h.parent[m] \in D \cup {Null}
  BY <1>4, <1>5
<1> DEFINE kk == [k EXCEPT ![p] = Dropped(k[p], i)]
<1> HIDE DEF kk
<1>k. Spells(h, kk)
  BY <1>3 DEF kk
<1>9. Spells(heap', [q \in Nodes |-> IF q \in D THEN <<>> ELSE kk[q]])
  BY <1>k, <1>4, <1>5, <1>7, <1>8, FreeSpells
<1> QED BY <1>2, <1>9 DEF D, kk, Deleted

LEMMA ClearSpells ==
  ASSUME NEW k, Spells(heap, k), TypeOK, NEW p \in Nodes, Clear(p)
  PROVE  Spells(heap', Deleted([k EXCEPT ![p] = <<>>], Subtree(p) \ {p}))
<1> DEFINE D == Subtree(p) \ {p}
           h == Emptied(heap, p)
<1>1. Pending' = {} /\ Pending = {} /\ p # Null
  BY NoPending, NullAssumption DEF Clear, Pending
<1>2. Spells(h, [k EXCEPT ![p] = <<>>])
  BY <1>1, EmptiedAt, EmptySpells, HeapFields
<1>3. parent[p] \notin Subtree(p)
  BY SubtreeRoot
<1>4. /\ D \in SUBSET Nodes /\ p \notin D
      /\ \A m \in Nodes : parent[m] \in D \/ parent[m] = p => m \in D
      /\ \A m \in D : parent[m] = p \/ parent[m] \in D
  BY <1>3, SubtreeFacts
<1>5. /\ h.kind = kind /\ h.pending = {}
      /\ \A m \in Nodes :
           /\ h.parent[m] = IF parent[m] = p THEN Null ELSE parent[m]
           /\ h.prev[m] = IF parent[m] = p THEN Null ELSE prev[m]
           /\ h.next[m] = IF parent[m] = p THEN Null ELSE next[m]
           /\ h.firstChild[m] = IF m = p THEN Null ELSE firstChild[m]
           /\ h.lastChild[m] = IF m = p THEN Null ELSE lastChild[m]
  BY <1>1, HeapFields DEF Emptied
<1> HIDE DEF h, D
<1>6. \A m \in Nodes :
           /\ kind'[m] = IF m \in D THEN "free" ELSE kind[m]
           /\ parent'[m] = IF m \in D THEN Null ELSE parent[m]
           /\ prev'[m] = IF m \in D THEN Null ELSE prev[m]
           /\ next'[m] = IF m \in D THEN Null ELSE next[m]
           /\ firstChild'[m] = IF m \in D \/ m = p THEN Null ELSE firstChild[m]
           /\ lastChild'[m] = IF m \in D \/ m = p THEN Null ELSE lastChild[m]
  BY DEF Clear, Freed, FreedKind, Put, D
<1>7. Frees(h, heap', D)
  BY <1>1, <1>4, <1>5, <1>6, HeapPrimed DEF Frees
<1>8. /\ \A m \in Nodes : h.parent[m] \in D => m \in D
      /\ \A m \in D : h.parent[m] \in D \cup {Null}
  BY <1>4, <1>5
<1> DEFINE kk == [k EXCEPT ![p] = <<>>]
<1> HIDE DEF kk
<1>k. Spells(h, kk)
  BY <1>2 DEF kk
<1>9. Spells(heap', [q \in Nodes |-> IF q \in D THEN <<>> ELSE kk[q]])
  BY <1>k, <1>4, <1>5, <1>7, <1>8, FreeSpells
<1> QED BY <1>9 DEF D, kk, Deleted

(* The copy is linked before r, then r is taken out and its subtree deleted.  *)
LEMMA ReplaceSpells ==
  ASSUME NEW k, Spells(heap, k), TypeOK, NEW p \in Nodes, NEW r \in Nodes, NEW a \in Nodes,
         ReplaceChild(p, r, a)
  PROVE  \/ heap' = heap
         \/ \E at \in Clone(a), i \in 1..Len(k[p]) :
              /\ k[p][i] = r
              /\ kind' = FreedKind(CopiedKind(at), Subtree(r))
              /\ Spells(heap', Deleted(Placed(k, a, at, p,
                   Dropped(Inserted(k[p], i, at[a]), i + 1)), Subtree(r)))
<1>1. /\ Pending' = {} /\ Pending = {} /\ parent[r] = p /\ p # Null
      /\ p \in Live /\ a \in Live
  <2>1. reading = <<>> /\ UNCHANGED reading
    BY DEF ReplaceChild, TopOnly
  <2> QED BY <2>1, NoPending, NullAssumption
    DEF ReplaceChild, Pending, Holders, Live, Free
<1>2. CASE TopOnly(p, a)
  <2>1. heap' = heap
    BY <1>1, <1>2, HeapUnchanged DEF TopOnly
  <2> QED BY <2>1
<1>3. CASE ~TopOnly(p, a)
  <2>1. PICK at \in Clone(a) :
          Splice(p, prev[r], at[a], next[r], at, Subtree(r))
    BY <1>3 DEF ReplaceChild
  <2> DEFINE n == at[a]
             D == Subtree(r)
             c == CopiedHeap(at)
             h == LinkedTo(c, p, prev[r], n, r)
  <2>2. PICK i \in 1..Len(k[p]) :
          /\ k[p][i] = r
          /\ prev[r] = IF i = 1 THEN Null ELSE k[p][i - 1]
          /\ next[r] = IF i = Len(k[p]) THEN Null ELSE k[p][i + 1]
          /\ Len(k[p]) \in Nat
    BY <1>1, ChildPlace
  <2> DEFINE t == Inserted(k[p], i, n)
             kk == [CopiedKids(k, Subtree(a), at) EXCEPT ![p] = t]
  <2>3. /\ n \in Nodes /\ n \notin Live /\ c.parent[n] = Null
        /\ \A m \in Live : /\ c.kind[m] = kind[m] /\ c.parent[m] = parent[m]
                           /\ c.prev[m] = prev[m] /\ c.next[m] = next[m]
                           /\ c.firstChild[m] = firstChild[m]
                           /\ c.lastChild[m] = lastChild[m]
        /\ \A m \in Nodes \ Live : c.parent[m] \notin Live
        /\ Spells(c, CopiedKids(k, Subtree(a), at))
    BY <1>1, CloneSpells
  <2>4. i \in 1..(Len(k[p]) + 1) /\ i # Len(k[p]) + 1
    BY <2>2
  <2>5. Spells(h, kk)
    <3>1. r = IF i = Len(k[p]) + 1 THEN Null ELSE k[p][i]
      BY <2>2, <2>4
    <3> QED BY <1>1, <2>2, <2>4, <3>1, InsertSpells
  <2>6. /\ kk[p] = t /\ Len(t) = Len(k[p]) + 1
        /\ \A j \in 1..(Len(k[p]) + 1) : t[j]
             = IF j < i THEN k[p][j] ELSE IF j = i THEN n ELSE k[p][j - 1]
    <3>1. k[p] \in Seq(Nodes)
      BY DEF Spells, Lists
    <3>2. CopiedKids(k, Subtree(a), at) \in [Nodes -> Seq(Nodes)]
      BY <2>3 DEF Spells, Lists
    <3>3. /\ Len(t) = Len(k[p]) + 1
          /\ \A q \in 1..(Len(k[p]) + 1) : t[q]
               = IF q < i THEN k[p][q] ELSE IF q = i THEN n ELSE k[p][q - 1]
      <4>1. n \in Nodes
        BY <2>3
      <4>2. ASSUME NEW s \in Seq(Nodes), NEW x \in Nodes, NEW u \in 1..(Len(s) + 1)
            PROVE  /\ Len(Inserted(s, u, x)) = Len(s) + 1
                   /\ \A q \in 1..(Len(s) + 1) : Inserted(s, u, x)[q]
                        = IF q < u THEN s[q] ELSE IF q = u THEN x ELSE s[q - 1]
        BY InsertedFacts
      <4>3. i \in 1..(Len(k[p]) + 1)
        BY <2>4
      <4> HIDE DEF n
      <4> QED BY <3>1, <4>1, <4>2, <4>3
    <3>4. kk[p] = t
      <4> HIDE DEF t
      <4> QED BY <3>2
    <3> HIDE DEF t, kk, n
    <3> QED BY <3>3, <3>4
  <2> DEFINE j == i + 1
  <2>7. /\ j \in 1..Len(t) /\ j # 1 /\ j - 1 = i /\ t[j] = r /\ t[j - 1] = n
        /\ next[r] = IF j = Len(t) THEN Null ELSE t[j + 1]
    <3>1. /\ j \in 1..(Len(k[p]) + 1) /\ j # 1 /\ j - 1 = i /\ ~(j < i) /\ j # i
          /\ (j = Len(k[p]) + 1 <=> i = Len(k[p]))
      BY <2>2
    <3>2. t[j] = k[p][i]
      BY <2>6, <3>1
    <3>3. t[i] = n
      BY <2>4, <2>6
    <3>4. ASSUME i # Len(k[p])
          PROVE  t[j + 1] = k[p][i + 1]
      <4>1. j + 1 \in 1..(Len(k[p]) + 1) /\ ~(j + 1 < i) /\ j + 1 # i /\ (j + 1) - 1 = i + 1
        BY <2>2, <3>4
      <4> QED BY <2>6, <4>1
    <3> QED BY <2>2, <2>6, <3>1, <3>2, <3>3, <3>4
  <2> DEFINE g == TakenOut(h, p, n, r, next[r])
  <2>8. Spells(g, [kk EXCEPT ![p] = Dropped(kk[p], j)])
    <3>1. n = IF j = 1 THEN Null ELSE t[j - 1]
      BY <2>7
    <3>2. UnlinksAt(h, g, p, t, j)
      BY <2>7, <3>1, TakenOutAt
    <3> HIDE DEF t, kk, j, h, g
    <3>3. j \in 1..Len(kk[p]) /\ UnlinksAt(h, g, p, kk[p], j)
      BY <2>6, <2>7, <3>2
    <3> QED BY <2>5, <3>3, UnlinkSpells
  <2>9. /\ D \in SUBSET Nodes /\ r \in D
        /\ \A m \in Nodes : parent[m] \in D => m \in D
        /\ \A m \in D : m = r \/ parent[m] \in D
        /\ p \notin D
    BY <1>1, SubtreeFacts, SubtreeRoot
  <2>10. D \subseteq Live
    BY <1>1, ParentsLive, SubtreeLive
  <2>11. n # prev[r] /\ n # next[r] /\ n # r /\ n # Null
    <3>1. \A m \in Nodes : parent[m] # Null => m \in Live
      BY ParentsLive
    <3>2. \A q \in 1..Len(k[p]) : k[p][q] \in Nodes /\ parent[k[p][q]] = p
      <4>1. k[p] \in Seq(Nodes) /\ Lists(heap, k)
        BY DEF Spells, Lists
      <4>2. \A q \in 1..Len(k[p]) : k[p][q] \in Nodes
        BY <4>1
      <4> QED BY <4>1, <4>2, HeapFields DEF Lists
    <3>3. \A q \in 1..Len(k[p]) : k[p][q] # n
      BY <1>1, <2>3, <3>1, <3>2
    <3>4. (i # 1 => i - 1 \in 1..Len(k[p])) /\ (i # Len(k[p]) => i + 1 \in 1..Len(k[p]))
      BY <2>2
    <3> QED BY <2>2, <2>3, <3>3, <3>4, NullAssumption
  <2>12. /\ c.kind = CopiedKind(at) /\ c.parent = Copied(parent, at)
         /\ c.firstChild = Copied(firstChild, at) /\ c.lastChild = Copied(lastChild, at)
         /\ c.prev = Copied(prev, at) /\ c.next = Copied(next, at) /\ c.pending = {}
    BY DEF CopiedHeap
  <2>13. \A m \in Nodes :
           /\ kind'[m] = IF m \in D THEN "free" ELSE c.kind[m]
           /\ parent'[m] = IF m \in D THEN Null ELSE IF m = n THEN p ELSE c.parent[m]
           /\ prev'[m] = IF m \in D THEN Null ELSE IF m = next[r] THEN n
                         ELSE IF m = n THEN prev[r] ELSE c.prev[m]
           /\ next'[m] = IF m \in D THEN Null ELSE IF m = prev[r] THEN n
                         ELSE IF m = n THEN next[r] ELSE c.next[m]
           /\ firstChild'[m] = IF m \in D THEN Null
                               ELSE IF m = p /\ prev[r] = Null THEN n ELSE c.firstChild[m]
           /\ lastChild'[m] = IF m \in D THEN Null
                              ELSE IF m = p /\ next[r] = Null THEN n ELSE c.lastChild[m]
    BY <2>1, <2>12, NullAssumption DEF Splice, SpliceLinks, Freed, FreedKind, Put
  <2>14. /\ h.kind = c.kind /\ h.pending = {}
         /\ \A m \in Nodes :
           /\ h.parent[m] = IF m = n THEN p ELSE c.parent[m]
           /\ h.prev[m] = IF m = r THEN n ELSE IF m = n THEN prev[r] ELSE c.prev[m]
           /\ h.next[m] = IF m = prev[r] THEN n ELSE IF m = n THEN r ELSE c.next[m]
           /\ h.firstChild[m] = IF m = p /\ prev[r] = Null THEN n ELSE c.firstChild[m]
           /\ h.lastChild[m] = IF m = p /\ r = Null THEN n ELSE c.lastChild[m]
    BY <2>12 DEF LinkedTo
  <2>15. /\ g.kind = h.kind /\ g.pending = {}
         /\ \A m \in Nodes :
           /\ g.parent[m] = IF m = r THEN Null ELSE h.parent[m]
           /\ g.prev[m] = IF m = r THEN Null ELSE IF m = next[r] THEN n ELSE h.prev[m]
           /\ g.next[m] = IF m = r THEN Null ELSE IF m = n THEN next[r] ELSE h.next[m]
           /\ g.firstChild[m] = IF m = p /\ n = Null THEN next[r] ELSE h.firstChild[m]
           /\ g.lastChild[m] = IF m = p /\ next[r] = Null THEN n ELSE h.lastChild[m]
    BY <2>14 DEF TakenOut
  <2> HIDE DEF g, h, c, n, D, kk, t, j
  <2>16. Frees(g, heap', D)
    BY <1>1, <2>9, <2>11, <2>13, <2>14, <2>15, HeapPrimed, NullAssumption DEF Frees
  <2>17. \A m \in Nodes : g.parent[m] \in D => m \in D
    <3>1. \A m \in Nodes : g.parent[m] \in D => m # n /\ c.parent[m] \in D
      BY <2>9, <2>10, <2>14, <2>15, NullAssumption DEF Live
    <3>2. \A m \in Nodes : c.parent[m] \in D => m \in Live
      BY <2>3, <2>10
    <3> QED BY <2>3, <2>9, <3>1, <3>2
  <2>18. \A m \in D : g.parent[m] \in D \cup {Null}
    BY <2>3, <2>9, <2>10, <2>14, <2>15
  <2>19. Spells(heap', Deleted([kk EXCEPT ![p] = Dropped(kk[p], j)], D))
    <3> DEFINE kj == [kk EXCEPT ![p] = Dropped(kk[p], j)]
    <3> HIDE DEF kj
    <3>0. Spells(g, kj)
      BY <2>8 DEF kj
    <3>1. Spells(heap', [q \in Nodes |-> IF q \in D THEN <<>> ELSE kj[q]])
      BY <3>0, <2>9, <2>15, <2>16, <2>17, <2>18, FreeSpells
    <3> QED BY <3>1 DEF kj, Deleted
  <2>20. [kk EXCEPT ![p] = Dropped(kk[p], j)] = Placed(k, a, at, p, Dropped(t, j))
    <3>1. kk[p] = t
      BY <2>6
    <3>2. \A x : [kk EXCEPT ![p] = x] = [CopiedKids(k, Subtree(a), at) EXCEPT ![p] = x]
      BY DEF kk
    <3> QED BY <3>1, <3>2 DEF Placed
  <2>21. Spells(heap', Deleted(Placed(k, a, at, p, Dropped(Inserted(k[p], i, at[a]), i + 1)),
                               Subtree(r)))
    BY <2>19, <2>20 DEF t, n, j, D
  <2> QED BY <2>1, <2>2, <2>21 DEF Splice
<1> QED BY <1>2, <1>3

-----------------------------------------------------------------------------
(* The parser.                                                                *)

LEMMA ReadingTop ==
  ASSUME TypeOK, ReadingOK, reading # <<>>
  PROVE  /\ Len(reading) \in Nat /\ Len(reading) >= 1
         /\ Top \in Nodes /\ kind[Top] # "free" /\ Top \in Live
         /\ Len(reading) > 1 => /\ parent[Top] = reading[Len(reading) - 1]
                                /\ parent[Top] \in Nodes /\ parent[Top] \in Live
                                /\ Top \in Pending
<1>1. reading \in Seq(Nodes) /\ Len(reading) \in Nat /\ Len(reading) >= 1
  BY DEF TypeOK
<1>2. Len(reading) \in 1..Len(reading)
      /\ (Len(reading) > 1 => /\ Len(reading) \in 2..Len(reading)
                              /\ Len(reading) - 1 \in 1..Len(reading))
  BY <1>1
<1>3. Top \in Nodes /\ kind[Top] # "free"
  BY <1>2 DEF Top, ReadingOK
<1>4. ASSUME Len(reading) > 1
      PROVE  /\ parent[Top] = reading[Len(reading) - 1]
             /\ parent[Top] \in Nodes /\ kind[parent[Top]] # "free" /\ Top \in Pending
  BY <1>2, <1>4 DEF Top, ReadingOK, Pending
<1> QED BY <1>1, <1>3, <1>4 DEF Live, Free

LEMMA ReadingKept ==
  ASSUME TypeOK, ReadingOK, UNCHANGED reading,
         \A m \in Nodes : kind[m] # "free" => kind'[m] # "free",
         \A m \in Pending : parent'[m] = parent[m]
  PROVE  ReadingOK' /\ Pending' = Pending
<1>1. Pending' = Pending
  BY DEF Pending
<1>2. \A i \in 2..Len(reading) : reading[i] \in Pending
  BY DEF Pending
<1> QED BY <1>1, <1>2 DEF ReadingOK

(* A node identified is told its parent and is in no list: k stays.           *)
LEMMA IdentifySpells ==
  ASSUME NEW k, Spells(heap, k), TypeOK, ReadingOK, NEW n \in Nodes, NEW kd \in Kinds,
         Identify(n, kd)
  PROVE  Spells(heap', k) /\ ReadingOK'
<1>1. /\ reading \in Seq(Nodes) /\ Top \in Nodes /\ kind[Top] # "free"
      /\ Len(reading) \in Nat /\ Len(reading) >= 1 /\ n # Top /\ kind[n] = "free"
  BY ReadingTop DEF Identify, TypeOK
<1>2. /\ Len(reading') = Len(reading) + 1 /\ reading'[Len(reading) + 1] = n
      /\ \A i \in 1..Len(reading) : reading'[i] = reading[i]
  BY <1>1 DEF Identify
<1>3. /\ \A m \in Nodes : parent'[m] = IF m = n THEN Top ELSE parent[m]
      /\ \A m \in Nodes : kind'[m] = "free" <=> kind[m] = "free" /\ m # n
      /\ UNCHANGED <<firstChild, lastChild, prev, next>>
  BY DEF Identify, TypeOK
<1>4. Pending' = Pending \cup {n}
  <2>1. \A i \in 2..Len(reading) : reading'[i] = reading[i] /\ i \in 2..Len(reading')
    BY <1>1, <1>2
  <2>2. \A i \in 2..Len(reading') : i \in 2..Len(reading) \/ i = Len(reading) + 1
    BY <1>1, <1>2
  <2>3. Len(reading) + 1 \in 2..Len(reading')
    BY <1>1, <1>2
  <2> QED BY <1>2, <2>1, <2>2, <2>3 DEF Pending
<1>5. /\ k \in [Nodes -> Seq(Nodes)] /\ Lists(heap, k)
      /\ \A m \in Nodes : kind[m] = "free" => parent[m] = Null /\ Len(k[m]) = 0
      /\ \A m \in Pending : m \in Nodes /\ parent[m] \in Nodes /\ kind[parent[m]] # "free"
  BY HeapFields DEF Spells, Lists, Vacant
<1>6. parent[n] = Null /\ n \notin Pending
  BY <1>1, <1>5, NullAssumption
<1>7. ReadingOK'
  <2>1. ASSUME NEW i \in 1..Len(reading')
        PROVE  \/ i \in 1..Len(reading) /\ reading'[i] = reading[i] /\ reading[i] # n
               \/ i = Len(reading) + 1 /\ reading'[i] = n
    <3>1. i \in 1..Len(reading) \/ i = Len(reading) + 1
      BY <1>1, <1>2
    <3>2. \A u \in 1..Len(reading) : reading[u] # n
      BY <1>1 DEF ReadingOK
    <3> QED BY <1>2, <3>1, <3>2
  <2>2. \A i \in 1..Len(reading') : reading'[i] \in Nodes /\ kind'[reading'[i]] # "free"
    BY <1>3, <2>1 DEF ReadingOK
  <2>3. \A i, j \in 1..Len(reading') : reading'[i] = reading'[j] => i = j
    BY <2>1 DEF ReadingOK
  <2>4. ASSUME NEW i \in 2..Len(reading')
        PROVE  parent'[reading'[i]] = reading'[i - 1]
    <3>1. CASE i = Len(reading) + 1
      <4>1. i - 1 = Len(reading) /\ Len(reading) \in 1..Len(reading)
        BY <1>1, <3>1
      <4> QED BY <1>2, <1>3, <3>1, <4>1 DEF Top
    <3>2. CASE i # Len(reading) + 1
      <4>1. i \in 2..Len(reading) /\ i \in 1..Len(reading) /\ i - 1 \in 1..Len(reading)
        BY <1>1, <1>2, <2>4, <3>2
      <4>2. reading'[i] = reading[i] /\ reading'[i - 1] = reading[i - 1]
            /\ reading[i] \in Nodes /\ reading[i] # n /\ parent[reading[i]] = reading[i - 1]
        BY <1>1, <1>2, <4>1 DEF ReadingOK
      <4> QED BY <1>3, <4>2
    <3> QED BY <3>1, <3>2
  <2> QED BY <2>2, <2>3, <2>4 DEF ReadingOK
<1>8. \A q \in Nodes : \A j \in 1..Len(k[q]) :
        k[q][j] \in Nodes /\ k[q][j] # n /\ parent[k[q][j]] = q /\ k[q][j] \notin Pending
  <2>1. \A q \in Nodes : \A j \in 1..Len(k[q]) : k[q][j] \in Nodes
    BY <1>5
  <2>2. \A q \in Nodes : \A j \in 1..Len(k[q]) :
          parent[k[q][j]] = q /\ k[q][j] \notin Pending
    BY <1>5, HeapFields DEF Lists
  <2> QED BY <1>6, <2>1, <2>2, NullAssumption
<1>9. Lists(heap', k)
  <2>1. \A q \in Nodes : \A i, j \in 1..Len(k[q]) : k[q][i] = k[q][j] => i = j
    BY <1>5 DEF Lists
  <2>2. \A m \in Nodes : parent[m] # Null /\ m \notin Pending =>
          /\ parent[m] \in Nodes
          /\ \E i \in 1..Len(k[parent[m]]) : k[parent[m]][i] = m
    BY <1>5, HeapFields DEF Lists
  <2>3. \A q \in Nodes : \A j \in 1..Len(k[q]) :
          parent'[k[q][j]] = q /\ k[q][j] \notin Pending'
    BY <1>3, <1>4, <1>8
  <2>4. \A m \in Nodes : parent'[m] # Null /\ m \notin Pending' =>
          /\ parent'[m] \in Nodes
          /\ \E i \in 1..Len(k[parent'[m]]) : k[parent'[m]][i] = m
    BY <1>3, <1>4, <2>2
  <2> QED BY <1>5, <2>1, <2>3, <2>4, HeapPrimed DEF Lists
<1>10. Ends(heap', k)
  BY <1>3, HeapFields, HeapPrimed DEF Spells, Ends
<1>11. Neighbours(heap', k)
  <2>1. /\ \A q \in Nodes : \A i \in 1..Len(k[q]) :
             /\ prev[k[q][i]] = IF i = 1 THEN Null ELSE k[q][i - 1]
             /\ next[k[q][i]] = IF i = Len(k[q]) THEN Null ELSE k[q][i + 1]
        /\ \A m \in Nodes : parent[m] = Null \/ m \in Pending =>
             prev[m] = Null /\ next[m] = Null
    BY HeapFields DEF Spells, Neighbours
  <2>2. \A m \in Nodes : parent'[m] = Null \/ m \in Pending' =>
             prev'[m] = Null /\ next'[m] = Null
    BY <1>1, <1>3, <1>4, <1>6, <2>1, NullAssumption
  <2> QED BY <1>3, <2>1, <2>2, HeapPrimed DEF Neighbours
<1>12. Vacant(heap', k)
  <2>1. \A m \in Nodes : kind'[m] = "free" => parent'[m] = Null /\ Len(k[m]) = 0
    BY <1>3, <1>5
  <2>2. \A m \in Pending' : m \in Nodes /\ parent'[m] \in Nodes /\ kind'[parent'[m]] # "free"
    BY <1>1, <1>3, <1>4, <1>5
  <2> QED BY <2>1, <2>2, HeapPrimed DEF Vacant
<1>13. NoCycle(heap')
  <2>1. /\ NoCycle(heap) /\ {n} \in SUBSET Nodes /\ n \in {n} /\ Top \notin {n}
        /\ \A m \in Nodes : heap.parent[m] \in {n} => m \in {n}
    BY <1>1, HeapFields, NullAssumption, ParentsLive DEF Spells, Live, Free
  <2>2. \A m \in Nodes : heap'.parent[m] = IF m = n THEN Top ELSE heap.parent[m]
    BY <1>3, HeapFields, HeapPrimed
  <2> QED BY <2>1, <2>2, LinkNoCycle
<1> QED BY <1>7, <1>9, <1>10, <1>11, <1>12, <1>13 DEF Spells

(* The node on top of the stack goes to the end of its parent's list.         *)
LEMMA LinkParsedSpells ==
  ASSUME NEW k, Spells(heap, k), TypeOK, ReadingOK, NEW failed, LinkParsed(failed)
  PROVE  Spells(heap', Appended(k, parent[Top], Top)) /\ ReadingOK'
<1>0. reading # <<>> /\ Len(reading) > 1
  BY DEF LinkParsed
<1>1. /\ reading \in Seq(Nodes) /\ Len(reading) \in Nat /\ Len(reading) > 1
      /\ Top \in Nodes /\ Top \in Live /\ kind[Top] # "free"
      /\ parent[Top] \in Nodes /\ parent[Top] \in Live /\ kind[parent[Top]] # "free"
      /\ Top \in Pending
  BY <1>0, ReadingTop DEF TypeOK, Live, Free
<1>2. /\ Len(reading') = Len(reading) - 1
      /\ \A i \in 1..(Len(reading) - 1) : reading'[i] = reading[i]
  BY <1>1 DEF LinkParsed
<1>3. Pending' = Pending \ {Top}
  <2>1. \A i \in 2..Len(reading') : /\ i \in 2..Len(reading) /\ i \in 1..Len(reading)
                                    /\ i # Len(reading) /\ reading'[i] = reading[i]
    BY <1>1, <1>2
  <2>2. \A i \in 2..Len(reading) : i # Len(reading) =>
          i \in 2..Len(reading') /\ reading'[i] = reading[i]
    BY <1>1, <1>2
  <2>3. Len(reading) \in 1..Len(reading)
        /\ \A i \in 1..Len(reading) : reading[i] = Top => i = Len(reading)
    BY <1>1 DEF ReadingOK, Top
  <2>4. Pending' \subseteq Pending \ {Top}
    BY <2>1, <2>3 DEF Pending
  <2>5. Pending \ {Top} \subseteq Pending'
    BY <2>2 DEF Pending, Top
  <2> QED BY <2>4, <2>5
<1> DEFINE p == parent[Top]
<1>4. Splice(p, lastChild[p], Top, Null, NoCopy, {})
  BY DEF LinkParsed
<1>5. \A m \in Nodes : kind'[m] = "free" => kind[m] = "free" /\ m # Top
  BY <1>1, <1>4, CopiedKindNothing DEF Splice, FreedKind
<1>6. LinksAt(heap, heap', p, k[p], Len(k[p]) + 1, Top)
  BY <1>1, <1>3, <1>4, <1>5, SpliceAtEnd DEF Splice
<1>7. \A m \in Nodes : parent'[m] = parent[m]
  <2>1. \A m \in Nodes : heap'.parent[m] = IF m = Top THEN p ELSE heap.parent[m]
    BY <1>6 DEF LinksAt
  <2> QED BY <2>1, HeapFields, HeapPrimed
<1>8. NoCycle(heap')
  BY <1>7, FewerParents, HeapFields, HeapPrimed DEF Spells
<1>9. Spells(heap', Appended(k, p, Top))
  <2>1. heap.kind[p] # "free" /\ Top \in heap.pending
        /\ Len(k[p]) + 1 \in 1..(Len(k[p]) + 1)
    BY <1>1, HeapFields, LastPlace
  <2> QED BY <1>1, <1>6, <1>8, <2>1, LinkSpells DEF Appended
<1>10. ReadingOK'
  <2>1. \A i \in 1..Len(reading') :
          i \in 1..Len(reading) /\ reading'[i] = reading[i] /\ reading[i] \in Nodes
    BY <1>1, <1>2 DEF ReadingOK
  <2>2. \A i \in 2..Len(reading') :
          i \in 2..Len(reading) /\ i \in 1..Len(reading') /\ i - 1 \in 1..Len(reading')
    BY <1>1, <1>2
  <2>3. \A m \in Nodes : kind[m] # "free" => kind'[m] # "free"
    BY <1>5
  <2>4. \A i \in 1..Len(reading') : reading'[i] \in Nodes /\ kind'[reading'[i]] # "free"
    BY <2>1, <2>3 DEF ReadingOK
  <2>5. \A i, j \in 1..Len(reading') : reading'[i] = reading'[j] => i = j
    BY <2>1 DEF ReadingOK
  <2>6. \A i \in 2..Len(reading') : parent'[reading'[i]] = reading'[i - 1]
    BY <1>7, <2>1, <2>2 DEF ReadingOK
  <2> QED BY <2>4, <2>5, <2>6 DEF ReadingOK
<1> QED BY <1>9, <1>10

(* An unused address becomes a text at the end of the list of the top.        *)
LEMMA ReadTextSpells ==
  ASSUME NEW k, Spells(heap, k), TypeOK, ReadingOK, NEW n \in Nodes, ReadText(n)
  PROVE  Spells(heap', Appended(k, Top, n)) /\ ReadingOK'
<1>0. reading # <<>> /\ Len(reading) > 1 /\ UNCHANGED reading /\ kind[n] = "free"
  BY DEF ReadText
<1>1. Top \in Nodes /\ kind[Top] # "free" /\ n # Top
  BY <1>0, ReadingTop
<1>2. /\ \A m \in Nodes : kind[m] = "free" => parent[m] = Null
      /\ \A m \in Pending : parent[m] \in Nodes
  BY HeapFields DEF Spells, Vacant
<1>3. parent[n] = Null /\ n \notin Pending
  BY <1>0, <1>2, NullAssumption
<1>4. \A m \in Nodes : kind'[m] = "free" => kind[m] = "free" /\ m # n
  BY DEF ReadText, TypeOK
<1>5. Pending' = Pending /\ Pending' = Pending \ {n}
  BY <1>0, <1>3 DEF Pending
<1>6. LinksAt(heap, heap', Top, k[Top], Len(k[Top]) + 1, n)
  <2>1. SpliceLinks(Top, lastChild[Top], n, Null, NoCopy, {})
    BY DEF ReadText
  <2> QED BY <1>1, <1>4, <1>5, <2>1, SpliceAtEnd
<1>7. \A m \in Nodes : heap'.parent[m] = IF m = n THEN Top ELSE heap.parent[m]
  BY <1>6 DEF LinksAt
<1>8. NoCycle(heap')
  <2>1. /\ NoCycle(heap) /\ {n} \in SUBSET Nodes /\ n \in {n} /\ Top \notin {n}
        /\ \A m \in Nodes : heap.parent[m] \in {n} => m \in {n}
    BY <1>0, <1>1, HeapFields, NullAssumption, ParentsLive DEF Spells, Live, Free
  <2> QED BY <1>7, <2>1, LinkNoCycle
<1>9. Spells(heap', Appended(k, Top, n))
  <2>1. heap.kind[Top] # "free" /\ heap.parent[n] = Null
        /\ Len(k[Top]) + 1 \in 1..(Len(k[Top]) + 1)
    BY <1>1, <1>3, HeapFields, LastPlace
  <2> QED BY <1>1, <1>6, <1>8, <2>1, LinkSpells DEF Appended
<1>10. ReadingOK'
  <2>1. \A m \in Pending : m \in Nodes /\ parent'[m] = parent[m]
    <3>1. \A m \in Pending : m \in Nodes
      BY HeapFields DEF Spells, Vacant
    <3> QED BY <1>3, <1>7, <3>1, HeapFields, HeapPrimed
  <2> QED BY <1>0, <1>4, <2>1, ReadingKept
<1> QED BY <1>9, <1>10

-----------------------------------------------------------------------------
(* The inductive invariant, and what it says of the pointers.                 *)

LEMMA HeapInitially == Init => HeapInv
<1> SUFFICES ASSUME Init PROVE HeapInv
  OBVIOUS
<1> DEFINE k == [n \in Nodes |-> <<>>]
<1>1. TypeOK
  BY DEF Init, TypeOK, Kinds, Pointer
<1>2. Pending = {} /\ ReadingOK
  BY NoPending DEF Init
<1>3. /\ k \in [Nodes -> Seq(Nodes)] /\ \A n \in Nodes : Len(k[n]) = 0
      /\ \A n \in Nodes : /\ heap.parent[n] = Null /\ heap.firstChild[n] = Null
                          /\ heap.lastChild[n] = Null /\ heap.prev[n] = Null
                          /\ heap.next[n] = Null
      /\ heap.pending = {}
  BY <1>2, HeapFields DEF Init
<1> HIDE DEF k
<1>4. Lists(heap, k) /\ Ends(heap, k) /\ Neighbours(heap, k) /\ Vacant(heap, k)
  BY <1>3 DEF Lists, Ends, Neighbours, Vacant
<1>5. NoCycle(heap)
  BY <1>3, NullAssumption DEF NoCycle
<1> QED BY <1>1, <1>2, <1>4, <1>5 DEF HeapInv, Spells

LEMMA HeapStep ==
  ASSUME HeapInv, [Next]_vars
  PROVE  HeapInv'
<1>1. TypeOK /\ ReadingOK
  BY DEF HeapInv
<1>2. PICK k : Spells(heap, k)
  BY DEF HeapInv
<1>3. TypeOK'
  <2>1. Len(reading) > 1 => parent[Top] \in Nodes
    <3>1. Len(reading) > 1 => reading # <<>>
      OBVIOUS
    <3> QED BY <1>1, <3>1, ReadingTop
  <2> QED BY <1>1, <2>1, NextKeepsTypes
<1>4. ASSUME \E kk : Spells(heap', kk), reading' = <<>>
      PROVE  HeapInv'
  <2>1. ReadingOK'
    BY <1>4 DEF ReadingOK
  <2> QED BY <1>3, <1>4, <2>1 DEF HeapInv
<1>5. ASSUME NEW n \in Nodes, NEW kd \in Kinds, New(n, kd)
      PROVE  HeapInv'
  <2>1. reading' = <<>>
    BY <1>5 DEF New
  <2> QED BY <1>1, <1>2, <1>4, <1>5, <2>1, NewSpells
<1>6. ASSUME NEW p \in Nodes, NEW n \in Nodes, LinkEndChild(p, n)
      PROVE  HeapInv'
  <2>1. reading' = <<>>
    BY <1>6 DEF LinkEndChild
  <2> QED BY <1>1, <1>2, <1>4, <1>6, <2>1, LinkEndSpells
<1>7. ASSUME NEW p \in Nodes, NEW b \in Nodes, NEW a \in Nodes,
             \/ InsertEndChild(p, a)
             \/ InsertBeforeChild(p, b, a)
             \/ InsertAfterChild(p, b, a)
      PROVE  HeapInv'
  <2>1. reading' = <<>>
    BY <1>7 DEF InsertEndChild, InsertBeforeChild, InsertAfterChild, TopOnly
  <2> QED BY <1>1, <1>2, <1>4, <1>7, <2>1, InsertsSpell
<1>8. ASSUME NEW p \in Nodes, NEW r \in Nodes, NEW a \in Nodes, ReplaceChild(p, r, a)
      PROVE  HeapInv'
  <2>1. reading' = <<>>
    BY <1>8 DEF ReplaceChild, TopOnly
  <2> QED BY <1>1, <1>2, <1>4, <1>8, <2>1, ReplaceSpells
<1>9. ASSUME NEW p \in Nodes, NEW r \in Nodes, RemoveChild(p, r)
      PROVE  HeapInv'
  <2>1. reading' = <<>>
    BY <1>9 DEF RemoveChild
  <2> QED BY <1>1, <1>2, <1>4, <1>9, <2>1, RemoveSpells
<1>10. ASSUME NEW p \in Nodes, Clear(p)
       PROVE  HeapInv'
  <2>1. reading' = <<>>
    BY <1>10 DEF Clear
  <2> QED BY <1>1, <1>2, <1>4, <1>10, <2>1, ClearSpells
<1>11. ASSUME NEW n \in Nodes, Delete(n)
       PROVE  HeapInv'
  <2>1. /\ reading = <<>> /\ UNCHANGED reading /\ reading' = <<>>
        /\ parent[n] = Null /\ DeleteTree(n)
    BY <1>11 DEF Delete
  <2> QED BY <1>1, <1>2, <1>4, <2>1, DeleteSpells
<1>12. ASSUME NEW d \in Nodes, Parse(d)
       PROVE  HeapInv'
  <2>1. /\ reading = <<>> /\ reading' = <<d>> /\ kind[d] = "document"
        /\ UNCHANGED <<kind, links>>
    BY <1>12 DEF Parse
  <2>2. Pending = {} /\ Pending' = {} /\ ReadingOK'
    BY <2>1, NoPending DEF Pending, ReadingOK
  <2> QED BY <1>2, <1>3, <2>1, <2>2, HeapUnchanged DEF HeapInv
<1>13. ASSUME NEW n \in Nodes, NEW kd \in Kinds, Identify(n, kd)
       PROVE  HeapInv'
  BY <1>1, <1>2, <1>3, <1>13, IdentifySpells DEF HeapInv
<1>14. ASSUME NEW failed \in BOOLEAN, LinkParsed(failed)
       PROVE  HeapInv'
  BY <1>1, <1>2, <1>3, <1>14, LinkParsedSpells DEF HeapInv
<1>15. ASSUME NEW n \in Nodes, ReadText(n)
       PROVE  HeapInv'
  BY <1>1, <1>2, <1>3, <1>15, ReadTextSpells DEF HeapInv
<1>16. CASE ParseEnds
  <2>1. /\ Len(reading) = 1 /\ reading' = <<>> /\ UNCHANGED <<kind, links>>
    BY <1>16 DEF ParseEnds
  <2>2. Pending = {} /\ Pending' = {} /\ ReadingOK'
    BY <2>1 DEF Pending, ReadingOK
  <2> QED BY <1>2, <1>3, <2>1, <2>2, HeapUnchanged DEF HeapInv
<1>17. CASE UNCHANGED vars
  <2>1. UNCHANGED <<kind, links>> /\ Pending' = Pending /\ UNCHANGED reading
    BY <1>17 DEF vars, links, Pending
  <2>2. heap' = heap
    BY <2>1, HeapUnchanged
  <2>3. ReadingOK'
    BY <1>1, <2>1 DEF ReadingOK, links
  <2> QED BY <1>2, <1>3, <2>2, <2>3 DEF HeapInv
<1>18. CASE Next
  BY <1>5, <1>6, <1>7, <1>8, <1>9, <1>10, <1>11, <1>12, <1>13, <1>14, <1>15, <1>16, <1>18
  DEF Next
<1> QED BY <1>17, <1>18

(* The pointers always spell, for every node, one list of children: firstChild *)
(* and lastChild are its ends, next and prev its neighbours, every node whose  *)
(* parent is p and which the parser does not hold is in the list of p, and     *)
(* nobody is below itself.                                                     *)
THEOREM HeapAlways == Spec => []HeapInv
<1> QED BY HeapInitially, HeapStep, PTL DEF Spec

(* Every pointer of the heap is null or an address, whatever is linked,       *)
(* copied, deleted or parsed.                                                 *)
THEOREM DomTypes == Spec => []TypeOK
<1>1. HeapInv => TypeOK
  BY DEF HeapInv
<1> QED BY <1>1, HeapAlways, PTL

(* No list pointer is left behind at a deleted node, and none leads to one.   *)
THEOREM DomNoDangling == Spec => []NoDangling
<1>1. ASSUME HeapInv
      PROVE  NoDangling
  <2>1. PICK k : Spells(heap, k)
    BY <1>1 DEF HeapInv
  <2>2. /\ k \in [Nodes -> Seq(Nodes)]
        /\ \A p \in Nodes : \A i \in 1..Len(k[p]) : parent[k[p][i]] = p
        /\ \A n \in Nodes : parent[n] # Null /\ n \notin Pending =>
             /\ parent[n] \in Nodes
             /\ \E i \in 1..Len(k[parent[n]]) : k[parent[n]][i] = n
    BY <2>1, HeapFields DEF Spells, Lists
  <2>3. \A p \in Nodes : \A i \in 1..Len(k[p]) : k[p][i] \in Nodes
    BY <2>2
  <2>4. \A p \in Nodes : \A i \in 1..Len(k[p]) : k[p][i] \in Live /\ k[p][i] \notin Free
    <3>1. \A p \in Nodes : \A i \in 1..Len(k[p]) : parent[k[p][i]] # Null
      BY <2>2, NullAssumption
    <3> QED BY <2>1, <2>3, <3>1, ParentsLive DEF Live
  <2>5. /\ \A p \in Nodes :
             /\ firstChild[p] = IF Len(k[p]) = 0 THEN Null ELSE k[p][1]
             /\ lastChild[p] = IF Len(k[p]) = 0 THEN Null ELSE k[p][Len(k[p])]
        /\ \A p \in Nodes : \A i \in 1..Len(k[p]) :
             /\ prev[k[p][i]] = IF i = 1 THEN Null ELSE k[p][i - 1]
             /\ next[k[p][i]] = IF i = Len(k[p]) THEN Null ELSE k[p][i + 1]
        /\ \A n \in Nodes : parent[n] = Null \/ n \in Pending =>
             prev[n] = Null /\ next[n] = Null
        /\ \A n \in Nodes : kind[n] = "free" => parent[n] = Null /\ Len(k[n]) = 0
    BY <2>1, HeapFields DEF Spells, Ends, Neighbours, Vacant
  <2>6. Null \notin Free
    BY NullAssumption DEF Free
  <2>7. ASSUME NEW n \in Nodes
        PROVE  firstChild[n] \notin Free /\ lastChild[n] \notin Free
    <3>1. CASE Len(k[n]) = 0
      BY <2>5, <2>6, <3>1
    <3>2. CASE Len(k[n]) # 0
      <4>1. 1 \in 1..Len(k[n]) /\ Len(k[n]) \in 1..Len(k[n])
        BY <2>2, <3>2
      <4> QED BY <2>4, <2>5, <3>2, <4>1
    <3> QED BY <3>1, <3>2
  <2>8. ASSUME NEW n \in Nodes
        PROVE  prev[n] \notin Free /\ next[n] \notin Free
    <3>1. CASE parent[n] = Null \/ n \in Pending
      BY <2>5, <2>6, <3>1
    <3>2. CASE parent[n] # Null /\ n \notin Pending
      <4>1. parent[n] \in Nodes
        BY <2>2, <3>2
      <4>2. PICK i \in 1..Len(k[parent[n]]) : k[parent[n]][i] = n
        BY <2>2, <3>2
      <4>3. Len(k[parent[n]]) \in Nat
        BY <2>2, <4>1
      <4>4. (i # 1 => i - 1 \in 1..Len(k[parent[n]]))
            /\ (i # Len(k[parent[n]]) => i + 1 \in 1..Len(k[parent[n]]))
        BY <4>2, <4>3
      <4>5. /\ prev[n] = IF i = 1 THEN Null ELSE k[parent[n]][i - 1]
            /\ next[n] = IF i = Len(k[parent[n]]) THEN Null ELSE k[parent[n]][i + 1]
        BY <2>5, <4>1, <4>2
      <4> QED BY <2>4, <2>6, <4>1, <4>4, <4>5
    <3> QED BY <3>1, <3>2
  <2>9. \A n \in Nodes : parent[n] \notin Free
    BY <2>1, <2>6, ParentsLive DEF Live
  <2>10. ASSUME NEW n \in Free
         PROVE  /\ parent[n] = Null /\ firstChild[n] = Null /\ lastChild[n] = Null
                /\ prev[n] = Null /\ next[n] = Null
    BY <2>5 DEF Free
  <2> QED BY <2>7, <2>8, <2>9, <2>10 DEF NoDangling, Live
<1> QED BY <1>1, HeapAlways, PTL

(* No node is below itself: the destructor and Clone come to an end.          *)
THEOREM DomAcyclic == Spec => []Acyclic
<1>1. HeapInv => Acyclic
  BY SubtreeRoot DEF HeapInv, Acyclic
<1> QED BY <1>1, HeapAlways, PTL

-----------------------------------------------------------------------------
(* Walks.  The function that Walk defines by recursion exists, since a list   *)
(* of the lists' tails satisfies its equation, and is that list: a smallest   *)
(* length at which they differ leads to a smaller one.                        *)

LEMMA SmallestSet ==
  ASSUME NEW S, IsFiniteSet(S), NEW F, F \subseteq SUBSET S, F # {}
  PROVE  \E T \in F : \A U \in F : U \subseteq T => U = T
<1>1. IsWellFoundedOn(StrictSubsetOrdering(S), SUBSET S)
  BY FS_StrictSubsetOrderingWellFounded, FS_FiniteSubsetsOfFinite
<1>2. PICK T \in F : \A U \in F : <<U, T>> \notin StrictSubsetOrdering(S)
  BY <1>1, WFMin
<1> QED BY <1>2 DEF StrictSubsetOrdering

LEMMA SmallestNumber ==
  ASSUME NEW N \in Nat, NEW I \in SUBSET (0..N), I # {}
  PROVE  \E i \in I : \A j \in I : i <= j
<1> DEFINE S == 0..N
           F == {0..i : i \in I}
<1>1. F \subseteq SUBSET S /\ F # {}
  <2>1. \A i \in I : 0..i \in SUBSET S
    OBVIOUS
  <2> HIDE DEF S
  <2> QED BY <2>1
<1>2. IsFiniteSet(S)
  BY FS_Interval
<1> HIDE DEF F, S
<1>3. PICK T \in F : \A U \in F : U \subseteq T => U = T
  BY <1>1, <1>2, SmallestSet
<1>4. PICK i \in I : T = 0..i
  BY <1>3 DEF F
<1>5. ASSUME NEW j \in I, ~(i <= j)
      PROVE  FALSE
  <2>1. i \in Nat /\ j \in Nat /\ j < i
    BY <1>5
  <2>2. 0..j \in F
    BY DEF F
  <2>3. 0..j \subseteq T
    BY <1>4, <2>1
  <2>4. 0..j = 0..i
    BY <1>3, <1>4, <2>2, <2>3
  <2>5. i \in 0..i /\ i \notin 0..j
    BY <2>1
  <2> QED BY <2>4, <2>5
<1> QED BY <1>5

(* At most i nodes of s.                                                      *)
Upto(s, i) == [u \in 1..(IF i < Len(s) THEN i ELSE Len(s)) |-> s[u]]

LEMMA UptoFacts ==
  ASSUME NEW s \in Seq(Nodes), NEW i \in Nat
  PROVE  /\ Upto(s, i) \in Seq(Nodes)
         /\ Len(Upto(s, i)) = IF i < Len(s) THEN i ELSE Len(s)
         /\ \A u \in 1..Len(Upto(s, i)) : Upto(s, i)[u] = s[u]
<1> DEFINE m == IF i < Len(s) THEN i ELSE Len(s)
<1>1. m \in Nat /\ m <= Len(s) /\ Len(s) \in Nat
  OBVIOUS
<1> HIDE DEF m
<1>2. [u \in 1..m |-> s[u]] \in [1..m -> Nodes]
  BY <1>1
<1>3. [u \in 1..m |-> s[u]] \in Seq(Nodes) /\ Len([u \in 1..m |-> s[u]]) = m
  BY <1>1, <1>2
<1>4. Upto(s, i) = [u \in 1..m |-> s[u]]
  BY DEF Upto, m
<1>5. \A u \in 1..m : [w \in 1..m |-> s[w]][u] = s[u]
  OBVIOUS
<1> QED BY <1>3, <1>4, <1>5 DEF m

LEMMA SameSequence ==
  ASSUME NEW s \in Seq(Nodes), NEW t \in Seq(Nodes), Len(s) = Len(t),
         \A u \in 1..Len(s) : s[u] = t[u]
  PROVE  s = t
OBVIOUS

LEMMA UptoCons ==
  ASSUME NEW n \in Nodes, NEW s \in Seq(Nodes), NEW i \in Nat, i > 0,
         NEW t \in Seq(Nodes), t = <<n>> \o s
  PROVE  Upto(t, i) = <<n>> \o Upto(s, i - 1)
<1> DEFINE a == Upto(t, i)
           b == Upto(s, i - 1)
           c == <<n>> \o b
<1>1. /\ a \in Seq(Nodes) /\ Len(a) = IF i < Len(t) THEN i ELSE Len(t)
      /\ \A u \in 1..Len(a) : a[u] = t[u]
  BY UptoFacts
<1>2. i - 1 \in Nat
  OBVIOUS
<1>3. /\ b \in Seq(Nodes) /\ Len(b) = IF i - 1 < Len(s) THEN i - 1 ELSE Len(s)
      /\ \A u \in 1..Len(b) : b[u] = s[u]
  BY <1>2, UptoFacts
<1>4. /\ Len(t) = Len(s) + 1 /\ t[1] = n /\ Len(s) \in Nat
      /\ \A u \in 2..(Len(s) + 1) : t[u] = s[u - 1]
  OBVIOUS
<1> HIDE DEF a, b
<1>5. /\ c \in Seq(Nodes) /\ Len(c) = Len(b) + 1 /\ c[1] = n
      /\ \A u \in 2..(Len(b) + 1) : c[u] = b[u - 1]
  BY <1>3
<1> HIDE DEF c
<1>6. Len(a) = Len(c)
  BY <1>1, <1>3, <1>4, <1>5
<1>7. ASSUME NEW u \in 1..Len(a)
      PROVE  a[u] = c[u]
  <2>1. CASE u = 1
    BY <1>1, <1>4, <1>5, <1>7, <2>1
  <2>2. CASE u # 1
    <3>1. /\ u \in 2..(Len(b) + 1) /\ u - 1 \in 1..Len(b) /\ u \in 2..(Len(s) + 1)
      BY <1>1, <1>3, <1>4, <1>5, <1>6, <1>7, <2>2
    <3> QED BY <1>1, <1>3, <1>4, <1>5, <1>7, <3>1
  <2> QED BY <2>1, <2>2
<1>8. a = c
  BY <1>1, <1>5, <1>6, <1>7
<1> QED BY <1>8 DEF a, b, c

(* The equation of the function in Walk.                                      *)
Steps(N, f, step) ==
    [i \in 0..N |-> [n \in Pointer |-> IF i = 0 \/ n = Null THEN <<>>
                                       ELSE <<n>> \o f[i - 1][step[n]]]]

(* R[n] is what a walk from n along step finds.                               *)
Tails(R, step) ==
    /\ R \in [Pointer -> Seq(Nodes)] /\ R[Null] = <<>>
    /\ \A n \in Nodes : step[n] \in Pointer /\ R[n] = <<n>> \o R[step[n]]

Solves(f, N, step) == f = Steps(N, f, step)

LEMMA WalkIs ==
  ASSUME NEW start, NEW step
  PROVE  Walk(start, step)
           = (CHOOSE f : f = Steps(Cardinality(Nodes) + 1, f, step))
               [Cardinality(Nodes) + 1][start]
BY DEF Walk, Steps

LEMMA StepsSolved ==
  ASSUME NEW N \in Nat, NEW step, NEW R, Tails(R, step),
         NEW f, Solves(f, N, step)
  PROVE  \A i \in 0..N : \A n \in Pointer : f[i][n] = Upto(R[n], i)
<1>0. /\ R \in [Pointer -> Seq(Nodes)] /\ R[Null] = <<>>
      /\ \A n \in Nodes : step[n] \in Pointer /\ R[n] = <<n>> \o R[step[n]]
  BY DEF Tails
<1> DEFINE I == {i \in 0..N : \E n \in Pointer : f[i][n] # Upto(R[n], i)}
<1>1. SUFFICES ASSUME I # {}
               PROVE  FALSE
  OBVIOUS
<1>2. PICK i \in I : \A j \in I : i <= j
  <2>1. I \in SUBSET (0..N)
    OBVIOUS
  <2> HIDE DEF I
  <2> QED BY <1>1, <2>1, SmallestNumber
<1>3. PICK n \in Pointer : f[i][n] # Upto(R[n], i)
  BY <1>2
<1>4. i \in 0..N /\ i \in Nat
  BY <1>2
<1> DEFINE g == Steps(N, f, step)
<1>g. \A j \in 0..N : g[j] = [m \in Pointer |-> IF j = 0 \/ m = Null THEN <<>>
                                            ELSE <<m>> \o f[j - 1][step[m]]]
  BY DEF Steps
<1>5. f[i][n] = IF i = 0 \/ n = Null THEN <<>> ELSE <<n>> \o f[i - 1][step[n]]
  <2>1. f = g
    BY DEF Solves
  <2> HIDE DEF g
  <2>2. f[i] = g[i]
    BY <2>1
  <2>3. f[i] = [m \in Pointer |-> IF i = 0 \/ m = Null THEN <<>>
                                  ELSE <<m>> \o f[i - 1][step[m]]]
    BY <1>4, <1>g, <2>2
  <2> QED BY <2>3
<1>6. R[n] \in Seq(Nodes)
  BY <1>0
<1>7. CASE i = 0 \/ n = Null
  <2>1. Upto(R[n], i) \in Seq(Nodes) /\ Len(Upto(R[n], i)) = 0
    BY <1>0, <1>4, <1>6, <1>7, UptoFacts
  <2>2. Upto(R[n], i) = <<>>
    BY <2>1
  <2> QED BY <1>3, <1>5, <1>7, <2>2
<1>8. CASE i # 0 /\ n # Null
  <2>1. n \in Nodes /\ step[n] \in Pointer /\ R[n] = <<n>> \o R[step[n]]
    BY <1>0, <1>8 DEF Pointer
  <2>2. i - 1 \in 0..N /\ i - 1 \in Nat /\ i > 0 /\ ~(i <= i - 1)
    BY <1>4, <1>8
  <2>3. f[i - 1][step[n]] = Upto(R[step[n]], i - 1)
    BY <1>2, <2>1, <2>2
  <2>4. Upto(R[n], i) = <<n>> \o Upto(R[step[n]], i - 1)
    BY <1>0, <1>4, <1>6, <2>1, <2>2, UptoCons
  <2> QED BY <1>3, <1>5, <1>8, <2>3, <2>4
<1> QED BY <1>7, <1>8

LEMMA StepsSolvable ==
  ASSUME NEW N \in Nat, NEW step, NEW R, Tails(R, step)
  PROVE  \E f : f = Steps(N, f, step)
<1>0. /\ R \in [Pointer -> Seq(Nodes)] /\ R[Null] = <<>>
      /\ \A n \in Nodes : step[n] \in Pointer /\ R[n] = <<n>> \o R[step[n]]
  BY DEF Tails
<1> DEFINE f == [i \in 0..N |-> [n \in Pointer |-> Upto(R[n], i)]]
<1>1. ASSUME NEW i \in 0..N, NEW n \in Pointer
      PROVE  Upto(R[n], i) = IF i = 0 \/ n = Null THEN <<>>
                             ELSE <<n>> \o f[i - 1][step[n]]
  <2>0. i \in Nat /\ R[n] \in Seq(Nodes)
    BY <1>0
  <2>1. CASE i = 0 \/ n = Null
    <3>1. Upto(R[n], i) \in Seq(Nodes) /\ Len(Upto(R[n], i)) = 0
      BY <1>0, <2>0, <2>1, UptoFacts
    <3>2. Upto(R[n], i) = <<>>
      BY <3>1
    <3> QED BY <2>1, <3>2
  <2>2. CASE i # 0 /\ n # Null
    <3>1. n \in Nodes /\ step[n] \in Pointer /\ R[n] = <<n>> \o R[step[n]]
          /\ R[step[n]] \in Seq(Nodes)
      BY <1>0, <2>2 DEF Pointer
    <3>2. i - 1 \in 0..N /\ i > 0
      BY <2>0, <2>2
    <3>3. f[i - 1][step[n]] = Upto(R[step[n]], i - 1)
      BY <3>1, <3>2
    <3>4. Upto(R[n], i) = <<n>> \o Upto(R[step[n]], i - 1)
      BY <2>0, <3>1, <3>2, UptoCons
    <3> QED BY <2>2, <3>3, <3>4
  <2> QED BY <2>1, <2>2
<1>2. f = [i \in 0..N |-> [n \in Pointer |-> IF i = 0 \/ n = Null THEN <<>>
                                             ELSE <<n>> \o f[i - 1][step[n]]]]
  BY <1>1
<1>3. f = Steps(N, f, step)
  BY <1>2 DEF Steps
<1> QED BY <1>3

LEMMA WalkFollows ==
  ASSUME NEW step, NEW R, Tails(R, step),
         NEW start \in Pointer, Len(R[start]) <= Cardinality(Nodes)
  PROVE  Walk(start, step) = R[start]
<1> DEFINE N == Cardinality(Nodes) + 1
           f == CHOOSE g : g = Steps(N, g, step)
<1>1. N \in Nat /\ N \in 0..N /\ Len(R[start]) < N
  BY HeapIsFinite, FS_CardinalityType
<1>2. Walk(start, step) = f[N][start]
  BY WalkIs
<1> HIDE DEF N
<1>3. Solves(f, N, step)
  BY <1>1, StepsSolvable DEF Solves
<1> HIDE DEF f
<1>4. f[N][start] = Upto(R[start], N)
  <2>1. \A i \in 0..N : \A n \in Pointer : f[i][n] = Upto(R[n], i)
    BY <1>1, <1>3, StepsSolved
  <2> QED BY <1>1, <2>1
<1>5. Upto(R[start], N) = R[start]
  <2>1. R[start] \in Seq(Nodes)
    BY DEF Tails
  <2>2. /\ Upto(R[start], N) \in Seq(Nodes)
        /\ Len(Upto(R[start], N)) = Len(R[start])
        /\ \A u \in 1..Len(Upto(R[start], N)) : Upto(R[start], N)[u] = R[start][u]
    BY <1>1, <2>1, UptoFacts
  <2> DEFINE a == Upto(R[start], N)
             b == R[start]
  <2> HIDE DEF a, b
  <2>3. a \in Seq(Nodes) /\ b \in Seq(Nodes) /\ Len(a) = Len(b)
        /\ \A u \in 1..Len(a) : a[u] = b[u]
    BY <2>1, <2>2 DEF a, b
  <2>4. a = b
    BY <2>3, SameSequence
  <2> QED BY <2>4 DEF a, b
<1> QED BY <1>2, <1>4, <1>5

(* What is left of a list, forward and backward.                              *)
From(s, i) == [u \in 1..(Len(s) + 1 - i) |-> s[(i - 1) + u]]
Back(s, i) == [u \in 1..i |-> s[(i + 1) - u]]

LEMMA FromFacts ==
  ASSUME NEW s \in Seq(Nodes), NEW i \in 1..Len(s)
  PROVE  /\ From(s, i) \in Seq(Nodes) /\ Len(From(s, i)) = Len(s) + 1 - i
         /\ \A u \in 1..(Len(s) + 1 - i) : From(s, i)[u] = s[(i - 1) + u]
<1> DEFINE m == Len(s) + 1 - i
           t == [u \in 1..m |-> s[(i - 1) + u]]
<1>1. m \in Nat /\ \A u \in 1..m : (i - 1) + u \in 1..Len(s)
  OBVIOUS
<1>2. \A u \in 1..m : s[(i - 1) + u] \in Nodes
  BY <1>1
<1> HIDE DEF m
<1>3. t \in [1..m -> Nodes]
  BY <1>2
<1>4. t \in Seq(Nodes) /\ Len(t) = m
  BY <1>1, <1>3
<1> QED BY <1>4 DEF From, m

LEMMA BackFacts ==
  ASSUME NEW s \in Seq(Nodes), NEW i \in 1..Len(s)
  PROVE  /\ Back(s, i) \in Seq(Nodes) /\ Len(Back(s, i)) = i
         /\ \A u \in 1..i : Back(s, i)[u] = s[(i + 1) - u]
<1> DEFINE t == [u \in 1..i |-> s[(i + 1) - u]]
<1>1. i \in Nat /\ \A u \in 1..i : (i + 1) - u \in 1..Len(s)
  OBVIOUS
<1>2. \A u \in 1..i : s[(i + 1) - u] \in Nodes
  BY <1>1
<1>3. t \in [1..i -> Nodes]
  BY <1>2
<1>4. t \in Seq(Nodes) /\ Len(t) = i
  BY <1>1, <1>3
<1> QED BY <1>4 DEF Back

LEMMA ConsFacts ==
  ASSUME NEW n \in Nodes, NEW s \in Seq(Nodes)
  PROVE  /\ <<n>> \o s \in Seq(Nodes) /\ Len(<<n>> \o s) = Len(s) + 1
         /\ \A u \in 1..(Len(s) + 1) : (<<n>> \o s)[u] = IF u = 1 THEN n ELSE s[u - 1]
OBVIOUS

LEMMA FromSplits ==
  ASSUME NEW s \in Seq(Nodes), NEW i \in 1..Len(s)
  PROVE  From(s, i) = <<s[i]>> \o (IF i = Len(s) THEN <<>> ELSE From(s, i + 1))
<1> DEFINE a == From(s, i)
           r == IF i = Len(s) THEN <<>> ELSE From(s, i + 1)
           b == <<s[i]>> \o r
<1>0. s[i] \in Nodes /\ Len(s) \in Nat
  OBVIOUS
<1>1. /\ a \in Seq(Nodes) /\ Len(a) = Len(s) + 1 - i
      /\ \A u \in 1..(Len(s) + 1 - i) : a[u] = s[(i - 1) + u]
  BY FromFacts
<1>2. /\ r \in Seq(Nodes) /\ Len(r) = Len(s) - i
      /\ \A u \in 1..(Len(s) - i) : r[u] = s[i + u]
  <2>1. CASE i = Len(s)
    <3>1. r = <<>> /\ Len(s) - i = 0
      BY <1>0, <2>1
    <3> QED BY <3>1
  <2>2. CASE i # Len(s)
    <3>1. i + 1 \in 1..Len(s) /\ Len(s) + 1 - (i + 1) = Len(s) - i /\ (i + 1) - 1 = i
      BY <2>2
    <3>2. r = From(s, i + 1)
      BY <2>2
    <3>3. /\ From(s, i + 1) \in Seq(Nodes)
          /\ Len(From(s, i + 1)) = Len(s) + 1 - (i + 1)
          /\ \A u \in 1..(Len(s) + 1 - (i + 1)) :
               From(s, i + 1)[u] = s[((i + 1) - 1) + u]
      BY <3>1, FromFacts
    <3> HIDE DEF r
    <3> QED BY <3>1, <3>2, <3>3
  <2> QED BY <2>1, <2>2
<1> HIDE DEF a, r
<1>3. /\ b \in Seq(Nodes) /\ Len(b) = Len(r) + 1
      /\ \A u \in 1..(Len(r) + 1) : b[u] = IF u = 1 THEN s[i] ELSE r[u - 1]
  BY <1>0, <1>2, ConsFacts
<1> HIDE DEF b
<1>4. Len(a) = Len(b)
  BY <1>0, <1>1, <1>2, <1>3
<1>5. ASSUME NEW u \in 1..Len(a)
      PROVE  a[u] = b[u]
  <2>1. u \in 1..(Len(s) + 1 - i) /\ u \in 1..(Len(r) + 1)
    BY <1>1, <1>3, <1>4, <1>5
  <2>2. (i - 1) + u = i + (u - 1)
    BY <2>1
  <2>3. CASE u = 1
    BY <1>1, <1>3, <2>1, <2>3
  <2>4. CASE u # 1
    <3>1. u - 1 \in 1..(Len(s) - i)
      BY <1>0, <2>1, <2>4
    <3>2. r[u - 1] = s[i + (u - 1)]
      BY <1>2, <3>1
    <3>3. a[u] = s[(i - 1) + u] /\ b[u] = r[u - 1]
      BY <1>1, <1>3, <2>1, <2>4
    <3> QED BY <2>2, <3>2, <3>3
  <2> QED BY <2>3, <2>4
<1>6. a = b
  BY <1>1, <1>3, <1>4, <1>5, SameSequence
<1> QED BY <1>6 DEF a, b, r

LEMMA BackSplits ==
  ASSUME NEW s \in Seq(Nodes), NEW i \in 1..Len(s)
  PROVE  Back(s, i) = <<s[i]>> \o (IF i = 1 THEN <<>> ELSE Back(s, i - 1))
<1> DEFINE a == Back(s, i)
           r == IF i = 1 THEN <<>> ELSE Back(s, i - 1)
           b == <<s[i]>> \o r
<1>0. s[i] \in Nodes /\ i \in Nat
  OBVIOUS
<1>1. /\ a \in Seq(Nodes) /\ Len(a) = i
      /\ \A u \in 1..i : a[u] = s[(i + 1) - u]
  BY BackFacts
<1>2. /\ r \in Seq(Nodes) /\ Len(r) = i - 1
      /\ \A u \in 1..(i - 1) : r[u] = s[i - u]
  <2>1. CASE i = 1
    <3>1. r = <<>> /\ i - 1 = 0
      BY <1>0, <2>1
    <3> QED BY <3>1
  <2>2. CASE i # 1
    <3>1. i - 1 \in 1..Len(s) /\ (i - 1) + 1 = i
      BY <2>2
    <3>2. r = Back(s, i - 1)
      BY <2>2
    <3> HIDE DEF r
    <3> QED BY <3>1, <3>2, BackFacts
  <2> QED BY <2>1, <2>2
<1> HIDE DEF a, r
<1>3. /\ b \in Seq(Nodes) /\ Len(b) = Len(r) + 1
      /\ \A u \in 1..(Len(r) + 1) : b[u] = IF u = 1 THEN s[i] ELSE r[u - 1]
  BY <1>0, <1>2, ConsFacts
<1> HIDE DEF b
<1>4. Len(a) = Len(b)
  BY <1>0, <1>1, <1>2, <1>3
<1>5. ASSUME NEW u \in 1..Len(a)
      PROVE  a[u] = b[u]
  <2>1. u \in 1..i /\ u \in 1..(Len(r) + 1)
    BY <1>1, <1>3, <1>4, <1>5
  <2>2. (i + 1) - u = i - (u - 1) /\ (i + 1) - 1 = i
    BY <1>0, <2>1
  <2>3. CASE u = 1
    BY <1>1, <1>3, <2>1, <2>2, <2>3
  <2>4. CASE u # 1
    <3>1. u - 1 \in 1..(i - 1)
      BY <1>0, <2>1, <2>4
    <3>2. a[u] = s[(i + 1) - u]
      BY <1>1, <2>1
    <3>3. b[u] = r[u - 1]
      BY <1>3, <2>1, <2>4
    <3> QED BY <1>2, <2>2, <3>1, <3>2, <3>3
  <2> QED BY <2>3, <2>4
<1>6. a = b
  BY <1>1, <1>3, <1>4, <1>5, SameSequence
<1> QED BY <1>6 DEF a, b, r

-----------------------------------------------------------------------------
(* The walks find the lists that the heap spells.                             *)

Listed(n) == parent[n] # Null /\ n \notin Pending
Place(k, n) == CHOOSE i \in 1..Len(k[parent[n]]) : k[parent[n]][i] = n

Onward(k) == [n \in Pointer |-> IF n = Null THEN <<>>
                                ELSE IF Listed(n) THEN From(k[parent[n]], Place(k, n))
                                ELSE <<n>>]
Homeward(k) == [n \in Pointer |-> IF n = Null THEN <<>>
                                  ELSE IF Listed(n) THEN Back(k[parent[n]], Place(k, n))
                                  ELSE <<n>>]

(* What the lists say of a node's neighbours and of its place.                *)
PlacesOK(k) ==
    /\ k \in [Nodes -> Seq(Nodes)]
    /\ \A p \in Nodes : k[p] \in Seq(Nodes) /\ Len(k[p]) \in Nat
    /\ \A p \in Nodes : \A i \in 1..Len(k[p]) :
         /\ k[p][i] \in Nodes /\ k[p][i] # Null /\ Listed(k[p][i])
         /\ parent[k[p][i]] = p /\ Place(k, k[p][i]) = i
         /\ prev[k[p][i]] = IF i = 1 THEN Null ELSE k[p][i - 1]
         /\ next[k[p][i]] = IF i = Len(k[p]) THEN Null ELSE k[p][i + 1]
    /\ \A p \in Nodes : \A i, j \in 1..Len(k[p]) : k[p][i] = k[p][j] => i = j
    /\ \A n \in Nodes : Listed(n) => /\ parent[n] \in Nodes
                                     /\ Place(k, n) \in 1..Len(k[parent[n]])
                                     /\ k[parent[n]][Place(k, n)] = n
    /\ \A n \in Nodes : ~Listed(n) => prev[n] = Null /\ next[n] = Null

LEMMA ListFacts ==
  ASSUME NEW k, Spells(heap, k)
  PROVE  PlacesOK(k)
<1>1. /\ k \in [Nodes -> Seq(Nodes)]
      /\ \A p \in Nodes : \A i \in 1..Len(k[p]) :
           parent[k[p][i]] = p /\ k[p][i] \notin Pending
      /\ \A p \in Nodes : \A i, j \in 1..Len(k[p]) : k[p][i] = k[p][j] => i = j
      /\ \A n \in Nodes : parent[n] # Null /\ n \notin Pending =>
           /\ parent[n] \in Nodes
           /\ \E i \in 1..Len(k[parent[n]]) : k[parent[n]][i] = n
  BY HeapFields DEF Spells, Lists
<1>2. /\ \A p \in Nodes : \A i \in 1..Len(k[p]) :
           /\ prev[k[p][i]] = IF i = 1 THEN Null ELSE k[p][i - 1]
           /\ next[k[p][i]] = IF i = Len(k[p]) THEN Null ELSE k[p][i + 1]
      /\ \A n \in Nodes : parent[n] = Null \/ n \in Pending =>
           prev[n] = Null /\ next[n] = Null
  BY HeapFields DEF Spells, Neighbours
<1>3. \A p \in Nodes : k[p] \in Seq(Nodes) /\ Len(k[p]) \in Nat
  BY <1>1
<1>4. \A p \in Nodes : \A i \in 1..Len(k[p]) : k[p][i] \in Nodes
  BY <1>1
<1>5. \A p \in Nodes : \A i \in 1..Len(k[p]) :
        k[p][i] # Null /\ Listed(k[p][i]) /\ parent[k[p][i]] = p
  BY <1>1, <1>4, NullAssumption DEF Listed
<1>6. \A p \in Nodes : \A i \in 1..Len(k[p]) : Place(k, k[p][i]) = i
  <2> SUFFICES ASSUME NEW p \in Nodes, NEW i \in 1..Len(k[p])
               PROVE  Place(k, k[p][i]) = i
    OBVIOUS
  <2>1. Place(k, k[p][i]) = CHOOSE j \in 1..Len(k[p]) : k[p][j] = k[p][i]
    BY <1>5 DEF Place
  <2> QED BY <1>1, <2>1
<1>7. \A n \in Nodes : Listed(n) => /\ parent[n] \in Nodes
                                    /\ Place(k, n) \in 1..Len(k[parent[n]])
                                    /\ k[parent[n]][Place(k, n)] = n
  BY <1>1 DEF Listed, Place
<1>8. \A n \in Nodes : ~Listed(n) => prev[n] = Null /\ next[n] = Null
  BY <1>2 DEF Listed
<1> QED BY <1>1, <1>2, <1>3, <1>4, <1>5, <1>6, <1>7, <1>8 DEF PlacesOK

LEMMA PlacesAt ==
  ASSUME NEW k, PlacesOK(k), NEW p \in Nodes
  PROVE  \A i \in 1..Len(k[p]) :
           /\ k[p][i] \in Nodes /\ k[p][i] # Null /\ Listed(k[p][i])
           /\ parent[k[p][i]] = p /\ Place(k, k[p][i]) = i
           /\ prev[k[p][i]] = IF i = 1 THEN Null ELSE k[p][i - 1]
           /\ next[k[p][i]] = IF i = Len(k[p]) THEN Null ELSE k[p][i + 1]
BY DEF PlacesOK

LEMMA NoTail == \A n : <<n>> = <<n>> \o <<>>
OBVIOUS

LEMMA OnwardTails ==
  ASSUME TypeOK, NEW k, Spells(heap, k)
  PROVE  Tails(Onward(k), next)
<1>0. PlacesOK(k)
  BY ListFacts
<1> DEFINE R == Onward(k)
<1>1. /\ R[Null] = <<>>
      /\ \A n \in Nodes : Listed(n) => R[n] = From(k[parent[n]], Place(k, n))
      /\ \A n \in Nodes : ~Listed(n) => R[n] = <<n>>
      /\ R = [n \in Pointer |-> R[n]]
  BY NullAssumption DEF Onward, Pointer
<1> HIDE DEF R
<1>2. \A n \in Nodes : next[n] \in Pointer
  BY DEF TypeOK
<1>3. ASSUME NEW n \in Nodes
      PROVE  R[n] \in Seq(Nodes) /\ R[n] = <<n>> \o R[next[n]]
  <2>1. CASE ~Listed(n)
    <3>1. next[n] = Null
      BY <1>0, <2>1 DEF PlacesOK
    <3>2. R[n] = <<n>> /\ R[next[n]] = <<>>
      BY <1>1, <2>1, <3>1
    <3>3. <<n>> \in Seq(Nodes)
      OBVIOUS
    <3> QED BY <3>2, <3>3, NoTail
  <2>2. CASE Listed(n)
    <3> DEFINE s == k[parent[n]]
               i == Place(k, n)
    <3>1. /\ parent[n] \in Nodes /\ s \in Seq(Nodes) /\ i \in 1..Len(s) /\ s[i] = n
          /\ R[n] = From(s, i) /\ Len(s) \in Nat
      BY <1>0, <1>1, <2>2 DEF PlacesOK
    <3>0. \A j \in 1..Len(s) :
            /\ s[j] \in Nodes /\ s[j] # Null /\ Listed(s[j])
            /\ parent[s[j]] = parent[n] /\ Place(k, s[j]) = j
            /\ prev[s[j]] = IF j = 1 THEN Null ELSE s[j - 1]
            /\ next[s[j]] = IF j = Len(s) THEN Null ELSE s[j + 1]
      BY <1>0, <3>1, PlacesAt
    <3>2. next[s[i]] = IF i = Len(s) THEN Null ELSE s[i + 1]
      BY <3>0, <3>1
    <3>3. \A j \in 1..Len(s) : R[s[j]] = From(s, j)
      <4> TAKE j \in 1..Len(s)
      <4>1. R[s[j]] = From(k[parent[s[j]]], Place(k, s[j]))
        BY <1>1, <3>0
      <4> QED BY <3>0, <4>1
    <3> HIDE DEF s, i
    <3>4. R[next[n]] = IF i = Len(s) THEN <<>> ELSE From(s, i + 1)
      <4>1. CASE i = Len(s)
        BY <1>1, <3>1, <3>2, <4>1
      <4>2. CASE i # Len(s)
        <5>1. i + 1 \in 1..Len(s)
          BY <3>1, <4>2
        <5> QED BY <3>1, <3>2, <3>3, <4>2, <5>1
      <4> QED BY <4>1, <4>2
    <3> QED BY <3>1, <3>4, FromFacts, FromSplits
  <2> QED BY <2>1, <2>2
<1>4. R \in [Pointer -> Seq(Nodes)]
  <2>1. R[Null] \in Seq(Nodes)
    BY <1>1
  <2>2. \A n \in Pointer : R[n] \in Seq(Nodes)
    BY <1>3, <2>1 DEF Pointer
  <2> QED BY <1>1, <2>2
<1> QED BY <1>1, <1>2, <1>3, <1>4 DEF Tails, R

LEMMA HomewardTails ==
  ASSUME TypeOK, NEW k, Spells(heap, k)
  PROVE  Tails(Homeward(k), prev)
<1>0. PlacesOK(k)
  BY ListFacts
<1> DEFINE R == Homeward(k)
<1>1. /\ R[Null] = <<>>
      /\ \A n \in Nodes : Listed(n) => R[n] = Back(k[parent[n]], Place(k, n))
      /\ \A n \in Nodes : ~Listed(n) => R[n] = <<n>>
      /\ R = [n \in Pointer |-> R[n]]
  BY NullAssumption DEF Homeward, Pointer
<1> HIDE DEF R
<1>2. \A n \in Nodes : prev[n] \in Pointer
  BY DEF TypeOK
<1>3. ASSUME NEW n \in Nodes
      PROVE  R[n] \in Seq(Nodes) /\ R[n] = <<n>> \o R[prev[n]]
  <2>1. CASE ~Listed(n)
    <3>1. prev[n] = Null
      BY <1>0, <2>1 DEF PlacesOK
    <3>2. R[n] = <<n>> /\ R[prev[n]] = <<>>
      BY <1>1, <2>1, <3>1
    <3>3. <<n>> \in Seq(Nodes)
      OBVIOUS
    <3> QED BY <3>2, <3>3, NoTail
  <2>2. CASE Listed(n)
    <3> DEFINE s == k[parent[n]]
               i == Place(k, n)
    <3>1. /\ parent[n] \in Nodes /\ s \in Seq(Nodes) /\ i \in 1..Len(s) /\ s[i] = n
          /\ R[n] = Back(s, i) /\ Len(s) \in Nat
      BY <1>0, <1>1, <2>2 DEF PlacesOK
    <3>0. \A j \in 1..Len(s) :
            /\ s[j] \in Nodes /\ s[j] # Null /\ Listed(s[j])
            /\ parent[s[j]] = parent[n] /\ Place(k, s[j]) = j
            /\ prev[s[j]] = IF j = 1 THEN Null ELSE s[j - 1]
            /\ next[s[j]] = IF j = Len(s) THEN Null ELSE s[j + 1]
      BY <1>0, <3>1, PlacesAt
    <3>2. prev[s[i]] = IF i = 1 THEN Null ELSE s[i - 1]
      BY <3>0, <3>1
    <3>3. \A j \in 1..Len(s) : R[s[j]] = Back(s, j)
      <4> TAKE j \in 1..Len(s)
      <4>1. R[s[j]] = Back(k[parent[s[j]]], Place(k, s[j]))
        BY <1>1, <3>0
      <4> QED BY <3>0, <4>1
    <3> HIDE DEF s, i
    <3>4. R[prev[n]] = IF i = 1 THEN <<>> ELSE Back(s, i - 1)
      <4>1. CASE i = 1
        BY <1>1, <3>1, <3>2, <4>1
      <4>2. CASE i # 1
        <5>1. i - 1 \in 1..Len(s)
          BY <3>1, <4>2
        <5> QED BY <3>1, <3>2, <3>3, <4>2, <5>1
      <4> QED BY <4>1, <4>2
    <3> QED BY <3>1, <3>4, BackFacts, BackSplits
  <2> QED BY <2>1, <2>2
<1>4. R \in [Pointer -> Seq(Nodes)]
  <2>1. R[Null] \in Seq(Nodes)
    BY <1>1
  <2>2. \A n \in Pointer : R[n] \in Seq(Nodes)
    BY <1>3, <2>1 DEF Pointer
  <2> QED BY <1>1, <2>2
<1> QED BY <1>1, <1>2, <1>3, <1>4 DEF Tails, R

(* A list holds a node at most once, so it is no longer than the heap.        *)
LEMMA ListsFit ==
  ASSUME NEW k, Spells(heap, k), NEW p \in Nodes
  PROVE  /\ Len(k[p]) <= Cardinality(Nodes)
         /\ Range(k[p]) = Below(p) \ Pending
         /\ Cardinality(Below(p) \ Pending) = Len(k[p])
<1> DEFINE s == k[p]
           f == [i \in 1..Len(s) |-> s[i]]
           B == Below(p) \ Pending
<1>1. /\ s \in Seq(Nodes) /\ Len(s) \in Nat
      /\ \A i \in 1..Len(s) : s[i] \in Nodes /\ Listed(s[i]) /\ parent[s[i]] = p
      /\ \A i, j \in 1..Len(s) : s[i] = s[j] => i = j
      /\ \A n \in Nodes : Listed(n) => /\ Place(k, n) \in 1..Len(k[parent[n]])
                                       /\ k[parent[n]][Place(k, n)] = n
  <2>1. PlacesOK(k)
    BY ListFacts
  <2> QED BY <2>1 DEF PlacesOK
<1>2. \A n \in B : \E i \in 1..Len(s) : s[i] = n
  <2>1. \A n \in B : n \in Nodes /\ Listed(n) /\ parent[n] = p
    BY NullAssumption DEF Below, Listed
  <2> QED BY <1>1, <2>1
<1>3. \A i \in 1..Len(s) : s[i] \in B
  BY <1>1 DEF Below, Listed
<1> HIDE DEF s, B
<1>4. Range(s) = B
  <2>1. DOMAIN s = 1..Len(s)
    BY <1>1
  <2> QED BY <1>2, <1>3, <2>1 DEF Range
<1>5. f \in Bijection(1..Len(s), B)
  BY <1>1, <1>2, <1>3 DEF Bijection, Injection, Surjection, IsInjective
<1>6. IsFiniteSet(1..Len(s)) /\ Cardinality(1..Len(s)) = Len(s)
  <2>1. Len(s) \in Int /\ 1 \in Int
    BY <1>1
  <2>2. /\ IsFiniteSet(1..Len(s))
        /\ Cardinality(1..Len(s)) = IF 1 > Len(s) THEN 0 ELSE Len(s) - 1 + 1
    BY <2>1, FS_Interval
  <2> QED BY <1>1, <2>2
<1>7. Cardinality(B) = Len(s) /\ IsFiniteSet(B)
  BY <1>5, <1>6, FS_Bijection DEF ExistsBijection
<1>8. Cardinality(B) <= Cardinality(Nodes)
  BY HeapIsFinite, FS_Subset DEF B, Below
<1> QED BY <1>4, <1>7, <1>8 DEF s, B

LEMMA KidsSpelt ==
  ASSUME TypeOK, NEW k, Spells(heap, k), NEW p \in Nodes
  PROVE  /\ Kids(p) = k[p]
         /\ KidsBack(p) = IF Len(k[p]) = 0 THEN <<>> ELSE Back(k[p], Len(k[p]))
<1> DEFINE s == k[p]
<1>1. /\ firstChild[p] = IF Len(s) = 0 THEN Null ELSE s[1]
      /\ lastChild[p] = IF Len(s) = 0 THEN Null ELSE s[Len(s)]
      /\ firstChild[p] \in Pointer /\ lastChild[p] \in Pointer
  BY HeapFields DEF Spells, Ends, TypeOK
<1>2. /\ s \in Seq(Nodes) /\ Len(s) \in Nat /\ Len(s) <= Cardinality(Nodes)
      /\ Cardinality(Nodes) \in Nat
      /\ \A i \in 1..Len(s) : /\ s[i] \in Nodes /\ s[i] # Null /\ Listed(s[i])
                              /\ parent[s[i]] = p /\ Place(k, s[i]) = i
  <2>1. PlacesOK(k) /\ Len(s) <= Cardinality(Nodes)
    BY ListFacts, ListsFit
  <2>2. Cardinality(Nodes) \in Nat
    BY HeapIsFinite, FS_CardinalityType
  <2>3. s \in Seq(Nodes) /\ Len(s) \in Nat
    BY <2>1 DEF PlacesOK
  <2>4. \A i \in 1..Len(s) : /\ s[i] \in Nodes /\ s[i] # Null /\ Listed(s[i])
                              /\ parent[s[i]] = p /\ Place(k, s[i]) = i
    BY <2>1 DEF PlacesOK
  <2> QED BY <2>1, <2>2, <2>3, <2>4
<1>3. Onward(k)[firstChild[p]] = s
  <2>1. CASE Len(s) = 0
    <3>1. s = <<>>
      BY <1>2, <2>1
    <3> QED BY <1>1, <2>1, <3>1 DEF Onward
  <2>2. CASE Len(s) # 0
    <3>1. 1 \in 1..Len(s)
      BY <1>2, <2>2
    <3>2. Onward(k)[firstChild[p]] = From(s, 1)
      BY <1>1, <1>2, <2>2, <3>1 DEF Onward
    <3>3. /\ From(s, 1) \in Seq(Nodes) /\ Len(From(s, 1)) = Len(s) + 1 - 1
          /\ \A u \in 1..(Len(s) + 1 - 1) : From(s, 1)[u] = s[(1 - 1) + u]
      BY <1>2, <3>1, FromFacts
    <3>4. Len(s) + 1 - 1 = Len(s) /\ \A u \in 1..Len(s) : (1 - 1) + u = u
      BY <1>2
    <3>5. From(s, 1) = s
      BY <1>2, <3>3, <3>4, SameSequence
    <3> QED BY <3>2, <3>5
  <2> QED BY <2>1, <2>2
<1>4. Homeward(k)[lastChild[p]] = IF Len(s) = 0 THEN <<>> ELSE Back(s, Len(s))
  <2>1. CASE Len(s) = 0
    BY <1>1, <2>1 DEF Homeward
  <2>2. CASE Len(s) # 0
    <3>1. Len(s) \in 1..Len(s)
      BY <1>2, <2>2
    <3> QED BY <1>1, <1>2, <2>2, <3>1 DEF Homeward
  <2> QED BY <2>1, <2>2
<1>5. Len(Homeward(k)[lastChild[p]]) = Len(s)
  <2>1. CASE Len(s) = 0
    BY <1>4, <2>1
  <2>2. CASE Len(s) # 0
    <3>1. Len(s) \in 1..Len(s)
      BY <1>2, <2>2
    <3> QED BY <1>2, <1>4, <2>2, <3>1, BackFacts
  <2> QED BY <2>1, <2>2
<1>6. Kids(p) = s
  BY <1>1, <1>2, <1>3, OnwardTails, WalkFollows DEF Kids
<1>7. KidsBack(p) = Homeward(k)[lastChild[p]]
  BY <1>1, <1>2, <1>5, HomewardTails, WalkFollows DEF KidsBack
<1> QED BY <1>4, <1>6, <1>7

(* The six operations and the parser leave no pointer behind: the children    *)
(* read forward, the children read backward and the nodes whose parent is p   *)
(* are the same, however many calls came before.                              *)
THEOREM DomWalksAgree == Spec => []WalksAgree
<1>1. ASSUME HeapInv
      PROVE  WalksAgree
  <2>1. TypeOK
    BY <1>1 DEF HeapInv
  <2>2. PICK k : Spells(heap, k)
    BY <1>1 DEF HeapInv
  <2> SUFFICES ASSUME NEW p \in Nodes
               PROVE  /\ Len(KidsBack(p)) = Len(Kids(p))
                      /\ \A i \in DOMAIN Kids(p) :
                           Kids(p)[i] = KidsBack(p)[Len(Kids(p)) + 1 - i]
                      /\ Len(Kids(p)) = Cardinality(Below(p) \ Pending)
                      /\ Range(Kids(p)) = Below(p) \ Pending
    BY DEF WalksAgree
  <2> DEFINE s == k[p]
             b == KidsBack(p)
  <2>3. /\ s \in Seq(Nodes) /\ Len(s) \in Nat /\ Kids(p) = s
        /\ b = IF Len(s) = 0 THEN <<>> ELSE Back(s, Len(s))
        /\ Len(s) = Cardinality(Below(p) \ Pending)
        /\ Range(s) = Below(p) \ Pending
    <3>1. s \in Seq(Nodes) /\ Len(s) \in Nat
      BY <2>2, ListFacts DEF PlacesOK
    <3>2. Kids(p) = s /\ b = IF Len(s) = 0 THEN <<>> ELSE Back(s, Len(s))
      BY <2>1, <2>2, KidsSpelt
    <3>3. Len(s) = Cardinality(Below(p) \ Pending) /\ Range(s) = Below(p) \ Pending
      BY <2>2, ListsFit
    <3> QED BY <3>1, <3>2, <3>3
  <2> HIDE DEF s, b
  <2>4. Len(b) = Len(s) /\ \A i \in 1..Len(s) : s[i] = b[Len(s) + 1 - i]
    <3>1. CASE Len(s) = 0
      <4>1. b = <<>> /\ Len(b) = Len(s)
        BY <2>3, <3>1
      <4>2. \A i \in 1..Len(s) : FALSE
        BY <3>1
      <4> QED BY <4>1, <4>2
    <3>2. CASE Len(s) # 0
      <4>1. Len(s) \in 1..Len(s)
        BY <2>3, <3>2
      <4>2. Len(b) = Len(s) /\ \A u \in 1..Len(s) : b[u] = s[(Len(s) + 1) - u]
        BY <2>3, <3>2, <4>1, BackFacts
      <4>3. \A i \in 1..Len(s) : /\ (Len(s) + 1) - i \in 1..Len(s)
                                 /\ (Len(s) + 1) - ((Len(s) + 1) - i) = i
        BY <2>3
      <4> QED BY <4>2, <4>3
    <3> QED BY <3>1, <3>2
  <2>5. DOMAIN s = 1..Len(s)
    BY <2>3
  <2> QED BY <2>3, <2>4, <2>5 DEF b
<1> QED BY <1>1, HeapAlways, PTL

-----------------------------------------------------------------------------
(* The refinement. With the lists k that the pointers spell, the forest of    *)
(* DomTree is k, and each operation edits it as DomTree says.                 *)

Forest == [n \in Nodes |-> Kids(n)]
ForestIsSpelt == \A k : TypeOK /\ Spells(heap, k) => Forest = k

LEMMA ForestSpelt == ForestIsSpelt
<1> SUFFICES ASSUME NEW k, TypeOK, Spells(heap, k)
             PROVE  Forest = k
  BY DEF ForestIsSpelt
<1>1. k \in [Nodes -> Seq(Nodes)]
  BY DEF Spells, Lists
<1>2. \A n \in Nodes : Kids(n) = k[n]
  BY KidsSpelt
<1> QED BY <1>1, <1>2 DEF Forest

LEMMA ForestSteps ==
  ASSUME NEW k, NEW kk, Forest = k, Forest' = kk, Tree!Step(k, kk)
  PROVE  Tree!Next
BY DEF Tree!Next, Forest

(* What is below a node by the lists is below it by the parent fields.        *)
LEMMA TreeWithin ==
  ASSUME NEW k, Spells(heap, k), NEW t \in Nodes
  PROVE  Tree!TreeOf(k, t) \subseteq Subtree(t)
<1> DEFINE S == Subtree(t)
<1>1. /\ S \in SUBSET Nodes /\ t \in S
      /\ \A n \in Nodes : parent[n] \in S => n \in S
  BY SubtreeFacts
<1>2. ASSUME NEW m \in S
      PROVE  Tree!Range(k[m]) \subseteq S
  <2>1. m \in Nodes
    BY <1>1
  <2>2. Range(k[m]) = Below(m) \ Pending
    BY <2>1, ListsFit
  <2>3. Below(m) \subseteq S
    BY <1>1 DEF Below
  <2> QED BY <2>2, <2>3 DEF Range, Tree!Range
<1> HIDE DEF S
<1>3. Tree!TreeOf(k, t) \subseteq S
  BY <1>1, <1>2 DEF Tree!TreeOf
<1> QED BY <1>3 DEF S

LEMMA TreeIsSubtree ==
  ASSUME NEW k, Spells(heap, k), Pending = {}, NEW t \in Nodes
  PROVE  Tree!TreeOf(k, t) = Subtree(t)
<1>1. ASSUME NEW S \in SUBSET Nodes, \A m \in S : Tree!Range(k[m]) \subseteq S
      PROVE  Closed(S)
  <2> SUFFICES ASSUME NEW n \in Nodes, parent[n] \in S
               PROVE  n \in S
    BY DEF Closed
  <2>1. Range(k[parent[n]]) = Below(parent[n]) \ Pending
    BY ListsFit
  <2>2. n \in Below(parent[n])
    BY DEF Below
  <2> QED BY <1>1, <2>1, <2>2 DEF Range, Tree!Range
<1>2. Subtree(t) \subseteq Tree!TreeOf(k, t)
  BY <1>1 DEF Subtree, Tree!TreeOf
<1> QED BY <1>2, TreeWithin

LEMMA RootsOutside ==
  ASSUME NEW k, Spells(heap, k), NEW n \in Live, parent[n] = Null \/ n \in Pending
  PROVE  n \in Tree!Roots(k)
<1>1. \A p \in Nodes : n \notin Tree!Range(k[p])
  <2> TAKE p \in Nodes
  <2>1. Range(k[p]) = Below(p) \ Pending
    BY ListsFit
  <2> QED BY <2>1, NullAssumption DEF Below, Range, Tree!Range
<1> QED BY <1>1 DEF Tree!Roots, Tree!Free, Live, Free

(* The operators of DomTree on sequences and copies are those of the lists.   *)
IsInserted(t, s, i, n) ==
    /\ t \in Seq(Nodes) /\ Len(t) = Len(s) + 1
    /\ \A j \in 1..(Len(s) + 1) :
         t[j] = IF j < i THEN s[j] ELSE IF j = i THEN n ELSE s[j - 1]

LEMMA InsertedAt ==
  ASSUME NEW s \in Seq(Nodes), NEW i \in 1..(Len(s) + 1), NEW n \in Nodes
  PROVE  IsInserted(Inserted(s, i, n), s, i, n)
<1> DEFINE t == Inserted(s, i, n)
<1>1. /\ t \in Seq(Nodes) /\ Len(t) = Len(s) + 1
      /\ \A j \in 1..(Len(s) + 1) :
           t[j] = IF j < i THEN s[j] ELSE IF j = i THEN n ELSE s[j - 1]
  BY InsertedFacts
<1> HIDE DEF t
<1>2. IsInserted(t, s, i, n)
  BY <1>1 DEF IsInserted
<1> QED BY <1>2 DEF t

LEMMA AppendedIs ==
  ASSUME NEW s \in Seq(Nodes), NEW n \in Nodes
  PROVE  Inserted(s, Len(s) + 1, n) = Append(s, n)
<1>1. Len(s) \in Nat /\ Len(s) + 1 \in 1..(Len(s) + 1)
  OBVIOUS
<1>2. /\ Inserted(s, Len(s) + 1, n) \in Seq(Nodes)
      /\ Len(Inserted(s, Len(s) + 1, n)) = Len(s) + 1
      /\ \A j \in 1..(Len(s) + 1) : Inserted(s, Len(s) + 1, n)[j]
           = IF j < Len(s) + 1 THEN s[j] ELSE IF j = Len(s) + 1 THEN n ELSE s[j - 1]
  <2> DEFINE i == Len(s) + 1
  <2>1. i \in 1..(Len(s) + 1)
    BY <1>1
  <2> HIDE DEF i
  <2>2. IsInserted(Inserted(s, i, n), s, i, n)
    BY <2>1, InsertedAt
  <2> QED BY <2>2 DEF IsInserted, i
<1>3. /\ Append(s, n) \in Seq(Nodes) /\ Len(Append(s, n)) = Len(s) + 1
      /\ \A j \in 1..(Len(s) + 1) : Append(s, n)[j] = IF j < Len(s) + 1 THEN s[j] ELSE n
  BY <1>1
<1>4. \A j \in 1..(Len(s) + 1) : Inserted(s, Len(s) + 1, n)[j] = Append(s, n)[j]
  BY <1>1, <1>2, <1>3
<1> QED BY <1>2, <1>3, <1>4, SameSequence

LEMMA InsertedIs ==
  ASSUME NEW s \in Seq(Nodes), NEW i \in 1..(Len(s) + 1), NEW n \in Nodes
  PROVE  Tree!InsertAt(s, i, n) = Inserted(s, i, n)
<1> DEFINE a == SubSeq(s, 1, i - 1)
           b == SubSeq(s, i, Len(s))
<1>1. Len(s) \in Nat /\ i \in Nat
  OBVIOUS
<1>2. a \in Seq(Nodes) /\ Len(a) = i - 1 /\ \A j \in 1..(i - 1) : a[j] = s[j]
  BY <1>1
<1>3. b \in Seq(Nodes) /\ Len(b) = (Len(s) + 1) - i
      /\ \A j \in 1..((Len(s) + 1) - i) : b[j] = s[(i - 1) + j]
  BY <1>1
<1> HIDE DEF a, b
<1>4. /\ a \o <<n>> \in Seq(Nodes) /\ Len(a \o <<n>>) = i
      /\ \A j \in 1..i : (a \o <<n>>)[j] = IF j < i THEN s[j] ELSE n
  BY <1>1, <1>2
<1> DEFINE t == (a \o <<n>>) \o b
<1>5. /\ t \in Seq(Nodes) /\ Len(t) = Len(s) + 1
      /\ \A j \in 1..(Len(s) + 1) :
           t[j] = IF j <= i THEN (a \o <<n>>)[j] ELSE b[j - i]
  BY <1>1, <1>3, <1>4
<1> HIDE DEF t
<1>6. /\ Inserted(s, i, n) \in Seq(Nodes) /\ Len(Inserted(s, i, n)) = Len(s) + 1
      /\ \A j \in 1..(Len(s) + 1) : Inserted(s, i, n)[j]
           = IF j < i THEN s[j] ELSE IF j = i THEN n ELSE s[j - 1]
  BY InsertedFacts
<1>7. ASSUME NEW j \in 1..(Len(s) + 1)
      PROVE  t[j] = Inserted(s, i, n)[j]
  <2>1. CASE j <= i
    <3>1. j \in 1..i /\ (j < i \/ j = i)
      BY <1>1, <2>1
    <3>2. t[j] = IF j < i THEN s[j] ELSE n
      BY <1>4, <1>5, <2>1, <3>1
    <3> QED BY <1>6, <3>1, <3>2
  <2>2. CASE ~(j <= i)
    <3>1. j - i \in 1..((Len(s) + 1) - i) /\ (i - 1) + (j - i) = j - 1
      BY <1>1, <2>2
    <3>2. t[j] = s[j - 1]
      BY <1>3, <1>5, <2>2, <3>1
    <3>3. ~(j < i) /\ j # i
      BY <1>1, <2>2
    <3> QED BY <1>6, <3>2, <3>3
  <2> QED BY <2>1, <2>2
<1>8. t = Inserted(s, i, n)
  BY <1>5, <1>6, <1>7, SameSequence
<1> QED BY <1>8 DEF Tree!InsertAt, t, a, b

LEMMA DroppedIs ==
  ASSUME NEW s \in Seq(Nodes), NEW i \in 1..Len(s)
  PROVE  Tree!RemoveAt(s, i) = Dropped(s, i)
<1> DEFINE a == SubSeq(s, 1, i - 1)
           b == SubSeq(s, i + 1, Len(s))
           t == a \o b
<1>1. Len(s) \in Nat /\ i \in Nat
  OBVIOUS
<1>2. a \in Seq(Nodes) /\ Len(a) = i - 1 /\ \A j \in 1..(i - 1) : a[j] = s[j]
  BY <1>1
<1>3. b \in Seq(Nodes) /\ Len(b) = Len(s) - i
      /\ \A j \in 1..(Len(s) - i) : b[j] = s[i + j]
  BY <1>1
<1> HIDE DEF a, b
<1>5. /\ t \in Seq(Nodes) /\ Len(t) = Len(s) - 1
      /\ \A j \in 1..(Len(s) - 1) : t[j] = IF j <= i - 1 THEN a[j] ELSE b[j - (i - 1)]
  <2>0. a \in Seq(Nodes) /\ b \in Seq(Nodes)
    BY <1>2, <1>3
  <2>1. /\ t \in Seq(Nodes) /\ Len(t) = Len(a) + Len(b)
        /\ \A j \in 1..(Len(a) + Len(b)) :
             t[j] = IF j <= Len(a) THEN a[j] ELSE b[j - Len(a)]
    BY <2>0
  <2>2. Len(a) + Len(b) = Len(s) - 1
    BY <1>1, <1>2, <1>3
  <2> QED BY <1>2, <2>1, <2>2
<1> HIDE DEF t
<1>6. /\ Dropped(s, i) \in Seq(Nodes) /\ Len(Dropped(s, i)) = Len(s) - 1
      /\ \A j \in 1..(Len(s) - 1) :
           Dropped(s, i)[j] = IF j < i THEN s[j] ELSE s[j + 1]
  BY DroppedFacts
<1>7. ASSUME NEW j \in 1..(Len(s) - 1)
      PROVE  t[j] = Dropped(s, i)[j]
  <2>1. CASE j < i
    <3>1. j \in 1..(i - 1) /\ j <= i - 1
      BY <1>1, <2>1
    <3> QED BY <1>2, <1>5, <1>6, <2>1, <3>1
  <2>2. CASE ~(j < i)
    <3>1. j - (i - 1) \in 1..(Len(s) - i) /\ i + (j - (i - 1)) = j + 1 /\ ~(j <= i - 1)
      BY <1>1, <2>2
    <3>2. t[j] = s[j + 1]
      BY <1>3, <1>5, <3>1
    <3> QED BY <1>6, <2>2, <3>2
  <2> QED BY <2>1, <2>2
<1>8. t = Dropped(s, i)
  BY <1>1, <1>5, <1>6, <1>7, SameSequence
<1> QED BY <1>8 DEF Tree!RemoveAt, t, a, b

(* The copy inserted, and the old child behind it dropped.                    *)
LEMMA SwappedIs ==
  ASSUME NEW s \in Seq(Nodes), NEW i \in 1..Len(s), NEW n \in Nodes
  PROVE  Dropped(Inserted(s, i, n), i + 1) = [s EXCEPT ![i] = n]
<1> DEFINE t == Inserted(s, i, n)
           j == i + 1
<1>1. Len(s) \in Nat /\ i \in Nat /\ i \in 1..(Len(s) + 1)
  OBVIOUS
<1>2. /\ t \in Seq(Nodes) /\ Len(t) = Len(s) + 1
      /\ \A u \in 1..(Len(s) + 1) : t[u]
           = IF u < i THEN s[u] ELSE IF u = i THEN n ELSE s[u - 1]
  BY <1>1, InsertedFacts
<1> HIDE DEF t
<1>3. j \in 1..Len(t) /\ Len(t) - 1 = Len(s)
  BY <1>1, <1>2
<1>4. /\ Dropped(t, j) \in Seq(Nodes) /\ Len(Dropped(t, j)) = Len(t) - 1
      /\ \A u \in 1..(Len(t) - 1) : Dropped(t, j)[u] = IF u < j THEN t[u] ELSE t[u + 1]
  <2> HIDE DEF j
  <2> QED BY <1>2, <1>3, DroppedFacts
<1>5. /\ [s EXCEPT ![i] = n] \in Seq(Nodes) /\ Len([s EXCEPT ![i] = n]) = Len(s)
      /\ \A u \in 1..Len(s) : [s EXCEPT ![i] = n][u] = IF u = i THEN n ELSE s[u]
  BY <1>1
<1>6. ASSUME NEW u \in 1..Len(s)
      PROVE  Dropped(t, j)[u] = [s EXCEPT ![i] = n][u]
  <2>0. u \in 1..(Len(t) - 1) /\ u \in 1..(Len(s) + 1)
    BY <1>1, <1>3
  <2>1. CASE u < j
    <3>1. Dropped(t, j)[u] = t[u]
      BY <1>4, <2>0, <2>1
    <3>2. u < i \/ u = i
      BY <1>1, <2>1
    <3>3. t[u] = IF u = i THEN n ELSE s[u]
      BY <1>1, <1>2, <2>0, <3>2
    <3> QED BY <1>5, <3>1, <3>3
  <2>2. CASE ~(u < j)
    <3>1. Dropped(t, j)[u] = t[u + 1]
      BY <1>4, <2>0, <2>2
    <3>2. u + 1 \in 1..(Len(s) + 1) /\ ~(u + 1 < i) /\ u + 1 # i /\ u # i /\ (u + 1) - 1 = u
      BY <1>1, <2>2
    <3>3. t[u + 1] = s[u]
      BY <1>2, <3>2
    <3> QED BY <1>5, <3>1, <3>2, <3>3
  <2> QED BY <2>1, <2>2
<1>7. Dropped(t, j) = [s EXCEPT ![i] = n]
  <2> HIDE DEF j
  <2> QED BY <1>3, <1>4, <1>5, <1>6, SameSequence
<1> QED BY <1>7 DEF t

LEMMA CopyIs ==
  ASSUME NEW k, Spells(heap, k), NEW a \in Nodes, NEW at \in Clone(a)
  PROVE  /\ Tree!Copy(k, at) = CopiedKids(k, Subtree(a), at)
         /\ \A D : Tree!KindAfter(at, D) = FreedKind(CopiedKind(at), D)
<1>1. /\ DOMAIN at = Subtree(a) /\ Subtree(a) \subseteq Nodes
      /\ k \in [Nodes -> Seq(Nodes)]
  BY CloneCopies, SubtreeFacts DEF Spells, Lists
<1>2. \A n : n \in Tree!Range(at) <=> n \in Image(Subtree(a), at)
  BY <1>1 DEF Tree!Range, Image
<1>3. \A n : Tree!Origin(at, n) = CHOOSE o \in Subtree(a) : at[o] = n
  BY <1>1 DEF Tree!Origin
<1>4. \A n \in Image(Subtree(a), at) : (CHOOSE o \in Subtree(a) : at[o] = n) \in Nodes
  BY <1>1 DEF Image
<1>5. \A m \in Nodes : DOMAIN k[m] = 1..Len(k[m])
  BY <1>1
<1>6. Tree!Copy(k, at) = CopiedKids(k, Subtree(a), at)
  <2> DEFINE o(n) == CHOOSE o \in Subtree(a) : at[o] = n
  <2>1. \A n \in Nodes : Tree!Copy(k, at)[n] = IF n \in Image(Subtree(a), at)
                           THEN [i \in DOMAIN k[o(n)] |-> at[k[o(n)][i]]] ELSE k[n]
    BY <1>2, <1>3 DEF Tree!Copy
  <2>2. \A n \in Nodes : CopiedKids(k, Subtree(a), at)[n] = IF n \in Image(Subtree(a), at)
                           THEN [i \in 1..Len(k[o(n)]) |-> at[k[o(n)][i]]] ELSE k[n]
    BY DEF CopiedKids
  <2>3. \A n \in Image(Subtree(a), at) : o(n) \in Nodes
    BY <1>4
  <2> HIDE DEF o
  <2>4. \A n \in Nodes : Tree!Copy(k, at)[n] = CopiedKids(k, Subtree(a), at)[n]
    BY <1>5, <2>1, <2>2, <2>3
  <2>5. /\ Tree!Copy(k, at) = [n \in Nodes |-> Tree!Copy(k, at)[n]]
        /\ CopiedKids(k, Subtree(a), at) = [n \in Nodes |-> CopiedKids(k, Subtree(a), at)[n]]
    BY DEF Tree!Copy, CopiedKids
  <2> QED BY <2>4, <2>5
<1>7. ASSUME NEW D
      PROVE  Tree!KindAfter(at, D) = FreedKind(CopiedKind(at), D)
  <2>1. \A n : n \in Tree!Range(at) <=> \E m \in DOMAIN at : at[m] = n
    BY DEF Tree!Range
  <2>2. \A n \in Nodes : FreedKind(CopiedKind(at), D)[n] = Tree!KindAfter(at, D)[n]
    BY <2>1 DEF Tree!KindAfter, Tree!Origin, FreedKind, CopiedKind
  <2>3. /\ FreedKind(CopiedKind(at), D) = [n \in Nodes |-> FreedKind(CopiedKind(at), D)[n]]
        /\ Tree!KindAfter(at, D) = [n \in Nodes |-> Tree!KindAfter(at, D)[n]]
    BY DEF Tree!KindAfter, FreedKind
  <2> QED BY <2>2, <2>3
<1> QED BY <1>6, <1>7

-----------------------------------------------------------------------------
(* Operation by operation.                                                    *)

LEMMA MakeSteps ==
  ASSUME NEW k, Forest = k, Forest' = k, NEW n \in Nodes, kind[n] = "free",
         NEW kd \in Kinds, kd # "free", kind' = [kind EXCEPT ![n] = kd]
  PROVE  Tree!Next
<1>1. Tree!Make(k, k, n, kd) /\ n \in Tree!Free /\ kd \in {"document", "element", "text"}
  BY DEF Tree!Make, Tree!Free, Kinds
<1>2. Tree!Step(k, k)
  BY <1>1 DEF Tree!Step
<1> QED BY <1>2, ForestSteps

LEMMA AppendedFacts ==
  ASSUME NEW k, Spells(heap, k), NEW p \in Nodes, NEW n \in Nodes
  PROVE  /\ Appended(k, p, n) = [k EXCEPT ![p] = Append(@, n)]
         /\ k[p] # Appended(k, p, n)[p]
<1>1. k \in [Nodes -> Seq(Nodes)] /\ k[p] \in Seq(Nodes)
  BY DEF Spells, Lists
<1>2. Inserted(k[p], Len(k[p]) + 1, n) = Append(k[p], n)
  BY <1>1, AppendedIs
<1>3. Append(k[p], n) # k[p]
  <2>1. Len(Append(k[p], n)) = Len(k[p]) + 1 /\ Len(k[p]) \in Nat
    BY <1>1
  <2> QED BY <2>1
<1> QED BY <1>1, <1>2, <1>3 DEF Appended

LEMMA AttachSteps ==
  ASSUME NEW k, Spells(heap, k), Forest = k, NEW p \in Nodes, NEW n \in Live,
         Forest' = Appended(k, p, n), kind' = kind,
         parent[n] = Null \/ n \in Pending, p \notin Subtree(n)
  PROVE  Tree!Next
<1>0. n \in Nodes
  BY DEF Live
<1>1. n \in Tree!Roots(k) /\ p \notin Tree!TreeOf(k, n)
  BY <1>0, RootsOutside, TreeWithin
<1>2. /\ Appended(k, p, n) = [k EXCEPT ![p] = Append(@, n)]
      /\ p \in {q \in Nodes : k[q] # Appended(k, p, n)[q]}
  BY <1>0, AppendedFacts
<1>3. Tree!Attach(k, Appended(k, p, n), p, n)
  BY <1>1, <1>2 DEF Tree!Attach
<1>4. Tree!Step(k, Appended(k, p, n))
  BY <1>0, <1>2, <1>3 DEF Tree!Step
<1> QED BY <1>4, ForestSteps

LEMMA MakeLastSteps ==
  ASSUME NEW k, Spells(heap, k), Forest = k, NEW p \in Nodes, NEW n \in Nodes,
         kind[n] = "free", Forest' = Appended(k, p, n),
         kind' = [kind EXCEPT ![n] = "text"]
  PROVE  Tree!Next
<1>2. /\ Appended(k, p, n) = [k EXCEPT ![p] = Append(@, n)]
      /\ p \in {q \in Nodes : k[q] # Appended(k, p, n)[q]}
  BY AppendedFacts
<1>3. Tree!MakeLast(k, Appended(k, p, n), p, n) /\ n \in Tree!Free
  BY <1>2 DEF Tree!MakeLast, Tree!Free
<1>4. Tree!Step(k, Appended(k, p, n))
  BY <1>2, <1>3 DEF Tree!Step
<1> QED BY <1>4, ForestSteps

LEMMA DeleteSteps ==
  ASSUME NEW k, Spells(heap, k), Pending = {}, Forest = k, NEW n \in Live,
         parent[n] = Null, Forest' = Deleted(k, Subtree(n)), DeleteTree(n)
  PROVE  Tree!Next
<1>0. n \in Nodes
  BY DEF Live
<1>1. n \in Tree!Roots(k) /\ Tree!TreeOf(k, n) = Subtree(n)
  BY <1>0, RootsOutside, TreeIsSubtree
<1>2. kind' = Tree!KindWithout(Subtree(n))
  BY DEF DeleteTree, FreedKind, Tree!KindWithout
<1>3. Deleted(k, Subtree(n)) = Tree!Without(k, Subtree(n))
  BY DEF Deleted, Tree!Without
<1>4. Tree!Delete(k, Deleted(k, Subtree(n)), n)
  BY <1>1, <1>2, <1>3 DEF Tree!Delete
<1>5. Tree!Step(k, Deleted(k, Subtree(n)))
  BY <1>0, <1>4 DEF Tree!Step
<1> QED BY <1>5, ForestSteps

LEMMA RemoveSteps ==
  ASSUME NEW k, Spells(heap, k), Pending = {}, Forest = k, NEW p \in Nodes, NEW r \in Nodes,
         RemoveChild(p, r), NEW i \in 1..Len(k[p]), k[p][i] = r,
         Forest' = Deleted([k EXCEPT ![p] = Dropped(k[p], i)], Subtree(r))
  PROVE  Tree!Next
<1> DEFINE D == Subtree(r)
           s == Dropped(k[p], i)
           kk == Deleted([k EXCEPT ![p] = s], D)
<1>1. /\ k \in [Nodes -> Seq(Nodes)] /\ k[p] \in Seq(Nodes) /\ Len(k[p]) \in Nat
      /\ parent[r] = p
  BY DEF Spells, Lists, RemoveChild
<1>2. Tree!TreeOf(k, k[p][i]) = D /\ p \notin D
  BY <1>1, TreeIsSubtree, SubtreeRoot
<1>3. kind' = Tree!KindWithout(D)
  BY DEF RemoveChild, FreedKind, Tree!KindWithout
<1>4. Tree!RemoveAt(k[p], i) = s /\ Len(s) = Len(k[p]) - 1
  BY <1>1, DroppedIs, DroppedFacts
<1> HIDE DEF s, D
<1>5. kk = [Tree!Without(k, D) EXCEPT ![p] = s]
  BY <1>1, <1>2 DEF Deleted, Tree!Without
<1>6. kk[p] # k[p]
  BY <1>1, <1>2, <1>4 DEF Deleted
<1> HIDE DEF kk
<1>7. Tree!RemoveChild(k, kk, p, i)
  BY <1>2, <1>3, <1>4, <1>5 DEF Tree!RemoveChild
<1>8. Tree!Step(k, kk)
  BY <1>6, <1>7 DEF Tree!Step
<1>9. Forest' = kk
  BY DEF kk, s, D
<1> QED BY <1>8, <1>9, ForestSteps

(* Nothing happens if there was no child.                                     *)
LEMMA ClearSteps ==
  ASSUME TypeOK, NEW k, Spells(heap, k), Pending = {}, Forest = k, NEW p \in Nodes, Clear(p),
         Forest' = Deleted([k EXCEPT ![p] = <<>>], Subtree(p) \ {p})
  PROVE  Tree!Next \/ UNCHANGED <<kind, Forest>>
<1> DEFINE D == Subtree(p) \ {p}
           kk == Deleted([k EXCEPT ![p] = <<>>], D)
<1>1. k \in [Nodes -> Seq(Nodes)] /\ p \notin D
  BY DEF Spells, Lists
<1>2. Tree!TreeOf(k, p) = Subtree(p)
  BY TreeIsSubtree
<1>3. kind' = Tree!KindWithout(D)
  BY DEF Clear, FreedKind, Tree!KindWithout
<1>4. Tree!TreeOf(k, p) \ {p} = D
  BY <1>2
<1>0. Forest' = kk
  OBVIOUS
<1>5. CASE k[p] # <<>>
  <2> HIDE DEF D
  <2>1. kk = [Tree!Without(k, D) EXCEPT ![p] = <<>>] /\ kk[p] = <<>>
    BY <1>1 DEF Deleted, Tree!Without
  <2> HIDE DEF kk
  <2>2. Tree!Clear(k, kk, p)
    BY <1>3, <1>4, <2>1 DEF Tree!Clear
  <2>3. Tree!Step(k, kk)
    BY <1>5, <2>1, <2>2 DEF Tree!Step
  <2> QED BY <1>0, <2>3, ForestSteps
<1>6. CASE k[p] = <<>>
  <2>1. D = {}
    <3>1. Range(k[p]) = Below(p) \ Pending
      BY ListsFit
    <3>2. Below(p) = {}
      BY <1>6, <3>1 DEF Range
    <3>3. Closed({p})
      BY <3>2 DEF Closed, Below
    <3> QED BY <3>3, SubtreeLeast
  <2> HIDE DEF D
  <2>2. \A n \in Nodes : kk[n] = k[n]
    BY <1>1, <1>6, <2>1 DEF Deleted
  <2>3. kk = [n \in Nodes |-> kk[n]]
    BY DEF Deleted
  <2>4. kk = k
    BY <1>1, <2>2, <2>3
  <2>5. kind' = kind
    BY <1>3, <2>1 DEF Tree!KindWithout, TypeOK
  <2> QED BY <1>0, <2>4, <2>5
<1> QED BY <1>5, <1>6

LEMMA InsertSteps ==
  ASSUME NEW k, Spells(heap, k), Pending = {}, Forest = k, NEW p \in Live, NEW a \in Live,
         NEW at \in Clone(a), NEW i \in 1..(Len(k[p]) + 1),
         kind' = FreedKind(CopiedKind(at), {}),
         Forest' = Placed(k, a, at, p, Inserted(k[p], i, at[a]))
  PROVE  Tree!Next
<1> DEFINE s == Inserted(k[p], i, at[a])
           c == CopiedKids(k, Subtree(a), at)
           kk == [c EXCEPT ![p] = s]
<1>1. /\ k \in [Nodes -> Seq(Nodes)] /\ k[p] \in Seq(Nodes) /\ Len(k[p]) \in Nat
      /\ p \in Nodes /\ a \in Nodes
  BY DEF Spells, Lists, Live
<1>0. /\ Spells(CopiedHeap(at), c) /\ at[a] \in Nodes /\ at[a] \notin Live
      /\ \A m \in Live : c[m] = k[m]
  BY CloneSpells
<1> HIDE DEF c
<1>2. /\ at[a] \in Nodes /\ at[a] \notin Live
      /\ c[p] = k[p] /\ c \in [Nodes -> Seq(Nodes)]
  BY <1>0 DEF Spells, Lists
<1>3. Tree!TreeOf(k, a) = Subtree(a)
  BY <1>1, TreeIsSubtree
<1>4. at \in Tree!Injection(Tree!TreeOf(k, a), Tree!Free)
  BY <1>3 DEF Clone, Injection, IsInjective, Tree!Injection, Tree!IsInjective, Free, Tree!Free
<1>5. Tree!Copy(k, at) = c /\ kind' = Tree!KindAfter(at, {})
  BY <1>1, CopyIs DEF c
<1>6. Tree!InsertAt(k[p], i, at[a]) = s /\ Len(s) = Len(k[p]) + 1
  <2> DEFINE t == k[p]
             n == at[a]
  <2>1. t \in Seq(Nodes) /\ n \in Nodes /\ i \in 1..(Len(t) + 1)
    BY <1>1, <1>2
  <2> HIDE DEF t, n
  <2>2. Tree!InsertAt(t, i, n) = Inserted(t, i, n)
    BY <2>1, InsertedIs
  <2>3. Len(Inserted(t, i, n)) = Len(t) + 1
    BY <2>1, InsertedFacts
  <2> QED BY <2>2, <2>3 DEF t, n
<1>7. Forest' = kk
  BY DEF Placed, c
<1> HIDE DEF s
<1>8. kk = [Tree!Copy(k, at) EXCEPT ![p] = Tree!InsertAt(@, i, at[a])]
  BY <1>1, <1>2, <1>5, <1>6
<1>9. kk[p] # k[p]
  BY <1>1, <1>2, <1>6
<1> HIDE DEF kk
<1>10. Tree!InsertCopy(k, kk, p, i, a)
  BY <1>4, <1>5, <1>8 DEF Tree!InsertCopy
<1>11. p \in {q \in Nodes : k[q] # kk[q]} \ Tree!Free /\ a \in Nodes \ Tree!Free
  BY <1>1, <1>9 DEF Tree!Free, Live, Free
<1>12. Tree!Step(k, kk)
  BY <1>10, <1>11 DEF Tree!Step
<1> QED BY <1>7, <1>12, ForestSteps

LEMMA ReplaceSteps ==
  ASSUME NEW k, Spells(heap, k), Pending = {}, Forest = k, NEW p \in Live, NEW r \in Nodes,
         parent[r] = p, NEW a \in Live, NEW at \in Clone(a), NEW i \in 1..Len(k[p]),
         k[p][i] = r, kind' = FreedKind(CopiedKind(at), Subtree(r)),
         Forest' = Deleted(Placed(k, a, at, p, Dropped(Inserted(k[p], i, at[a]), i + 1)),
                           Subtree(r))
  PROVE  Tree!Next
<1> DEFINE D == Subtree(r)
           s == [k[p] EXCEPT ![i] = at[a]]
           c == CopiedKids(k, Subtree(a), at)
           kk == Deleted([c EXCEPT ![p] = s], D)
<1>1. /\ k \in [Nodes -> Seq(Nodes)] /\ k[p] \in Seq(Nodes) /\ Len(k[p]) \in Nat
      /\ p \in Nodes /\ a \in Nodes
  BY DEF Spells, Lists, Live
<1>0. /\ Spells(CopiedHeap(at), c) /\ at[a] \in Nodes /\ at[a] \notin Live
      /\ \A m \in Live : c[m] = k[m]
  BY CloneSpells
<1> HIDE DEF c
<1>2. /\ at[a] \in Nodes /\ at[a] \notin Live
      /\ c[p] = k[p] /\ c \in [Nodes -> Seq(Nodes)]
  BY <1>0 DEF Spells, Lists
<1>3. /\ Tree!TreeOf(k, a) = Subtree(a) /\ Tree!TreeOf(k, k[p][i]) = D
      /\ p \notin D
  BY <1>1, TreeIsSubtree, SubtreeRoot
<1>4. at \in Tree!Injection(Tree!TreeOf(k, a), Tree!Free)
  BY <1>3 DEF Clone, Injection, IsInjective, Tree!Injection, Tree!IsInjective, Free, Tree!Free
<1>5. Tree!Copy(k, at) = c /\ kind' = Tree!KindAfter(at, D)
  BY <1>1, CopyIs DEF c
<1>6. Dropped(Inserted(k[p], i, at[a]), i + 1) = s
  BY <1>1, <1>2, SwappedIs
<1>7. Forest' = kk
  BY <1>6 DEF Placed, c
<1>8. r \in Live
  BY <1>1, ParentsLive, NullAssumption
<1>9. s # k[p]
  <2>1. s[i] = at[a] /\ k[p][i] = r
    BY <1>1
  <2> HIDE DEF s
  <2> QED BY <1>2, <1>8, <2>1
<1> HIDE DEF s, D
<1>10. kk = [Tree!Without(Tree!Copy(k, at), D) EXCEPT ![p] = s]
  BY <1>1, <1>2, <1>3, <1>5 DEF Deleted, Tree!Without
<1>11. kk[p] = s
  BY <1>1, <1>2, <1>3 DEF Deleted
<1> HIDE DEF kk
<1>12. Tree!ReplaceByCopy(k, kk, p, i, a)
  BY <1>3, <1>4, <1>5, <1>10 DEF Tree!ReplaceByCopy, s
<1>13. p \in {q \in Nodes : k[q] # kk[q]} \ Tree!Free /\ a \in Nodes \ Tree!Free
  BY <1>1, <1>9, <1>11 DEF Tree!Free, Live, Free
<1>14. Tree!Step(k, kk)
  BY <1>12, <1>13 DEF Tree!Step
<1> QED BY <1>7, <1>14, ForestSteps

LEMMA ForestAfter ==
  ASSUME TypeOK', ForestIsSpelt', NEW kk, Spells(heap', kk)
  PROVE  Forest' = kk
BY DEF ForestIsSpelt

(* Each action is an edit of the forest, or nothing that DomTree can see.     *)
LEMMA TreeStep ==
  ASSUME HeapInv, TypeOK', ForestIsSpelt, ForestIsSpelt', [Next]_vars
  PROVE  Tree!Next \/ UNCHANGED <<kind, Forest>>
<1>1. TypeOK /\ ReadingOK
  BY DEF HeapInv
<1>2. PICK k : Spells(heap, k)
  BY DEF HeapInv
<1>3. Forest = k
  BY <1>1, <1>2 DEF ForestIsSpelt
<1>4. \A kk : Spells(heap', kk) => Forest' = kk
  BY ForestAfter
<1>5. ASSUME heap' = heap
      PROVE  UNCHANGED <<kind, Forest>>
  <2>1. Forest' = k
    BY <1>2, <1>4, <1>5
  <2>2. kind' = kind
    BY <1>5, HeapFields, HeapPrimed
  <2> QED BY <1>3, <2>1, <2>2
<1>6. ASSUME reading = <<>>
      PROVE  Pending = {}
  BY <1>6, NoPending
<1>7. \A n \in Nodes : kind[n] # "free" <=> n \in Live
  BY DEF Live, Free
<1>8. ASSUME NEW n \in Nodes, NEW kd \in Kinds, New(n, kd)
      PROVE  Tree!Next
  <2>1. kind[n] = "free" /\ kd # "free" /\ kind' = [kind EXCEPT ![n] = kd]
    BY <1>8 DEF New
  <2>2. Forest' = k
    BY <1>1, <1>2, <1>4, <1>8, NewSpells
  <2> QED BY <1>3, <2>1, <2>2, MakeSteps
<1>9. ASSUME NEW p \in Nodes, NEW n \in Nodes, LinkEndChild(p, n)
      PROVE  Tree!Next
  <2>1. reading = <<>> /\ n \in Live /\ parent[n] = Null /\ p \notin Subtree(n)
    BY <1>9 DEF LinkEndChild
  <2>2. Forest' = IF kind[n] = "document" THEN Deleted(k, Subtree(n)) ELSE Appended(k, p, n)
    BY <1>1, <1>2, <1>4, <1>9, LinkEndSpells
  <2>3. CASE kind[n] = "document"
    <3>1. DeleteTree(n)
      BY <1>9, <2>3 DEF LinkEndChild
    <3>2. Forest' = Deleted(k, Subtree(n)) /\ Pending = {}
      BY <1>6, <2>1, <2>2, <2>3
    <3> QED BY <1>2, <1>3, <2>1, <3>1, <3>2, DeleteSteps
  <2>4. CASE kind[n] # "document"
    <3>1. kind' = FreedKind(CopiedKind(NoCopy), {})
      BY <1>9, <2>4 DEF LinkEndChild, Splice
    <3>2. kind' = kind
      BY <1>1, <3>1, CopiedKindNothing DEF FreedKind, TypeOK
    <3>3. Forest' = Appended(k, p, n)
      BY <2>2, <2>4
    <3> QED BY <1>2, <1>3, <2>1, <3>2, <3>3, AttachSteps
  <2> QED BY <2>3, <2>4
<1>10. ASSUME NEW p \in Nodes, NEW b \in Nodes, NEW a \in Nodes,
             \/ InsertEndChild(p, a)
             \/ InsertBeforeChild(p, b, a)
             \/ InsertAfterChild(p, b, a)
       PROVE  Tree!Next \/ UNCHANGED <<kind, Forest>>
  <2>1. reading = <<>> /\ p \in Live /\ a \in Live
    BY <1>10
    DEF InsertEndChild, InsertBeforeChild, InsertAfterChild, Holders, Live, Free
  <2>2. \/ heap' = heap
        \/ \E at \in Clone(a), i \in 1..(Len(k[p]) + 1) :
             /\ kind' = FreedKind(CopiedKind(at), {})
             /\ Spells(heap', Placed(k, a, at, p, Inserted(k[p], i, at[a])))
    BY <1>1, <1>2, <1>10, InsertsSpell
  <2>3. ASSUME NEW at \in Clone(a), NEW i \in 1..(Len(k[p]) + 1),
               kind' = FreedKind(CopiedKind(at), {}),
               Spells(heap', Placed(k, a, at, p, Inserted(k[p], i, at[a])))
        PROVE  Tree!Next
    <3>1. Forest' = Placed(k, a, at, p, Inserted(k[p], i, at[a])) /\ Pending = {}
      BY <1>4, <1>6, <2>1, <2>3
    <3> QED BY <1>2, <1>3, <2>1, <2>3, <3>1, InsertSteps
  <2> QED BY <1>5, <2>2, <2>3
<1>11. ASSUME NEW p \in Nodes, NEW r \in Nodes, NEW a \in Nodes, ReplaceChild(p, r, a)
       PROVE  Tree!Next \/ UNCHANGED <<kind, Forest>>
  <2>1. reading = <<>> /\ p \in Live /\ a \in Live /\ parent[r] = p
    BY <1>11 DEF ReplaceChild, Holders, Live, Free
  <2>2. \/ heap' = heap
        \/ \E at \in Clone(a), i \in 1..Len(k[p]) :
             /\ k[p][i] = r
             /\ kind' = FreedKind(CopiedKind(at), Subtree(r))
             /\ Spells(heap', Deleted(Placed(k, a, at, p,
                  Dropped(Inserted(k[p], i, at[a]), i + 1)), Subtree(r)))
    BY <1>1, <1>2, <1>11, ReplaceSpells
  <2>3. ASSUME NEW at \in Clone(a), NEW i \in 1..Len(k[p]), k[p][i] = r,
               kind' = FreedKind(CopiedKind(at), Subtree(r)),
               Spells(heap', Deleted(Placed(k, a, at, p,
                 Dropped(Inserted(k[p], i, at[a]), i + 1)), Subtree(r)))
        PROVE  Tree!Next
    <3>1. Forest' = Deleted(Placed(k, a, at, p, Dropped(Inserted(k[p], i, at[a]), i + 1)),
                            Subtree(r))
      BY <1>4, <2>3
    <3>2. Pending = {}
      BY <1>6, <2>1
    <3> QED BY <1>2, <1>3, <2>1, <2>3, <3>1, <3>2, ReplaceSteps
  <2> QED BY <1>5, <2>2, <2>3
<1>12. ASSUME NEW p \in Nodes, NEW r \in Nodes, RemoveChild(p, r)
       PROVE  Tree!Next
  <2>1. Pending = {}
    BY <1>6, <1>12 DEF RemoveChild
  <2>2. PICK i \in 1..Len(k[p]) :
          /\ k[p][i] = r
          /\ Spells(heap', Deleted([k EXCEPT ![p] = Dropped(k[p], i)], Subtree(r)))
    BY <1>1, <1>2, <1>12, RemoveSpells
  <2>3. Forest' = Deleted([k EXCEPT ![p] = Dropped(k[p], i)], Subtree(r))
    BY <1>4, <2>2
  <2> QED BY <1>2, <1>3, <1>12, <2>1, <2>2, <2>3, RemoveSteps
<1>13. ASSUME NEW p \in Nodes, Clear(p)
       PROVE  Tree!Next \/ UNCHANGED <<kind, Forest>>
  <2>1. Pending = {}
    BY <1>6, <1>13 DEF Clear
  <2>2. Forest' = Deleted([k EXCEPT ![p] = <<>>], Subtree(p) \ {p})
    BY <1>1, <1>2, <1>4, <1>13, ClearSpells
  <2> QED BY <1>1, <1>2, <1>3, <1>13, <2>1, <2>2, ClearSteps
<1>14. ASSUME NEW n \in Nodes, Delete(n)
       PROVE  Tree!Next
  <2>1. /\ reading = <<>> /\ UNCHANGED reading /\ n \in Live
        /\ parent[n] = Null /\ DeleteTree(n)
    BY <1>14 DEF Delete
  <2>2. Spells(heap', Deleted(k, Subtree(n)))
    BY <1>1, <1>2, <2>1, DeleteSpells DEF Deleted
  <2>3. Forest' = Deleted(k, Subtree(n)) /\ Pending = {}
    BY <1>4, <1>6, <2>1, <2>2
  <2> QED BY <1>2, <1>3, <2>1, <2>3, DeleteSteps
<1>15. ASSUME NEW d \in Nodes, Parse(d)
       PROVE  UNCHANGED <<kind, Forest>>
  <2>1. reading = <<>> /\ reading' = <<d>> /\ UNCHANGED <<kind, links>>
    BY <1>15 DEF Parse
  <2>2. Pending = {} /\ Pending' = {}
    BY <2>1 DEF Pending
  <2> QED BY <1>5, <2>1, <2>2, HeapUnchanged
<1>16. ASSUME NEW n \in Nodes, NEW kd \in Kinds, Identify(n, kd)
       PROVE  Tree!Next
  <2>1. kind[n] = "free" /\ kd # "free" /\ kind' = [kind EXCEPT ![n] = kd]
    BY <1>16 DEF Identify
  <2>2. Forest' = k
    BY <1>1, <1>2, <1>4, <1>16, IdentifySpells
  <2> QED BY <1>3, <2>1, <2>2, MakeSteps
<1>17. ASSUME NEW failed \in BOOLEAN, LinkParsed(failed)
       PROVE  Tree!Next
  <2>1. Len(reading) > 1 /\ kind' = FreedKind(CopiedKind(NoCopy), {})
    BY <1>17 DEF LinkParsed, Splice
  <2>2. kind' = kind
    BY <1>1, <2>1, CopiedKindNothing DEF FreedKind, TypeOK
  <2>3. reading # <<>>
    BY <2>1
  <2>4. Top \in Live /\ Top \in Nodes /\ parent[Top] \in Nodes /\ Top \in Pending
    BY <1>1, <2>1, <2>3, ReadingTop
  <2>5. parent[Top] \notin Subtree(Top)
    BY <1>2, <2>4, SubtreeRoot
  <2>6. Forest' = Appended(k, parent[Top], Top)
    BY <1>1, <1>2, <1>4, <1>17, LinkParsedSpells
  <2> QED BY <1>2, <1>3, <2>2, <2>4, <2>5, <2>6, AttachSteps
<1>18. ASSUME NEW n \in Nodes, ReadText(n)
       PROVE  Tree!Next
  <2>1. Len(reading) > 1 /\ kind[n] = "free" /\ kind' = [kind EXCEPT ![n] = "text"]
    BY <1>18 DEF ReadText
  <2>2. Top \in Nodes
    <3>1. reading # <<>>
      BY <2>1
    <3> QED BY <1>1, <3>1, ReadingTop
  <2>3. Forest' = Appended(k, Top, n)
    BY <1>1, <1>2, <1>4, <1>18, ReadTextSpells
  <2> QED BY <1>2, <1>3, <2>1, <2>2, <2>3, MakeLastSteps
<1>19. CASE ParseEnds
  <2>1. Len(reading) = 1 /\ reading' = <<>> /\ UNCHANGED <<kind, links>>
    BY <1>19 DEF ParseEnds
  <2>2. Pending = {} /\ Pending' = {}
    BY <2>1 DEF Pending
  <2> QED BY <1>5, <2>1, <2>2, HeapUnchanged
<1>20. CASE UNCHANGED vars
  <2>1. UNCHANGED <<kind, links>> /\ Pending' = Pending
    BY <1>20 DEF vars, links, Pending
  <2> QED BY <1>5, <2>1, HeapUnchanged
<1>21. CASE Next
  BY <1>8, <1>9, <1>10, <1>11, <1>12, <1>13, <1>14, <1>15, <1>16, <1>17, <1>18, <1>19,
     <1>21 DEF Next
<1> QED BY <1>20, <1>21

LEMMA TreeInitially ==
  ASSUME Init, ForestIsSpelt
  PROVE  Tree!Init
<1>1. HeapInv
  BY HeapInitially
<1>2. TypeOK
  BY <1>1 DEF HeapInv
<1>3. PICK k : Spells(heap, k)
  BY <1>1 DEF HeapInv
<1>4. Forest = k /\ k \in [Nodes -> Seq(Nodes)]
  BY <1>2, <1>3 DEF ForestIsSpelt, Spells, Lists
<1>5. \A n \in Nodes : k[n] = <<>>
  <2>1. \A n \in Nodes : Len(k[n]) = 0
    BY <1>3, HeapFields DEF Init, Spells, Vacant
  <2> QED BY <1>4, <2>1
<1>6. Forest = [n \in Nodes |-> <<>>]
  BY <1>4, <1>5
<1>7. kind = [n \in Nodes |-> "free"]
  BY DEF Init
<1> QED BY <1>6, <1>7 DEF Tree!Init, Forest

(* The node lists are what DomTree promises: with the children read along the *)
(* pointers as the lists, the heap starts as the empty forest, and every      *)
(* operation of TiXmlNode and every step of the parser is one edit of an      *)
(* ordered tree as a whole, or leaves all trees as they were.                 *)
THEOREM DomImplementsTree == Spec => ImplementsTree
<1>1. Init => Tree!Init
  BY ForestSpelt, TreeInitially
<1>2. HeapInv => TypeOK
  BY DEF HeapInv
<1>3. ASSUME HeapInv, TypeOK', ForestIsSpelt, ForestIsSpelt', [Next]_vars
      PROVE  [Tree!Next]_<<kind, [n \in Nodes |-> Kids(n)]>>
  BY <1>3, TreeStep DEF Forest
<1>4. ForestIsSpelt
  BY ForestSpelt
<1> QED BY <1>1, <1>2, <1>3, <1>4, HeapAlways, PTL DEF Spec, ImplementsTree, Tree!Spec
=============================================================================
