------------------------------ MODULE DomTree ------------------------------
(***************************************************************************)
(* What the node lists of Dom promise: a forest of ordered trees.  A node  *)
(* has a sequence of children, and every operation edits one sequence and  *)
(* leaves the others as they are.  The operators take the forest k as an   *)
(* argument: kids is an expression over pointers where Dom implements it,  *)
(* and TLC should evaluate it once per step.                               *)
(***************************************************************************)
EXTENDS Integers, Sequences, FiniteSets, SequencesExt

CONSTANT Nodes
VARIABLES kind, kids

Free == {n \in Nodes : kind[n] = "free"}

\* A node with everything below it.
TreeOf(k, t) ==
    {n \in Nodes : \A S \in SUBSET Nodes :
        t \in S /\ (\A m \in S : Range(k[m]) \subseteq S) => n \in S}

Roots(k) == {n \in Nodes \ Free : \A p \in Nodes : n \notin Range(k[p])}

\* The forest and the kinds after a tree was copied to the addresses of at.
Origin(at, n) == CHOOSE m \in DOMAIN at : at[m] = n
Copy(k, at) ==
    [n \in Nodes |-> IF n \in Range(at)
                     THEN [i \in DOMAIN k[Origin(at, n)] |-> at[k[Origin(at, n)][i]]]
                     ELSE k[n]]
KindAfter(at, dead) ==
    [n \in Nodes |-> IF n \in dead THEN "free"
                     ELSE IF n \in Range(at) THEN kind[Origin(at, n)] ELSE kind[n]]

\* After the nodes dead were deleted, and where none was.
Without(k, dead) == [n \in Nodes |-> IF n \in dead THEN <<>> ELSE k[n]]
KindWithout(dead) == [n \in Nodes |-> IF n \in dead THEN "free" ELSE kind[n]]

Init ==
    /\ kind = [n \in Nodes |-> "free"]
    /\ kids = [n \in Nodes |-> <<>>]

Make(k, after, n, kd) ==
    /\ kind' = [kind EXCEPT ![n] = kd]
    /\ after = k

\* A root becomes the last child of a node that is not below it.
Attach(k, after, p, n) ==
    /\ kind' = kind
    /\ n \in Roots(k) /\ p \notin TreeOf(k, n)
    /\ after = [k EXCEPT ![p] = Append(@, n)]

\* A new text, at once the last child.
MakeLast(k, after, p, n) ==
    /\ kind' = [kind EXCEPT ![n] = "text"]
    /\ after = [k EXCEPT ![p] = Append(@, n)]

\* A copy of tree t becomes the child of p at position i.
InsertCopy(k, after, p, i, t) ==
    \E at \in Injection(TreeOf(k, t), Free) :
        /\ kind' = KindAfter(at, {})
        /\ after = [Copy(k, at) EXCEPT ![p] = InsertAt(@, i, at[t])]

\* A copy of tree t takes the place of the child at position i, which is deleted.
ReplaceByCopy(k, after, p, i, t) ==
    LET dead == TreeOf(k, k[p][i])
    IN  \E at \in Injection(TreeOf(k, t), Free) :
            /\ kind' = KindAfter(at, dead)
            /\ after = [Without(Copy(k, at), dead) EXCEPT ![p] = [k[p] EXCEPT ![i] = at[t]]]

\* The child at position i is deleted with its tree, and the others close up.
RemoveChild(k, after, p, i) ==
    LET dead == TreeOf(k, k[p][i])
    IN  /\ kind' = KindWithout(dead)
        /\ after = [Without(k, dead) EXCEPT ![p] = RemoveAt(k[p], i)]

\* All children are deleted.
Clear(k, after, p) ==
    LET dead == TreeOf(k, p) \ {p}
    IN  /\ kind' = KindWithout(dead)
        /\ after = [Without(k, dead) EXCEPT ![p] = <<>>]

\* A whole tree is deleted.
Delete(k, after, n) ==
    /\ n \in Roots(k)
    /\ kind' = KindWithout(TreeOf(k, n))
    /\ after = Without(k, TreeOf(k, n))

\* From forest k to forest after. But for the nodes that come or go, at most one
\* node p gets other children.
Step(k, after) ==
    LET Changed == {p \in Nodes : k[p] # after[p]}
    IN  \/ \E n \in Free, kd \in {"document", "element", "text"} : Make(k, after, n, kd)
        \/ \E p \in Changed, n \in Nodes : Attach(k, after, p, n)
        \/ \E p \in Changed, n \in Free : MakeLast(k, after, p, n)
        \/ \E p \in Changed \ Free, t \in Nodes \ Free :
               \E i \in 1..Len(k[p]) + 1 : InsertCopy(k, after, p, i, t)
        \/ \E p \in Changed \ Free, t \in Nodes \ Free :
               \E i \in 1..Len(k[p]) : ReplaceByCopy(k, after, p, i, t)
        \/ \E p \in Changed : \E i \in 1..Len(k[p]) : RemoveChild(k, after, p, i)
        \/ \E p \in Changed : Clear(k, after, p)
        \/ \E n \in Nodes : Delete(k, after, n)

\* kids' is the result, read once.
Next == LET k == kids
            after == kids'
        IN  Step(k, after)

Spec == Init /\ [][Next]_<<kind, kids>>
=============================================================================
