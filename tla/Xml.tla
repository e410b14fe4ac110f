-------------------------------- MODULE Xml --------------------------------
(***************************************************************************)
(* How TinyXML reads and prints a document (src/Client/tinyxmlparser.cpp   *)
(* and tinyxml.cpp).  A text is a sequence of lexemes: "!--" is one, so is *)
(* a name, so is an entity; a cut falls between two of them.  A position   *)
(* is an index, 0 the null pointer, and the one after the last lexeme that *)
(* of the terminating zero.  Encodings are left out, assertions are off.   *)
(*                                                                         *)
(* A node is what the parser makes: a kind, a value, attributes, children; *)
(* Dom has the lists these are kept in.                                    *)
(***************************************************************************)
EXTENDS Integers, Sequences, FiniteSets, SequencesExt

CONSTANT Names   \* lexemes that start with a letter

Space == " "
Quotes == {"'", "\""}

\* The references of the table of entities, and one by number.
Entities == "&amp;" :> "&" @@ "&lt;" :> "<" @@ "&gt;" :> ">" @@ "&apos;" :> "'"
            @@ "&quot;" :> "\"" @@ "&#x41;" :> "A"

Node(kind, value, attrs, kids) ==
    [kind |-> kind, value |-> value, attrs |-> attrs, kids |-> kids]

At(t, p) == IF p \in DOMAIN t THEN t[p] ELSE "end"

\* The test "p && *p".
More(t, p) == p \in DOMAIN t

\* The first position from p on with a lexeme of S, or the end.
Find(t, p, S) ==
    CHOOSE q \in p..Len(t) + 1 :
        /\ q = Len(t) + 1 \/ t[q] \in S
        /\ \A r \in p..q - 1 : t[r] \notin S

SkipWhiteSpace(t, p) ==
    IF ~More(t, p) THEN 0
    ELSE CHOOSE q \in p..Len(t) + 1 :
            At(t, q) # Space /\ \A r \in p..q - 1 : t[r] = Space

----------------------------------------------------------------------------
(* Text *)

\* An ampersand that begins no entity is a character of length 0.
GetChar(c) ==
    CASE c \in DOMAIN Entities -> <<Entities[c]>>
      [] c = "&" -> <<>>
      [] OTHER -> <<c>>

Decode(s) == FlattenSeq([i \in DOMAIN s |-> GetChar(s[i])])

\* Mutant of Condense: white space at the end of the text is kept.
CondenseLeft(s) ==
    LET Kept(i) == \/ s[i] # Space
                   \/ /\ \E j \in 1..i - 1 : s[j] # Space
                      /\ i < Len(s) => s[i + 1] # Space
        SpaceOnce == [i \in DOMAIN s |-> IF Kept(i) THEN <<s[i]>> ELSE <<>>]
    IN  FlattenSeq(SpaceOnce)

\* White space before the first character and after the last goes, what is in
\* between becomes one space: it is added when the next character is met.
Condense(s) ==
    LET Kept(i) == \/ s[i] # Space
                   \/ /\ \E j \in 1..i - 1 : s[j] # Space
                      /\ i < Len(s) /\ s[i + 1] # Space
        SpaceOnce == [i \in DOMAIN s |-> IF Kept(i) THEN <<s[i]>> ELSE <<>>]
    IN  FlattenSeq(SpaceOnce)

\* The end tag has to be there, and something after it.
ReadText(t, p, trim, endTag) ==
    LET start == IF trim THEN SkipWhiteSpace(t, p) ELSE p
        stop == Find(t, start, {endTag})
        raw == SubSeq(t, start, stop - 1)
    IN  IF ~More(t, start) THEN [p |-> 0, text |-> <<>>]
        ELSE [p |-> IF More(t, stop + 1) THEN stop + 1 ELSE 0,
              text |-> Decode(IF trim THEN Condense(raw) ELSE raw)]

Blank(s) == \A i \in DOMAIN s : s[i] = Space

----------------------------------------------------------------------------
(* The parsers: the position they return, the node, and whether they set an *)
(* error on the document                                                    *)

Read(p, node, err) == [p |-> p, node |-> node, err |-> err]
Fails(node) == Read(0, node, TRUE)

\* A name, an equals sign, and a value in quotes, or without, up to the end of
\* the tag; a quote in a value without quotes is an error.
Attribute(t, p) ==
    LET equals == SkipWhiteSpace(t, p + 1)
        v == IF equals = 0 THEN 0 ELSE SkipWhiteSpace(t, equals + 1)
        end == Find(t, v, {Space, "/", ">"} \cup Quotes)
        quoted == ReadText(t, v + 1, FALSE, At(t, v))
        Value(q, s) == [p |-> q, name |-> t[p], value |-> s]
        none == Value(0, <<>>)
    IN  IF At(t, p) \notin Names \/ At(t, equals) # "=" \/ ~More(t, v) THEN none
        ELSE IF t[v] \in Quotes THEN Value(quoted.p, quoted.text)
        ELSE IF At(t, end) \in Quotes THEN none
        ELSE Value(end, SubSeq(t, v, end - 1))

Comment(t, p) ==
    LET end == Find(t, p + 2, {"-->"})
    IN  Read(IF More(t, end) THEN end + 1 ELSE end,
             Node("comment", SubSeq(t, p + 2, end - 1), <<>>, <<>>), FALSE)

Unknown(t, p) ==
    LET end == Find(t, p + 1, {">"})
    IN  Read(IF More(t, end) THEN end + 1 ELSE end,
             Node("unknown", SubSeq(t, p + 1, end - 1), <<>>, <<>>), FALSE)

Cdata(t, p) ==
    LET end == Find(t, p + 2, {"]]>"})
    IN  Read(ReadText(t, end, FALSE, "]]>").p,
             Node("cdata", SubSeq(t, p + 2, end - 1), <<>>, <<>>), FALSE)

\* Its attributes belong to no document and set no error.
RECURSIVE Declaration(_, _, _)
Declaration(t, p, attrs) ==
    LET q == SkipWhiteSpace(t, p)
        a == Attribute(t, q)
        node == Node("declaration", <<>>, attrs, <<>>)
    IN  IF ~More(t, p) THEN Read(0, node, FALSE)
        ELSE IF t[p] = ">" THEN Read(p + 1, node, FALSE)
        ELSE IF At(t, q) \in {"version", "encoding", "standalone"}
        THEN Declaration(t, a.p, Append(attrs, <<a.name, a.value>>))
        ELSE Declaration(t, Find(t, q, {">", Space}), attrs)

ClosesTag(t, p, name) == At(t, p) = "<" /\ At(t, p + 1) = "/" /\ At(t, p + 2) = name

\* Mutant of NoEndTag: the error is left to what was read before, as it was once.
NoEndTagSilent(node, inside) == Read(0, node, inside.err)

\* The end of the text, or another tag, where the end tag should be.
NoEndTag(node, inside) == Fails(node)

\* Tag is the rest of TiXmlElement::Parse from behind the name or an attribute,
\* Content is ReadValue, and Item makes what Identify finds and has it parsed.
RECURSIVE Tag(_, _, _), Content(_, _, _), Item(_, _)

Tag(t, p, node) ==
    LET q == SkipWhiteSpace(t, p)
        inside == Content(t, q + 1, <<>>)
        whole == [node EXCEPT !.kids = inside.node]
        close == SkipWhiteSpace(t, inside.p + 3)
        a == Attribute(t, q)
        repeated == \E i \in DOMAIN node.attrs : node.attrs[i][1] = a.name
    IN  CASE ~More(t, q) -> Fails(node)
          [] At(t, q) = "/" ->
                IF At(t, q + 1) = ">" THEN Read(q + 2, node, FALSE) ELSE Fails(node)
          [] At(t, q) = ">" ->
                IF ClosesTag(t, inside.p, node.value[1]) /\ At(t, close) = ">"
                THEN Read(close + 1, whole, inside.err)
                ELSE NoEndTag(whole, inside)
          [] OTHER ->
                IF ~More(t, a.p) \/ repeated THEN Fails(node)
                ELSE Tag(t, a.p, [node EXCEPT !.attrs = Append(@, <<a.name, a.value>>)])

\* A node that failed is linked too, and so is a text that is not blank.
Content(t, p, kids) ==
    LET q == SkipWhiteSpace(t, p)
        text == ReadText(t, q, TRUE, "<")
        item == Item(t, q)
        rest == Content(t, item.p, Append(kids, item.node))
    IN  IF ~More(t, q) THEN Read(q, kids, q = 0)
        ELSE IF t[q] # "<"
        THEN Content(t, IF text.p = 0 THEN 0 ELSE text.p - 1,
                     IF Blank(text.text) THEN kids
                     ELSE Append(kids, Node("text", text.text, <<>>, <<>>)))
        ELSE IF At(t, q + 1) = "/" THEN Read(q, kids, FALSE)
        ELSE [rest EXCEPT !.err = @ \/ item.err]

Item(t, p) ==
    LET what == At(t, p + 1)
    IN  CASE what = "?xml" -> Declaration(t, p + 2, <<>>)
          [] what = "!--" -> Comment(t, p)
          [] what = "![CDATA[" -> Cdata(t, p)
          [] what \in Names ->
                IF More(t, p + 2) THEN Tag(t, p + 2, Node("element", <<what>>, <<>>, <<>>))
                ELSE Fails(Node("element", <<what>>, <<>>, <<>>))
          [] OTHER -> Unknown(t, p)

\* The document reads node after node; what is no node ends it without an error.
RECURSIVE Nodes(_, _, _, _)
Nodes(t, p, kids, err) ==
    LET q == SkipWhiteSpace(t, p)
        item == Item(t, q)
    IN  IF At(t, q) # "<" THEN [kids |-> kids, err |-> err \/ kids = <<>>]
        ELSE Nodes(t, item.p, Append(kids, item.node), err \/ item.err)

Parse(t) == Nodes(t, 1, <<>>, FALSE)

\* RootElement of the handle: the first child that is an element.
Elements(kids) == SelectSeq(kids, LAMBDA n : n.kind = "element")

----------------------------------------------------------------------------
(* Printing *)

References == DOMAIN Entities \ {"&#x41;"}

\* Mutant of EncodeString: every ampersand counts as the start of a reference.
EncodeStringBut(s) ==
    LET Encode(c) == IF c # "&" /\ \E e \in References : Entities[e] = c
                     THEN CHOOSE e \in References : Entities[e] = c
                     ELSE c
    IN  [i \in DOMAIN s |-> Encode(s[i])]

\* A value that contains a reference by number, an ampersand followed by the
\* lexeme "#x41;", passes through.
EncodeString(s) ==
    LET Reference(i) == s[i] = "&" /\ i < Len(s) /\ s[i + 1] = "#x41;"
        Encode(i) ==
            IF Reference(i) THEN <<"&#x41;">>
            ELSE IF i > 1 /\ Reference(i - 1) THEN <<>>
            ELSE IF \E e \in References : Entities[e] = s[i]
            THEN <<CHOOSE e \in References : Entities[e] = s[i]>>
            ELSE <<s[i]>>
    IN  FlattenSeq([i \in DOMAIN s |-> Encode(i)])

PrintAttribute(a) ==
    LET quote == IF Contains(a[2], "\"") THEN "'" ELSE "\""
    IN  <<Space, a[1], "=", quote>> \o EncodeString(a[2]) \o <<quote>>

PrintDeclaration(attrs) ==
    LET Value(name) == LET of == SelectSeq(attrs, LAMBDA a : a[1] = name)
                      IN  IF of = <<>> THEN <<>> ELSE of[Len(of)][2]
        Printed(name) == IF Value(name) = <<>> THEN <<>>
                        ELSE <<name, "=", "\"">> \o Value(name) \o <<"\"", Space>>
    IN  <<"<", "?xml", Space>> \o Printed("version") \o Printed("encoding")
        \o Printed("standalone") \o <<"?", ">">>

\* The printer goes down the tree; an element with a single text is printed on
\* one line, everything else on lines of its own, indented by its depth.
RECURSIVE PrintNode(_, _, _)
PrintNode(n, depth, simple) ==
    LET onOneLine == /\ Len(n.kids) = 1 /\ n.kids[1].kind = "text"
        Indent == IF depth > 0 THEN <<Space>> ELSE <<>>
        Line(s) == Indent \o s \o <<Space>>
        start == <<"<">> \o n.value \o FlattenSeq([i \in DOMAIN n.attrs |-> PrintAttribute(n.attrs[i])])
        kids == FlattenSeq([i \in DOMAIN n.kids |-> PrintNode(n.kids[i], depth + 1, onOneLine)])
    IN  CASE n.kind = "text" -> IF simple THEN EncodeString(n.value) ELSE Line(EncodeString(n.value))
          [] n.kind = "cdata" -> Line(<<"<", "![CDATA[">> \o n.value \o <<"]]>">>)
          [] n.kind = "comment" -> Line(<<"<", "!--">> \o n.value \o <<"-->">>)
          [] n.kind = "unknown" -> Line(<<"<">> \o n.value \o <<">">>)
          [] n.kind = "declaration" -> Line(PrintDeclaration(n.attrs))
          [] n.kind = "element" ->
                IF n.kids = <<>> THEN Line(start \o <<Space, "/", ">">>)
                ELSE Indent \o start \o <<">">> \o (IF onOneLine THEN <<>> ELSE <<Space>>)
                     \o kids \o (IF onOneLine THEN <<>> ELSE Indent)
                     \o <<"<", "/">> \o n.value \o <<">", Space>>
=============================================================================
