----------------------------- MODULE XmlWriter -----------------------------
(***************************************************************************)
(* Whoever sends a document to the Client: the Center and the Agent, which *)
(* use an XML library of Java, or another TinyXML.  It writes a well-      *)
(* formed document piece by piece, in any of the forms XML allows, and     *)
(* keeps in doc what it meant.  Xml reads the text after every step, so    *)
(* every cut of every such document is read too.                           *)
(***************************************************************************)
EXTENDS Xml

CONSTANTS Tags,     \* names of elements and attributes
          Chars,    \* what texts are made of: words and entities
          Keys,     \* names of attributes of a declaration
          MaxLen,   \* bound on the length of the text
          MaxItems  \* bound on what is not a tag: attributes, characters, comments ...

ASSUME NamesAssumption == Tags \cup Keys \subseteq Names

VARIABLES text,     \* lexemes written so far
          open,     \* the elements that are not closed yet, outermost first
          doc,      \* the nodes of the document that are complete
          last,     \* what was written last: "start", "markup", "chars", "gap"
          rootEnd,  \* the length of the text when the root was closed, or 0
          items     \* how many of these there are

vars == <<text, open, doc, last, rootEnd, items>>

Init ==
    /\ text = <<>> /\ open = <<>> /\ doc = <<>>
    /\ last = "markup" /\ rootEnd = 0 /\ items = 0

Write(s) == Len(text) + Len(s) <= MaxLen /\ text' = text \o s /\ UNCHANGED items

\* What is not a tag.
WriteItem(s) ==
    /\ Len(text) + Len(s) <= MaxLen /\ text' = text \o s
    /\ items < MaxItems /\ items' = items + 1

AddTo(stack, n) == [stack EXCEPT ![Len(stack)].kids = Append(@, n)]

Add(n) == IF open = <<>> THEN doc' = Append(doc, n) /\ UNCHANGED open
                         ELSE open' = AddTo(open, n) /\ UNCHANGED doc

Declare(key) ==
    /\ text = <<>>
    /\ WriteItem(<<"<", "?xml", Space, key, "=", "\"", "x", "\"", "?", ">">>)
    /\ Add(Node("declaration", <<>>, <<<<key, <<"x">>>>>>, <<>>))
    /\ UNCHANGED <<last, rootEnd>>

StartTag(name) ==
    /\ last # "start" /\ (open = <<>> => rootEnd = 0)
    /\ Write(<<"<", name>>)
    /\ open' = Append(open, Node("element", <<name>>, <<>>, <<>>))
    /\ last' = "start"
    /\ UNCHANGED <<doc, rootEnd>>

\* Either quote, or none around a single word.
WriteAttribute(name, c, quote) ==
    LET top == open[Len(open)]
    IN  /\ last = "start"
        /\ \A i \in DOMAIN top.attrs : top.attrs[i][1] # name
        /\ quote = <<>> => c \notin DOMAIN Entities
        /\ WriteItem(<<Space, name, "=">> \o quote \o <<c>> \o quote)
        /\ open' = [open EXCEPT ![Len(open)].attrs = Append(@, <<name, GetChar(c)>>)]
    /\ UNCHANGED <<doc, last, rootEnd>>

StartTagEnds ==
    /\ last = "start"
    /\ Write(<<">">>)
    /\ last' = "markup"
    /\ UNCHANGED <<open, doc, rootEnd>>

\* The element on top is complete.
Close ==
    LET outer == Front(open)
    IN  /\ IF outer = <<>>
           THEN doc' = Append(doc, open[1]) /\ open' = <<>> /\ rootEnd' = Len(text')
           ELSE open' = AddTo(outer, open[Len(open)]) /\ UNCHANGED <<doc, rootEnd>>
        /\ last' = "markup"

EmptyTag ==
    /\ last = "start"
    /\ Write(<<"/", ">">>)
    /\ Close

EndTag(gap) ==
    /\ open # <<>> /\ last # "start"
    /\ Write(<<"<", "/">> \o open[Len(open)].value \o gap \o <<">">>)
    /\ Close

\* A run of characters is one text; white space within it counts as one space.
WriteChar(c) ==
    /\ open # <<>> /\ last # "start"
    /\ WriteItem(<<c>>)
    /\ LET n == Len(open)
           k == Len(open[n].kids)
           more == (IF last = "gap" THEN <<Space>> ELSE <<>>) \o GetChar(c)
       IN  open' = IF last = "markup" THEN AddTo(open, Node("text", GetChar(c), <<>>, <<>>))
                   ELSE [open EXCEPT ![n].kids[k].value = @ \o more]
    /\ last' = "chars"
    /\ UNCHANGED <<doc, rootEnd>>

WriteSpace ==
    /\ last # "start" /\ text # <<>>
    /\ WriteItem(<<Space>>)
    /\ last' = IF last = "markup" THEN "markup" ELSE "gap"
    /\ UNCHANGED <<open, doc, rootEnd>>

WriteComment ==
    /\ last # "start"
    /\ WriteItem(<<"<", "!--", ">", "-->">>)
    /\ Add(Node("comment", <<">">>, <<>>, <<>>))
    /\ last' = "markup"
    /\ UNCHANGED rootEnd

WriteCdata ==
    /\ open # <<>> /\ last # "start"
    /\ WriteItem(<<"<", "![CDATA[", "<", "]]>">>)
    /\ Add(Node("cdata", <<"<">>, <<>>, <<>>))
    /\ last' = "markup"
    /\ UNCHANGED rootEnd

\* A document type, which TinyXML keeps as an unknown.
WriteDoctype ==
    /\ open = <<>> /\ rootEnd = 0
    /\ WriteItem(<<"<", "!", "x", ">">>)
    /\ Add(Node("unknown", <<"!", "x">>, <<>>, <<>>))
    /\ last' = "markup"
    /\ UNCHANGED rootEnd

Next ==
    \/ \E key \in Keys : Declare(key)
    \/ \E name \in Tags : StartTag(name)
    \/ \E name \in Tags, c \in Chars, quote \in {<<"'">>, <<"\"">>, <<>>} :
           WriteAttribute(name, c, quote)
    \/ StartTagEnds
    \/ EmptyTag
    \/ \E gap \in {<<>>, <<Space>>} : EndTag(gap)
    \/ \E c \in Chars : WriteChar(c)
    \/ WriteSpace
    \/ WriteComment
    \/ WriteCdata
    \/ WriteDoctype

Spec == Init /\ [][Next]_vars

Complete == open = <<>> /\ rootEnd > 0

----------------------------------------------------------------------------
(* Whatever the form, a whole document is read as what was meant: white space
   around texts, quotes, references, empty tags, comments and declarations make
   no difference to TiXmlDocument::Parse, and it sets no error. *)
ReadsWhatIsMeant == Complete => Parse(text) = [kids |-> doc, err |-> FALSE]

(* A document that is cut anywhere before the end of its root gives an error or
   no root.  The load functions look at no error, so what keeps them from half a
   message is only that CClientNet::RecMsg gives up when the connection ends. *)
CutIsNoticed ==
    \A n \in 0..Len(text) :
        rootEnd = 0 \/ n < rootEnd =>
            LET cut == Parse(SubSeq(text, 1, n))
            IN  cut.err \/ Elements(cut.kids) = <<>>

RECURSIVE HasReference(_)
HasReference(n) ==
    \/ \E i \in 1..Len(n.value) - 1 : n.value[i] = "&" /\ n.value[i + 1] = "#x41;"
    \/ \E i \in DOMAIN n.kids : HasReference(n.kids[i])

(* What the printer makes of a document is read as the same document: it encodes
   all that the parser would take for markup, and the white space it adds is
   dropped.  The exception is in EncodeString: an ampersand that is followed by
   "#x" is taken for a reference and not encoded. *)
PrintsBack ==
    Complete /\ (\A i \in DOMAIN doc : ~HasReference(doc[i])) =>
        Parse(FlattenSeq([i \in DOMAIN doc |-> PrintNode(doc[i], 0, FALSE)]))
            = [kids |-> doc, err |-> FALSE]
=============================================================================
