-------------------------------- MODULE Wire --------------------------------
(***************************************************************************)
(* The documents that go over a Channel: they are built and printed at one *)
(* end, parsed and taken apart at the other (src/Client/XMLInfo.cpp; the   *)
(* other ends are XMLParser.java of the Center and the XMLizable classes   *)
(* of the Agent).                                                          *)
(***************************************************************************)
EXTENDS Xml, Channel

CONSTANT Values     \* what a field may contain

----------------------------------------------------------------------------
(* The documents: the elements below the root, each with one text *)

Build(name, fields, value) ==
    Node("element", <<name>>, <<>>,
         [i \in DOMAIN fields |->
            Node("element", <<fields[i]>>, <<>>, <<Node("text", value[i], <<>>, <<>>)>>)])

BuiltForCenter ==
    [AC_Req |-> <<"Positive", "Wind_Level">>,
     Temp_Submit |-> <<"Time", "Client_No", "Temp">>,
     Login |-> <<"Name", "Password", "Client_No">>]

ReadByCenter ==
    [AC_Req |-> {"Positive", "Wind_Level"},
     Temp_Submit |-> {"Client_No", "Temp"},
     Login |-> {"Name", "Password", "Client_No"}]

PackedByCenter ==
    [Login_ACK |-> <<"Succeed", "Name", "Password", "Mode">>,
     Fare_Info |-> <<"Fare", "Energy">>,
     Mode |-> <<"Heater">>,
     Temp_Submit_Freq |-> <<"Temp_Submit_Freq">>,
     Wind |-> <<"Level", "Start_Blowing">>]

\* Mutant of LoadedFromCenter: the loader asks for the start under another name.
LoadedUnderOtherName ==
    [Login_ACK |-> {"Succeed", "Name", "Password", "Mode"},
     Fare_Info |-> {"Fare", "Energy"},
     Mode |-> {"Heater"},
     Temp_Submit_Freq |-> {"Temp_Submit_Freq"},
     Wind |-> {"Level", "Start_blowing"}]

LoadedFromCenter ==
    [Login_ACK |-> {"Succeed", "Name", "Password", "Mode"},
     Fare_Info |-> {"Fare", "Energy"},
     Mode |-> {"Heater"},
     Temp_Submit_Freq |-> {"Temp_Submit_Freq"},
     Wind |-> {"Level", "Start_Blowing"}]

\* The Agent has entered the session in the Login of the page.
SentByAgent ==
    [Login |-> <<"ID", "User", "Password">>,
     Set_Temp |-> <<"Temp", "Wind_Level">>]

LoadedFromAgent ==
    [Login |-> {"ID", "User", "Password"},
     Set_Temp |-> {"Temp", "Wind_Level"}]

BuiltForAgent ==
    [Reg |-> <<"Client_NO">>,
     Login_ACK |-> <<"ID", "Succeed">>,
     Sensor_Temp |-> <<"Sensor_temp">>,
     Mode |-> <<"Heater">>,
     Set_Temp |-> <<"Temp", "Wind_Level">>,
     Fare_Info |-> <<"Fare", "Energy">>]

ReadByAgent ==
    [Reg |-> {"Client_NO"},
     Login_ACK |-> {"ID", "Succeed"},
     Sensor_Temp |-> {"Sensor_temp"},
     Mode |-> {"Heater"},
     Set_Temp |-> {"Temp", "Wind_Level"},
     Fare_Info |-> {"Fare", "Energy"}]

Builders == [up |-> BuiltForCenter, out |-> BuiltForAgent,
             down |-> PackedByCenter, web |-> SentByAgent]

Loaders == [up |-> ReadByCenter, out |-> ReadByAgent,
            down |-> LoadedFromCenter, web |-> LoadedFromAgent]

\* The documents that each way carries, each field with one of the values.
Carried ==
    [w \in DOMAIN Builders |->
        {Build(name, Builders[w][name], [i \in DOMAIN Builders[w][name] |-> v]) :
            name \in DOMAIN Builders[w], v \in Values}]

\* The text of the first child of this name; an element without text has none.
GetText(root, name) ==
    LET named == SelectSeq(root.kids, LAMBDA n : n.kind = "element" /\ n.value = <<name>>)
    IN  IF named = <<>> THEN <<"no such child">>
        ELSE IF named[1].kids = <<>> \/ named[1].kids[1].kind # "text" THEN <<>>
        ELSE named[1].kids[1].value

Loaded(w, t) ==
    LET root == Elements(Parse(t).kids)[1]
    IN  [f \in Loaders[w][root.value[1]] |-> GetText(root, f)]

----------------------------------------------------------------------------
(* The text *)

\* The printer breaks the line after each tag that ends an element.
Lines(s) ==
    LET breaks == {i \in 2..Len(s) : s[i] = Space /\ s[i - 1] = ">"}
        end == [n \in 1..Cardinality(breaks) |->
                    CHOOSE i \in breaks : Cardinality({j \in breaks : j < i}) = n - 1]
    IN  [n \in DOMAIN end |-> SubSeq(s, IF n = 1 THEN 1 ELSE end[n - 1] + 1, end[n])]

Printed == [d \in UNION {Carried[w] : w \in Ways} |-> Lines(PrintNode(d, 0, FALSE))]

----------------------------------------------------------------------------

(* Every field that is looked up in a document is there, under the name the
   other side writes, and holds what was put in, with its white space condensed:
   a missing one would be a null pointer in the load functions.  A blank field
   has no text at all. *)
FieldsArrive ==
    ~mixed => \A i \in DOMAIN got :
        LET doc == sent[i]
            fields == Loaded(way, FlattenSeq(got[i]))
        IN  \A f \in Loaders[way][doc.value[1]] : \E j \in DOMAIN doc.kids :
                /\ doc.kids[j].value = <<f>>
                /\ fields[f] = Condense(doc.kids[j].kids[1].value)
=============================================================================
