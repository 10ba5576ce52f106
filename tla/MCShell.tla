------------------------------ MODULE MCShell -------------------------------
(***************************************************************************)
(* Scripts and lines for the small instances of Shell: all the texts of up *)
(* to three lines made of a few line shapes.                               *)
(***************************************************************************)
EXTENDS Shell

Echo == <<Word("echo", ""), NL>>
EchoWord == <<Word("echo", ""), Word("hello", ""), NL>>
LongEcho == <<Word("echo", ""), Word("hello", ""), Word("world", ""),
              Word("rm", "data"), NL>>
Blank == <<NL>>
CatData == <<Word("cat", "data"), NL>>
AppendData == <<Word("append", "data"), Word("hello", ""), NL>>
AppendSelf == <<Word("append", "script"), Word("hello", ""), NL>>
WriteData == <<Word("write", "data"), Word("rm", "script"), NL>>
WriteSelf == <<Word("write", "script"), Word("hello", ""), NL>>
RmData == <<Word("rm", "data"), NL>>
RmSelf == <<Word("rm", "script"), NL>>

UpTo3(lines) == {<<>>} \cup lines \cup {a \o b : a, b \in lines}
                \cup {a \o b \o c : a, b, c \in lines}

\* Lines of every kind, and lines longer than the line buffer.
AllScripts == UpTo3({Echo, EchoWord, Blank, CatData, AppendData, AppendSelf,
                     WriteData, WriteSelf, RmData, RmSelf})
LongScripts == UpTo3({Echo, LongEcho})
SomeData == {<<>>, Echo, RmData \o WriteSelf \o <<Word("hello", "")>>}

SomeLines == {<<>>, <<"!!">>, <<" ">>, <<"echo", " ", "hello">>, <<" ", "lang">>,
              <<"run", "script">>, <<"run">>, <<"reboot">>, <<"usermode">>}

NumbersTyped == {-8, -1, 0, 3}
=============================================================================
