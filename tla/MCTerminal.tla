------------------------------ MODULE MCTerminal ------------------------------
(* Tools that read, write and run commands, alone and side by side.              *)
EXTENDS Terminal

ToolsOf   == {"Read", "Edit", "Bash"}
LevelOf   == [t \in ToolsOf |-> CASE t = "Read" -> "safe" [] t = "Edit" -> "write" [] OTHER -> "shell"]
BatchesOf == {<<"Bash", "Edit">>, <<"Read">>}
===============================================================================
