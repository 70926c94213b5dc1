---------------------------- MODULE MCCpgCliClient ----------------------------
(* CpgCliClient with scripts that hold every form of every command: what a   *)
(* burst or a sync holds up, lines that are refused, and a sync whose number *)
(* is used by others too.                                                    *)
EXTENDS CpgCliClient

Cmd(name, numbers) == [op |-> name, args |-> numbers]
Burst == Cmd("sendrandburst", <<2, 1, 16>>)
String == Cmd("sendstr", <<>>)

MCScripts ==
  { <<Burst, String, Cmd("sync", <<>>)>>,
    <<Cmd("sync", <<>>), String, Burst>>,
    <<Burst, Cmd("sync", <<1>>), String>>,
    <<Cmd("sendrand", <<5, 16>>), Cmd("sendrand", <<5, 2>>), Cmd("sendrandburst", <<1, 1, 2>>)>>,
    <<Cmd("unknown", <<>>), Cmd("sendrandburst", <<1>>), String>>,
    <<Cmd("listmem", <<>>), Cmd("exit", <<>>), String>> }
===============================================================================
