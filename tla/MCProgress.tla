------------------------------ MODULE MCProgress ------------------------------
(***************************************************************************)
(* A small instance of Progress: a scan, a login with found credentials    *)
(* and a complaint, with the thresholds scaled down.                       *)
(***************************************************************************)
EXTENDS Progress, TLC

CONSTANTS c1, c2

Done(found, says) == [found |-> found, says |-> says, ok |-> TRUE, misuse |-> FALSE, refusals |-> 0]
Refused(n) == [found |-> {}, says |-> {}, ok |-> FALSE, misuse |-> FALSE, refusals |-> n]

MCMatches == [scan |-> {<<"subnet_scan", 1>>, <<"subnet_scan", 2>>},
              login |-> {<<"lateral_probe", 1>>}, rant |-> {}]
MCCommands == DOMAIN MCMatches
MCProtocol == [scan |-> "nmap", login |-> "ssh", rant |-> "shell"]
MCTool == [scan |-> "nmap", login |-> "ssh", rant |-> "echo"]
MCOutcomes == [scan |-> {Done({"vuln_probe"}, {}), Refused(1)},
               login |-> {Done({"jumpbox_foothold"}, {"service_words"}), Refused(2)},
               rant |-> {[Refused(0) EXCEPT !.misuse = TRUE], Refused(0)}]
Swap == Permutations(Conns)
=============================================================================
