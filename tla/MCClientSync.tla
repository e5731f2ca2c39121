---------------------------- MODULE MCClientSync ----------------------------
(* Two tabs, of which one is visible all the time, and two drafts, of which *)
(* one is refused without the other.                                        *)
EXTENDS ClientSync

CONSTANTS first, second, receipt, issue

MCTabs == {first, second}
MCVisible == {first}
MCCommands == {receipt, issue}
MCMaker == [c \in MCCommands |-> IF c = issue THEN second ELSE first]
MCNeeds == [c \in MCCommands |-> IF c = issue THEN {receipt} ELSE {}]
MCBusy == [drafts |-> MCCommands, discards |-> {issue}, quits |-> FALSE, losses |-> 2, reloads |-> 0]
MCRestarted == [drafts |-> {receipt}, discards |-> {receipt}, quits |-> FALSE, losses |-> 1, reloads |-> 1]
MCQuitter == [drafts |-> {receipt}, discards |-> {receipt}, quits |-> TRUE, losses |-> 1, reloads |-> 1]
MCLives == {MCBusy, MCRestarted, MCQuitter}
MCQuits == {[MCQuitter EXCEPT !.reloads = 0]}
=============================================================================
