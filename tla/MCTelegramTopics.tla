--------------------------- MODULE MCTelegramTopics ---------------------------
(***************************************************************************)
(* Instances of TelegramTopics for TLC.                                    *)
(***************************************************************************)
EXTENDS TelegramTopics

MCBots == {"b1", "b2"}
MCOthers == {"w1"}
===============================================================================
