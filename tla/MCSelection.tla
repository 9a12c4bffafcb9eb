---------------------------- MODULE MCSelection ----------------------------
(* Selection for TLC: lists of up to two names, with the virtual name, an   *)
(* empty and an unknown one among them, and all sets of optional modules.   *)
EXTENDS Selection

CONSTANT ServerNames, ClientNames

MCModules == SUBSET {"scramp", "gssapi"}

\* The lists with one or two of these names.
ListsOf(names) == SeqOf(names, 2) \ {<<>>}

MCServerLists == ListsOf(ServerNames)
MCClientLists == ListsOf(ClientNames)
=============================================================================
