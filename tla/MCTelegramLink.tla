--------------------------- MODULE MCTelegramLink ---------------------------
(* Small instances of TelegramLink: users and codes are interchangeable,   *)
(* and so are chats.                                                       *)
EXTENDS TelegramLink, TLC

Symmetry == Permutations(User) \cup Permutations(Chat) \cup Permutations(Code)
=============================================================================
