---------------------------- MODULE MC_ClientAPI ----------------------------
EXTENDS ClientAPI

(* Two well-formed variable values, so that swapped arguments show, and   *)
(* one that fails URL decoding.  The well-formed ones are also the rooms. *)
MCVarValues == {"a", "b", "%zz"}
MCBadEscapes == {"%zz"}

(* POST paths under /rooms/{roomID} that no template names.               *)
MCExtraPaths == {<<"rooms", "a", "forget">>, <<"rooms", "a", "joined">>}

MCMemberships == {"join", "leave", "invite", "ban"}
=============================================================================
