---------------------------- MODULE MCStreamEvents ----------------------------
(***************************************************************************)
(* Instances of StreamEvents for TLC: how long a response of each dialect  *)
(* may be.  Where blocks are opened and closed by frames of their own a    *)
(* response takes more of them.                                            *)
(***************************************************************************)
EXTENDS StreamEvents

Long == [d \in Dialects |->
            IF d \in {"openai", "google", "ollama"} THEN 4 ELSE 6]
==============================================================================
