------------------------------ MODULE MCSaving ------------------------------
(* The refinement of CaptureStore by Saving, for TLC. *)
EXTENDS Saving

Store == INSTANCE CaptureStore WITH batch <- last, shown <- Whole

(* ImplementsStore: through every write, failure, crash and full disk what *)
(* a reader gets before the first gap is a growing prefix of one batch,    *)
(* and a batch that replaces another leaves none of it behind.             *)
ImplementsStore == Store!Spec

=============================================================================
