---------------------------- MODULE MCHttpRequest ----------------------------
(***************************************************************************)
(* HttpRequest with the buffer of exchange (200 bytes at first) and with   *)
(* no buffer at first, and with texts that fill the payload exactly, up to *)
(* a byte, and far from it.                                                *)
(***************************************************************************)
EXTENDS HttpRequest

MCInitialSizes == {0, 200}
MCTextSizes == {0, 77, 78, 79, 155, 368, 369}

=============================================================================
