--------------------------- MODULE MCPointerRouting ---------------------------
(* Two buttons, a touch screen and two keys, of which a chord plays one.     *)
EXTENDS PointerRouting
=============================================================================
