------------------------------- MODULE MCWire -------------------------------
(* Instances of Wire for TLC.                                               *)
EXTENDS Wire

SmallOutbox == {Msg(OpOpen, <<>>, <<>>), Msg(OpUp, <<12>>, <<>>),
                Msg(OpHello, <<12>>, <<12>>), Msg(OpError, <<12>>, <<>>), Msg(OpHello, <<12>>, <<12, 12>>)}
=============================================================================
