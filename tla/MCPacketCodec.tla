--------------------------- MODULE MCPacketCodec ----------------------------
(***************************************************************************)
(* Messages for TLC: without, with one and with two binary parts, as in    *)
(* UPDATE_PARAM, in AUDIO_IN, and in a message the server could send.      *)
(***************************************************************************)
EXTENDS PacketCodec

MCShapes ==
    {<<"plain">>, <<"plain", "binary", "plain">>, <<"binary", "plain", "binary">>}

=============================================================================
