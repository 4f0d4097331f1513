---------------------------- MODULE MCScsiTarget ----------------------------
(* ScsiTarget with a handful of command blocks. *)
EXTENDS ScsiTarget

\* TEST UNIT READY, REQUEST SENSE, START and STOP, a two-block READ6, a WRITE6
\* of the most blocks, VERIFY of an address on the LUN and beyond it, READ
\* CAPACITY with a good and a bad PMI byte, and an opcode nobody decodes
MCCommands == {<<TESTUNITREADY, 0>>, <<REQUESTSENSE, 0>>, <<STARTSTOP, 1>>, <<STARTSTOP, 0>>,
               <<READ6, 2>>, <<WRITE6, 0>>, <<READCAPACITY, 0>>, <<READCAPACITY, 2>>,
               <<VERIFY, 0>>, <<VERIFY, 3>>, <<9, 0>>}
=============================================================================
