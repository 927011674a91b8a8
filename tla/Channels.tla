------------------------------ MODULE Channels ------------------------------
(***************************************************************************)
(* What the receiver knows a channel by: fileID = board_id * 100 + ch_id   *)
(* (WriteData in src/receiver/tcp_Receiver.cpp).  The first ten channels   *)
(* of a board are detectors and ch_id never reaches 100, so two channels   *)
(* never share a fileID.                                                   *)
(***************************************************************************)
EXTENDS Integers, Sequences

CONSTANTS
  FileID,          \* the channels of one crate
  ZeroFile,        \* 0: the fileID of a header word that is zero
  TrigFile         \* 9900: the fileID of trigger data, board 99 channel 0

ASSUME ChannelsAssumption == {ZeroFile, TrigFile} \subseteq FileID
=============================================================================
