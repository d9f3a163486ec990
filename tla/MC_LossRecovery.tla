------------------------- MODULE MC_LossRecovery -------------------------
(* Model values for LossRecovery.  Sizes are in units of a third of the   *)
(* MTU: a full packet is 3, the initial window two full packets, the      *)
(* minimum window one, and a PING probe 1.  The loss reduction factor is  *)
(* the default 0x8000 (one half), max_tlps and reordering_threshold the   *)
(* defaults of Config.                                                     *)
EXTENDS LossRecovery

MC_MaxPn == 5
MC_MaxPeerPn == 3
(* Under the default Config two peer packets (the completing Handshake   *)
(* packet and one 1-RTT packet) and two writes, the second blocked on     *)
(* MAX_DATA.  Under time loss detection one more peer packet, so that an  *)
(* RTO probe can be acknowledged and the RTO verified, and one write.     *)
MC_Bounds(c) == IF c.max_tlps = 0 THEN [peer_packets |-> 3, writes |-> 1]
                                  ELSE [peer_packets |-> 2, writes |-> 2]
MC_NWrites == 2
MC_MTU == 3
MC_PacketCapacity == 1
MC_ProbeBytes == 1
(* The default Config (FACK loss detection with two tail loss probes),   *)
(* and beside it the other regime of check_packet_loss: time-based loss   *)
(* detection with no TLPs, where every probe is an RTO.                    *)
MC_DefaultConfigs == {[using_time_loss_detection |-> FALSE, max_tlps |-> 2]}
MC_Configs == MC_DefaultConfigs \cup
              {[using_time_loss_detection |-> TRUE, max_tlps |-> 0]}
MC_ReorderingThreshold == 3
MC_DefaultMss == 3
MC_InitialWindow == 6
MC_MinimumWindow == 3
MC_LossReductionFactor == 32768
MC_InitialMaxData == 1
MC_MaxDataLimit == 2
MC_NoSsthresh == 1000
=============================================================================
