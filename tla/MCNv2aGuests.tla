---------------------------- MODULE MCNv2aGuests ----------------------------
(* An instance of Nv2aGuests for TLC: a driver that sets 640 by 480 pixels  *)
(* of 32 bits and uses channel 1, a handler that uses channel 2, and other  *)
(* code that writes the area of channel 3, RAM, PRAMIN, units that are not  *)
(* implemented, an address between the units, BAR 2, the timer, a port      *)
(* nobody owns and the audio devices.                                       *)
EXTENDS Nv2aGuests

MCGarbage         == {0, 70000}
MCStart           == \h3c0000
MCUserAddresses   == {channel * \h10000 + \h40 : channel \in {1, 2}} \cup {\h30080}
MCCrtcAddresses   == {NV_PCRTC_START}
MCPraminAddresses == {\h40}
MCRamAddresses    == {0, \h100, 70000, MCStart}

MCMode == << <<NV_CIO.OFFSET, \h40>>, <<NV_CIO.RPC0, \h20>>, <<NV_CIO.LSR, 0>>,
             <<NV_CIO.VDE, \hdf>>, <<NV_CIO.OVL, 2>>, <<NV_CIO.PIXEL, 3>> >>

\* The registers of the mode, and one the picture does not depend on.
MCCioIndexes == {MCMode[i][1] : i \in DOMAIN MCMode} \cup {NV_CIO.HDT}

MCElsewhere ==
  {[place |-> place, value |-> 1] :
     place \in { UserPlace(3, \h80), Place("registers", NV_REGION.PRAMIN[1] + \h40),
                 Place("registers", NV_REGION.PGRAPH[1]), Place("registers", \h6000),
                 Place("ram", \h100), Place("bar2", 0),
                 Place("port", \h43), Place("port", \h8008),
                 Place("apu", \h20010), Place("ac97", 0), Place("ata", 0),
                 Place("host", 0), PfifoPlace(NV_PFIFO_INTR_0) }}
=============================================================================
