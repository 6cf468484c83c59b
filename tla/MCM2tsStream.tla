--------------------------- MODULE MCM2tsStream ---------------------------
(***************************************************************************)
(* Small transport streams: two PGS tracks and a video PID, every          *)
(* interleaving of their packets, a few packets without sync byte, and     *)
(* every position scanning may start at.                                   *)
(***************************************************************************)
EXTENDS M2tsRefinement

Segments(types) ==
  [k \in DOMAIN types |->
     [type |-> types[k], comp |-> IF types[k] = "PCS" THEN "EpochStart" ELSE None]]
MCWritten == [a |-> Segments(<< "PCS", "ODS", "END" >>),
              b |-> Segments(<< "PCS", "END" >>),
              w |-> Segments(<< "PCS" >>),
              x |-> Segments(<< "PCS", "END" >>)]

Piece(d, k, type, part, of, pts) ==
  [id |-> << d, k >>, type |-> type, part |-> part, of |-> of, pts |-> pts,
   comp |-> IF type = "PCS" THEN "EpochStart" ELSE None]
Packet(pid, pusi, pieces) == [pid |-> pid, pusi |-> pusi, pieces |-> pieces]

(* Track 1: a display set with an object that needs two packets, then one  *)
(* in a single PES packet.                                                 *)
Track1 ==
  << Packet(1, TRUE, << Piece("a", 1, "PCS", 1, 1, 5) >>),
     Packet(1, TRUE, << Piece("a", 2, "ODS", 1, 2, 5) >>),
     Packet(1, FALSE, << Piece("a", 2, "ODS", 2, 2, 5) >>),
     Packet(1, TRUE, << Piece("a", 3, "END", 1, 1, 5) >>),
     Packet(1, TRUE, << Piece("b", 1, "PCS", 1, 1, 7),
                        Piece("b", 2, "END", 1, 1, 7) >>) >>
(* Track 2: a display set that is abandoned before its END, then a whole   *)
(* one.                                                                    *)
Track2 ==
  << Packet(2, TRUE, << Piece("w", 1, "PCS", 1, 1, 0) >>),
     Packet(2, TRUE, << Piece("x", 1, "PCS", 1, 1, 6) >>),
     Packet(2, TRUE, << Piece("x", 2, "END", 1, 1, 6) >>) >>

(* Every way of interleaving two packet sequences.                         *)
Interleavings(s, t) ==
  LET n == Len(s) + Len(t)
      rank(P, i) == Cardinality({j \in P : j <= i})
  IN  {[i \in 1 .. n |-> IF i \in P THEN s[rank(P, i)] ELSE t[i - rank(P, i)]] :
         P \in {Q \in SUBSET (1 .. n) : Cardinality(Q) = Len(s)}}

(* Some of them have a packet of a PID that is no PGS track in between.    *)
MCFiles ==
  Interleavings(Track1, Track2)
    \cup {f \in Interleavings(Track1, << Track2[1], Packet(3, TRUE, << >>),
                                          Track2[2], Track2[3] >>) : f[5].pid = 3}
MCJunk == {J \in SUBSET (1 .. 8) : Cardinality(J) <= 2}
=============================================================================
