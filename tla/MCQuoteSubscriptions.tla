----------------------- MODULE MCQuoteSubscriptions -----------------------
(* A snapshot and a K-line of one instrument share its BASIC subscription;  *)
(* the order book of the other is a subscription without one.               *)
EXTENDS QuoteSubscriptions

CONSTANTS SnapA, KlineA, BookB, BasicA, KlA, ObB, BasicB, A, B

MCInstrumentOf == [r \in Refs |-> IF r = BookB THEN B ELSE A]

MCPhysical == [r \in Refs |-> IF r = SnapA THEN {BasicA}
                              ELSE IF r = KlineA THEN {BasicA, KlA}
                              ELSE {ObB}]

MCBasicOf == [i \in Instruments |-> IF i = A THEN BasicA ELSE BasicB]
===========================================================================
