------------------------- MODULE MCIngestDelivery -------------------------
(* Instances of IngestDelivery for TLC.                                    *)
EXTENDS IngestDelivery
============================================================================
