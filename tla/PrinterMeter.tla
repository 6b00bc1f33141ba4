---------------------------- MODULE PrinterMeter ----------------------------
(***************************************************************************)
(* A printer prints one document side by side and the meter of             *)
(* business/print_quota.go converts the side counter it reports into       *)
(* sheets and quota points.  The set of physical sheets that have gone     *)
(* through the printer is the reference the conversion is checked against. *)
(***************************************************************************)
EXTENDS PrintQuota, FiniteSets

CONSTANTS MaxPages,    \* bound on the pages of a document
          MaxCopies    \* bound on the copies of a document

ASSUME MeterBounds == MaxPages \in Nat \ {0} /\ MaxCopies \in Nat \ {0}

VARIABLES doc,          \* the document being printed
          impressions,  \* sides completed, as IPP reports them
          sheets        \* the physical sheets used so far: <<copy, sheet of the copy>>

meterVars == <<doc, impressions, sheets>>

MeterInit ==
  /\ doc \in [pages: 1..MaxPages, copies: 1..MaxCopies,
              duplex: DuplexModes, color: ColorModes]
  /\ impressions = 0
  /\ sheets = {}

(* The sheet that carries the next side.                                   *)
NextSheet ==
  LET copy == impressions \div doc.pages
      page == impressions % doc.pages
  IN  <<copy, IF doc.duplex = "simplex" THEN page ELSE page \div 2>>

PrintSide ==
  /\ Countable(doc, impressions + 1)
  /\ impressions' = impressions + 1
  /\ sheets' = sheets \cup {NextSheet}
  /\ UNCHANGED doc

MeterSpec == MeterInit /\ [][PrintSide]_meterVars

-----------------------------------------------------------------------------
(* The meter counts physical sheets: an odd last page of a copy never      *)
(* shares its sheet with the next copy (SettledQuotaUsage's comment).  A   *)
(* report the settlement accepts never charges more than the reservation   *)
(* made from QuotaUsage, and a complete print charges exactly that: the    *)
(* two functions agree although they round per copy and per partial copy   *)
(* in different places.                                                    *)
MeterMatchesPrice ==
  /\ SettledSheets(doc, impressions) = Cardinality(sheets)
  /\ SettledQuotaUsage(doc, impressions) <= QuotaUsage(doc)
  /\ impressions = doc.pages * doc.copies
       => SettledQuotaUsage(doc, impressions) = QuotaUsage(doc)
=============================================================================
