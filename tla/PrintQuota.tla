----------------------------- MODULE PrintQuota -----------------------------
(***************************************************************************)
(* The two pure functions of business/print_quota.go: how many quota       *)
(* points a whole document costs, and how many it has cost after the       *)
(* printer has completed a given number of impressions (printed sides).    *)
(* A document is what the functions read of a print job.                   *)
(***************************************************************************)
EXTENDS Integers

DuplexModes == {"simplex", "longedge", "shortedge"}
ColorModes  == {"mono", "color"}

(* The print settings a job carries.  pages and copies are Go ints, read   *)
(* from INTEGER columns; outside this set both functions return an error.  *)
Document == [pages: Nat \ {0}, copies: Nat \ {0},
             duplex: DuplexModes, color: ColorModes]

Countable(doc, impressions) == impressions \in 0..(doc.pages * doc.copies)

Multiplier(doc) == IF doc.color = "color" THEN 2 ELSE 1

SheetsPerCopy(doc) ==
  IF doc.duplex = "simplex" THEN doc.pages ELSE (doc.pages + 1) \div 2

(* Mutant: sides are paired across copies.                                 *)
QuotaUsage_PairedCopies(doc) ==
  (IF doc.duplex = "simplex" THEN doc.pages * doc.copies
   ELSE (doc.pages * doc.copies + 1) \div 2) * Multiplier(doc)

(* QuotaUsage: sheets of a complete print, times the colour multiplier.    *)
QuotaUsage(doc) == SheetsPerCopy(doc) * doc.copies * Multiplier(doc)

(* The sheets the given number of impressions has used.  Every copy starts *)
(* on a new sheet, whatever side the previous copy ended on.               *)
SettledSheets(doc, impressions) ==
  IF doc.duplex = "simplex"
  THEN impressions
  ELSE (impressions \div doc.pages) * SheetsPerCopy(doc)
         + ((impressions % doc.pages) + 1) \div 2

SettledQuotaUsage(doc, impressions) ==
  SettledSheets(doc, impressions) * Multiplier(doc)
=============================================================================
