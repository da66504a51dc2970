---------------------------- MODULE MCCrawlEngine ----------------------------
(***************************************************************************)
(* A site of five pages for TLC.  The start page, a and b link to one      *)
(* another, so that a page is found again while it waits to be retried; a  *)
(* names b as its canonical URL, c has the content of the start page, and  *)
(* the path filters reject d, which is also an index page of the sitemap.  *)
(***************************************************************************)
EXTENDS CrawlEngine, TLC

CONSTANTS s, a, b, c, d

MCUrls      == {s, a, b, c, d}
MCLinks     == (s :> <<a, b, d>>) @@ (a :> <<b, s>>) @@ (b :> <<a, c>>)
                 @@ (c :> <<a>>) @@ (d :> <<>>)
MCContent   == (s :> "h0") @@ (c :> "h0") @@ [u \in {a, b, d} |-> NoHash]
MCCanonical == (a :> b) @@ [u \in {s, b, c, d} |-> u]
MCExcluded  == {d}
MCSitemap   == <<a, d, s, a, c>>
MCLowValue  == {d}
MCLimits    == {0, 1, 2}
=============================================================================
