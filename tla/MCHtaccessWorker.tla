-------------------------- MODULE MCHtaccessWorker --------------------------
(***************************************************************************)
(* Instances of HtaccessWorker for TLC.                                    *)
(***************************************************************************)
EXTENDS HtaccessWorker

CONSTANTS root, sub, other  \* /.htaccess, /sub/.htaccess, /other/.htaccess

SitePaths == {root, sub, other}
SiteChains == {<<root>>, <<root, sub>>, <<root, other>>}

TwoPaths == {root, sub}
TwoChains == {<<root>>, <<root, sub>>}

=============================================================================
