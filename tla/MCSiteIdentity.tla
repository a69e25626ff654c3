--------------------------- MODULE MCSiteIdentity ---------------------------
(* SiteIdentity for one site: two invites, two renewals, one lost Secret.  *)
EXTENDS SiteIdentity
=============================================================================
