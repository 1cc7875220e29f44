-------------------------- MODULE MCArchiveServer --------------------------
(* An archive for ArchiveServer: a page in two pieces, a compressed page, a
   redirection, and one that takes a hop more than is followed. *)
EXTENDS ArchiveServer

Page(comp, blob) == [redirect |-> FALSE, to |-> "page", comp |-> comp, blob |-> blob]
Redirect(to) == [redirect |-> TRUE, to |-> to, comp |-> "none", blob |-> 0]

MCArchive == [
    page |-> Page("none", 2), zst |-> Page("zstd", 1),
    near |-> Redirect("page"), far |-> Redirect("near")]
=============================================================================
