---------------------------- MODULE MCThumbnail -----------------------------
EXTENDS Thumbnail
=============================================================================
