----------------------------- MODULE MCRecipePush -----------------------------
EXTENDS RecipePush

CONSTANTS component, page

MCOrder == <<component, page>>
MCSeeded == {page}
=============================================================================
