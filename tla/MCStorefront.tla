---------------------------- MODULE MCStorefront -----------------------------
EXTENDS Storefront
=============================================================================
