-------------------------- MODULE MCBuddyAllocator --------------------------
EXTENDS BuddyAllocator
=============================================================================
