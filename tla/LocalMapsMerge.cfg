SPECIFICATION FairSpec
CONSTANTS
  Pages = 5
  Lists <- AllLists
  Null = Null
  Zero = Zero
INVARIANTS TypeOK InBounds PagesKept Unshared CopiedAsReached CrashesWhenTorn
PROPERTY Ends
