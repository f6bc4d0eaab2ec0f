SPECIFICATION FairSpec
CONSTANTS
  Templates <- MCTemplates
  HashWords <- MCHashWords
INVARIANTS ScanExact ViewsApart TemplateUsed
PROPERTY Ends
