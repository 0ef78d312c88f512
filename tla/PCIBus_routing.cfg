SPECIFICATION Spec
CONSTANTS
  Bars <- MCBars
  Top = 64
  FixedPorts <- MCFixedPorts
  Pool <- MCPool
INVARIANTS
  RoutedToOwner
  SizesRight
